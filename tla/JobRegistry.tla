---------------------------- MODULE JobRegistry ----------------------------
(***************************************************************************)
(* Batch jobs of the semcast server: the registry (server/jobs/mod.rs),    *)
(* the detached task that runs one job and the task that drains its        *)
(* progress (server/jobs/runner.rs), and the statement execution they      *)
(* drive (server/engine.rs, execute_into).                                 *)
(*                                                                         *)
(* One server process owns the registry.  It may crash at any step and be  *)
(* started again; what survives is the jobs directory: job.json (`disk`)   *)
(* and result.parquet (`file`).  Every registry operation holds the        *)
(* registry mutex from its first read to its write of job.json, so each is *)
(* one step; what interleaves are the operations, the awaits of the tasks  *)
(* and the part of a cancel that runs after the unlock.                    *)
(***************************************************************************)
EXTENDS Naturals, Sequences, FiniteSets

CONSTANTS
  Jobs,             \* job ids that may be handed out (an id is never reused)
  MaxConcurrent,    \* permits of the job semaphore, --max-concurrent-jobs
  ProgressBuffer,   \* depth of the progress channel of one job
  Kinds,            \* statements: do they return rows, do they ask a model
  MaxEvents,        \* bound: plan and tick events of each job's statement
  MaxCrashes,       \* bound: deaths of the server process and visits of another
  MaxWriteFailures, \* bound: writes of job.json that fail
  SharedDir         \* whether another server may start on the same jobs dir

ASSUME ConstantsAssumption ==
  /\ IsFiniteSet(Jobs)
  /\ MaxConcurrent \in Nat \ {0}
  /\ ProgressBuffer \in Nat \ {0}
  /\ Kinds \subseteq [rows : BOOLEAN, semantic : BOOLEAN]
  /\ MaxEvents \in [Jobs -> Nat]
  /\ MaxCrashes \in Nat
  /\ MaxWriteFailures \in Nat
  /\ SharedDir \in BOOLEAN

VARIABLES
  phase,     \* "down", "recovering" or "serving"
  toRecover, \* directory entries recover has still to visit
  mem,       \* the registry's map: one record per job
  disk,      \* job.json of every job
  handle,    \* jobs whose entry holds an abort handle
  aborting,  \* jobs whose canceller took the handle and has not called abort
  killed,    \* jobs whose task has been told to abort
  permits,   \* free permits of the semaphore
  task,      \* where the job's task is
  outcome,   \* what execute_into returned
  stmt,      \* shape of the job's statement
  chan,      \* the progress channel
  sent,      \* progress events sent so far
  drain,     \* the drain task
  taken,     \* the event it has received and not mirrored yet
  file,      \* result.parquet
  crashes,   \* deaths of the server and visits of another, so far
  failures,  \* failed writes of job.json so far
  foreign,   \* what another server has read of job.json and not rewritten yet
  lost,      \* history: jobs in flight when a server died
  settled    \* history: first terminal status the server showed for a job

registryVars == <<phase, toRecover, mem, disk, handle, aborting, failures, settled>>
taskVars == <<killed, permits, task, outcome, stmt, chan, sent, drain, taken, file>>
vars == <<registryVars, taskVars, crashes, lost, foreign>>
-----------------------------------------------------------------------------
(***************************************************************************)
(* Records.  Timestamps, the SQL text and the rendered lines are left out; *)
(* `progress` is the number of the last event mirrored into the record and *)
(* `funnel` the number of the last one that carried counters.              *)
(***************************************************************************)
Terminal == {"succeeded", "failed", "cancelled", "interrupted"}

Live == {"queued", "running"}

Record == [status : {"absent"} \union Live \union Terminal,
           started : BOOLEAN, progress : Nat, funnel : Nat,
           result : BOOLEAN, tag : BOOLEAN]

NoRecord == [status |-> "absent", started |-> FALSE, progress |-> 0,
             funnel |-> 0, result |-> FALSE, tag |-> FALSE]

NewRecord == [NoRecord EXCEPT !.status = "queued"]

Interrupted(r) == [r EXCEPT !.status = "interrupted", !.result = FALSE]

Event == [counts : BOOLEAN, n : Nat \ {0}]

NoEvent == [counts |-> FALSE, n |-> 0]

(* Where the drain task still has events to mirror or to wait for.         *)
Draining == {"receiving", "mirroring"}

(* Where the task is in execute_into, holding the sender of its channel.   *)
Executing == {"planning", "line", "streaming", "tick", "totals", "closing"}

(* Where it waits for room in the channel, and nothing else goes on in it. *)
Sending == {"line", "tick", "totals"}

(* Where the task holds a permit of the semaphore.                         *)
Holding == Executing \union {"starting", "draining", "finishing"}

(* Where the task is at an await, so that an abort can drop it.            *)
Awaiting == Executing \union {"waiting", "draining"}

(* A task that has not ended.                                              *)
Alive == Holding \union {"waiting"}

(* "submitted": created, not spawned yet; "none": the id is unused.          *)
TaskState == Alive \union {"none", "submitted", "ended"}

(* A record as semcast_jobs shows it from now on.  `settled` remembers the *)
(* first terminal status of a job.                                         *)
Show(j, r) ==
  /\ mem' = [mem EXCEPT ![j] = r]
  /\ settled' = IF r.status \in Terminal /\ settled[j] = "absent"
                THEN [settled EXCEPT ![j] = r.status]
                ELSE settled

(* write_record writes a temporary file and renames it, so job.json holds  *)
(* the new record or, when the write fails, the previous one.  persist     *)
(* only logs a failure.                                                    *)
Persist(j, r) ==
  \/ /\ disk' = [disk EXCEPT ![j] = r]
     /\ UNCHANGED failures
  \/ /\ failures < MaxWriteFailures
     /\ failures' = failures + 1
     /\ UNCHANGED disk

(* A record changes in memory and on disk under one lock.                  *)
Update(j, r) == Show(j, r) /\ Persist(j, r)

(* Mutant: the permit is forgotten, not dropped.                           *)
EndTaskLeaks(j) ==
  /\ task' = [task EXCEPT ![j] = "ended"]
  /\ UNCHANGED permits

(* The task returns or is dropped: its permit, if it has one, goes back.   *)
EndTask(j) ==
  /\ task' = [task EXCEPT ![j] = "ended"]
  /\ permits' = IF task[j] \in Holding THEN permits + 1 ELSE permits
-----------------------------------------------------------------------------
Init ==
  /\ phase = "serving"
  /\ toRecover = {}
  /\ mem = [j \in Jobs |-> NoRecord]
  /\ disk = [j \in Jobs |-> NoRecord]
  /\ handle = {}
  /\ aborting = {}
  /\ killed = {}
  /\ permits = MaxConcurrent
  /\ task = [j \in Jobs |-> "none"]
  /\ outcome = [j \in Jobs |-> "none"]
  /\ stmt = [j \in Jobs |-> [rows |-> FALSE, semantic |-> FALSE]]
  /\ chan = [j \in Jobs |-> <<>>]
  /\ sent = [j \in Jobs |-> 0]
  /\ drain = [j \in Jobs |-> "none"]
  /\ taken = [j \in Jobs |-> NoEvent]
  /\ file = [j \in Jobs |-> "absent"]
  /\ crashes = 0
  /\ failures = 0
  /\ foreign = [j \in Jobs |-> NoRecord]
  /\ lost = {}
  /\ settled = [j \in Jobs |-> "absent"]
-----------------------------------------------------------------------------
(***************************************************************************)
(* SUBMIT: create writes job.json and inserts the record, then             *)
(* spawn_attached spawns the task and stores its handle.  Nothing holds    *)
(* the lock in between.  A create whose write fails returns an error and   *)
(* leaves nothing behind, so it is no step.  The write and the insert are  *)
(* one step: nobody knows the id before create returns, and a server that  *)
(* dies between them leaves what one that dies right after them leaves.    *)
(***************************************************************************)
Create(j) ==
  /\ phase = "serving"
  /\ task[j] = "none"
  /\ task' = [task EXCEPT ![j] = "submitted"]
  /\ Show(j, NewRecord)
  /\ disk' = [disk EXCEPT ![j] = NewRecord]
  /\ \E kind \in Kinds : stmt' = [stmt EXCEPT ![j] = kind]
  /\ UNCHANGED <<phase, toRecover, handle, aborting, failures, killed, permits,
                 outcome, chan, sent, drain, taken, file,
                 crashes, lost, foreign>>

SpawnAttached(j) ==
  /\ task[j] = "submitted"
  /\ task' = [task EXCEPT ![j] = "waiting"]
  /\ handle' = handle \union {j}
  /\ UNCHANGED <<phase, toRecover, mem, disk, aborting, failures, settled, killed,
                 permits, outcome, stmt, chan, sent, drain, taken, file,
                 crashes, lost, foreign>>

(***************************************************************************)
(* CANCEL JOB: mark the record and take the handle under the lock, abort   *)
(* the task after the unlock.  A job that is unknown or already terminal   *)
(* gets an error and no step.                                              *)
(***************************************************************************)
(* Mutant: the mark is not flushed.                                        *)
CancelMarkUnflushed(j) ==
  /\ phase = "serving"
  /\ mem[j].status \in Live
  /\ Show(j, [mem[j] EXCEPT !.status = "cancelled", !.result = FALSE])
  /\ handle' = handle \ {j}
  /\ aborting' = IF j \in handle THEN aborting \union {j} ELSE aborting
  /\ UNCHANGED <<phase, toRecover, disk, failures, taskVars,
                 crashes, lost, foreign>>

CancelMark(j) ==
  /\ phase = "serving"
  /\ mem[j].status \in Live
  /\ Update(j, [mem[j] EXCEPT !.status = "cancelled", !.result = FALSE])
  /\ handle' = handle \ {j}
  /\ aborting' = IF j \in handle THEN aborting \union {j} ELSE aborting
  /\ UNCHANGED <<phase, toRecover, taskVars, crashes, lost, foreign>>

(* Mutant: the handle is dropped without calling abort.                    *)
CancelAbortForgotten(j) ==
  /\ j \in aborting
  /\ aborting' = aborting \ {j}
  /\ UNCHANGED <<phase, toRecover, mem, disk, handle, failures, settled, taskVars,
                 crashes, lost, foreign>>

CancelAbort(j) ==
  /\ j \in aborting
  /\ aborting' = aborting \ {j}
  /\ killed' = killed \union {j}
  /\ UNCHANGED <<phase, toRecover, mem, disk, handle, failures, settled, permits,
                 task, outcome, stmt, chan, sent, drain, taken, file,
                 crashes, lost, foreign>>

(***************************************************************************)
(* The job's task.                                                         *)
(***************************************************************************)
Acquire(j) ==
  /\ task[j] = "waiting"
  /\ permits > 0
  /\ permits' = permits - 1
  /\ task' = [task EXCEPT ![j] = "starting"]
  /\ UNCHANGED <<registryVars, killed, outcome, stmt, chan, sent, drain, taken, file,
                 crashes, lost, foreign>>

(* Mutant: run ignores what start returned.                                *)
StartRefusalIgnored(j) ==
  /\ task[j] = "starting"
  /\ mem[j].status \in Terminal
  /\ task' = [task EXCEPT ![j] = "planning"]
  /\ drain' = [drain EXCEPT ![j] = "receiving"]
  /\ UNCHANGED <<registryVars, killed, permits, outcome, stmt, chan, sent, taken, file,
                 crashes, lost, foreign>>

StartRefused(j) ==
  /\ task[j] = "starting"
  /\ mem[j].status \in Terminal
  /\ EndTask(j)
  /\ UNCHANGED <<registryVars, killed, outcome, stmt, chan, sent, drain, taken, file,
                 crashes, lost, foreign>>

Start(j) ==
  /\ task[j] = "starting"
  /\ mem[j].status \notin Terminal
  /\ Update(j, [mem[j] EXCEPT !.status = "running", !.started = TRUE])
  /\ task' = [task EXCEPT ![j] = "planning"]
  /\ drain' = [drain EXCEPT ![j] = "receiving"]
  /\ UNCHANGED <<phase, toRecover, handle, aborting, killed, permits, outcome,
                 stmt, chan, sent, taken, file, crashes, lost, foreign>>

(* Sending waits while the channel is full; the drain task receives until  *)
(* the sender is gone, so a send never fails.                              *)
Send(j, counts) ==
  /\ Len(chan[j]) < ProgressBuffer
  /\ sent' = [sent EXCEPT ![j] = @ + 1]
  /\ chan' = [chan EXCEPT ![j] = Append(@, [counts |-> counts, n |-> sent[j] + 1])]

SendEvent(j) ==
  /\ task[j] \in Sending
  /\ Send(j, task[j] # "line")
  /\ task' = [task EXCEPT ![j] = CASE @ = "line"   -> "planning"
                                    [] @ = "tick"   -> "streaming"
                                    [] @ = "totals" -> "closing"]
  /\ UNCHANGED <<registryVars, killed, permits, outcome, stmt, drain, taken, file,
                 crashes, lost, foreign>>

(* A line of the plan summary, sent before the sink is opened.             *)
PlanLine(j) ==
  /\ task[j] = "planning"
  /\ stmt[j].semantic
  /\ sent[j] < MaxEvents[j]
  /\ task' = [task EXCEPT ![j] = "line"]
  /\ UNCHANGED <<registryVars, killed, permits, outcome, stmt, chan, sent, drain, taken,
                 file, crashes, lost, foreign>>

(* A statement with a result shape creates its Parquet file.               *)
OpenSink(j) ==
  /\ task[j] = "planning"
  /\ task' = [task EXCEPT ![j] = "streaming"]
  /\ file' = IF stmt[j].rows THEN [file EXCEPT ![j] = "open"] ELSE file
  /\ UNCHANGED <<registryVars, killed, permits, outcome, stmt, chan, sent, drain, taken,
                 crashes, lost, foreign>>

(* A tick finds that the counters moved.                                   *)
Tick(j) ==
  /\ task[j] = "streaming"
  /\ stmt[j].semantic
  /\ sent[j] < MaxEvents[j]
  /\ task' = [task EXCEPT ![j] = "tick"]
  /\ UNCHANGED <<registryVars, killed, permits, outcome, stmt, chan, sent, drain, taken,
                 file, crashes, lost, foreign>>

(* The stream is exhausted; a semantic plan sends its final totals.        *)
EndOfStream(j) ==
  /\ task[j] = "streaming"
  /\ task' = [task EXCEPT ![j] = IF stmt[j].semantic THEN "totals" ELSE "closing"]
  /\ UNCHANGED <<registryVars, killed, permits, outcome, stmt, chan, sent, drain, taken,
                 file, crashes, lost, foreign>>

(* Mutant: the writer is dropped instead of closed.                        *)
CloseSinkNoFooter(j) ==
  /\ task[j] = "closing"
  /\ outcome' = [outcome EXCEPT ![j] = IF stmt[j].rows THEN "written" ELSE "command"]
  /\ task' = [task EXCEPT ![j] = "draining"]
  /\ UNCHANGED <<registryVars, killed, permits, stmt, chan, sent, drain, taken, file,
                 crashes, lost, foreign>>

(* Sink::finish writes the footer; execute_into returns and drops the      *)
(* sender.                                                                 *)
CloseSink(j) ==
  /\ task[j] = "closing"
  /\ file' = IF stmt[j].rows THEN [file EXCEPT ![j] = "closed"] ELSE file
  /\ outcome' = [outcome EXCEPT ![j] = IF stmt[j].rows THEN "written" ELSE "command"]
  /\ task' = [task EXCEPT ![j] = "draining"]
  /\ UNCHANGED <<registryVars, killed, permits, stmt, chan, sent, drain, taken,
                 crashes, lost, foreign>>

(* Planning, opening the file, a batch, a write or the footer fails. A     *)
(* writer that fails on a file it has created is OpenSink and then this.   *)
ExecuteFails(j) ==
  /\ task[j] \in Executing \ Sending
  /\ outcome' = [outcome EXCEPT ![j] = "error"]
  /\ task' = [task EXCEPT ![j] = "draining"]
  /\ UNCHANGED <<registryVars, killed, permits, stmt, chan, sent, drain, taken, file,
                 crashes, lost, foreign>>

(* Mutant: the drain is left detached.                                     *)
JoinDrainSkipped(j) ==
  /\ task[j] = "draining"
  /\ task' = [task EXCEPT ![j] = "finishing"]
  /\ UNCHANGED <<registryVars, killed, permits, outcome, stmt, chan, sent, drain,
                 taken, file, crashes, lost, foreign>>

(* drain.await returns.                                                    *)
JoinDrain(j) ==
  /\ task[j] = "draining"
  /\ drain[j] = "done"
  /\ task' = [task EXCEPT ![j] = "finishing"]
  /\ UNCHANGED <<registryVars, killed, permits, outcome, stmt, chan, sent, drain,
                 taken, file, crashes, lost, foreign>>

(* Mutant: the outcome overwrites a cancel.                                *)
FinishedUnguarded(j) ==
  CASE outcome[j] = "written" ->
         [mem[j] EXCEPT !.status = "succeeded", !.result = TRUE]
    [] outcome[j] = "command" ->
         [mem[j] EXCEPT !.status = "succeeded", !.tag = TRUE]
    [] OTHER ->
         [mem[j] EXCEPT !.status = "failed", !.result = FALSE]

(* What the outcome makes of a record that is not terminal yet.  The arm   *)
(* for buffered rows is left out: a job's target is always Parquet.        *)
Finished(j) ==
  IF mem[j].status \in Terminal THEN mem[j]
  ELSE CASE outcome[j] = "written" ->
              [mem[j] EXCEPT !.status = "succeeded", !.result = TRUE]
         [] outcome[j] = "command" ->
              [mem[j] EXCEPT !.status = "succeeded", !.tag = TRUE]
         [] OTHER ->
              [mem[j] EXCEPT !.status = "failed", !.result = FALSE]

(* Mutant: the terminal status is not flushed.                             *)
FinishUnflushed(j) ==
  /\ task[j] = "finishing"
  /\ Show(j, Finished(j))
  /\ EndTask(j)
  /\ UNCHANGED <<phase, toRecover, disk, failures, handle, aborting, killed, outcome,
                 stmt, chan, sent, drain, taken, file, crashes, lost, foreign>>

(* finish goes through update, which persists even when the closure left   *)
(* the record alone.                                                       *)
Finish(j) ==
  /\ task[j] = "finishing"
  /\ Update(j, Finished(j))
  /\ EndTask(j)
  /\ UNCHANGED <<phase, toRecover, handle, aborting, killed, outcome, stmt, chan,
                 sent, drain, taken, file, crashes, lost, foreign>>

(* An abort drops the task's future where it awaits: the permit, the       *)
(* sender and the unclosed Parquet writer go with it.                      *)
AbortLands(j) ==
  /\ j \in killed
  /\ task[j] \in Awaiting
  /\ EndTask(j)
  /\ UNCHANGED <<registryVars, killed, outcome, stmt, chan, sent, drain, taken, file,
                 crashes, lost, foreign>>

(***************************************************************************)
(* The drain task.  It is spawned on its own, so an abort of the job's     *)
(* task does not stop it: it goes on until the channel is empty and the    *)
(* sender dropped.                                                         *)
(***************************************************************************)
(* Mutant: progress is mirrored when the statement is over.                *)
DrainReceiveLate(j) ==
  /\ drain[j] = "receiving"
  /\ chan[j] # <<>>
  /\ task[j] \notin Executing
  /\ drain' = [drain EXCEPT ![j] = "mirroring"]
  /\ taken' = [taken EXCEPT ![j] = Head(chan[j])]
  /\ chan' = [chan EXCEPT ![j] = Tail(@)]
  /\ UNCHANGED <<registryVars, killed, permits, task, outcome, stmt, sent, file,
                 crashes, lost, foreign>>

DrainReceive(j) ==
  /\ drain[j] = "receiving"
  /\ chan[j] # <<>>
  /\ drain' = [drain EXCEPT ![j] = "mirroring"]
  /\ taken' = [taken EXCEPT ![j] = Head(chan[j])]
  /\ chan' = [chan EXCEPT ![j] = Tail(@)]
  /\ UNCHANGED <<registryVars, killed, permits, task, outcome, stmt, sent, file,
                 crashes, lost, foreign>>

(* The event is in progress.log; now the record shows it.                  *)
DrainMirror(j) ==
  /\ drain[j] = "mirroring"
  /\ Update(j, [mem[j] EXCEPT !.progress = taken[j].n,
                              !.funnel = IF taken[j].counts THEN taken[j].n ELSE @])
  /\ drain' = [drain EXCEPT ![j] = "receiving"]
  /\ taken' = [taken EXCEPT ![j] = NoEvent]
  /\ UNCHANGED <<phase, toRecover, handle, aborting, killed, permits, task, outcome,
                 stmt, chan, sent, file, crashes, lost, foreign>>

DrainEnd(j) ==
  /\ drain[j] = "receiving"
  /\ chan[j] = <<>>
  /\ task[j] \notin Executing
  /\ drain' = [drain EXCEPT ![j] = "done"]
  /\ UNCHANGED <<registryVars, killed, permits, task, outcome, stmt, chan, sent, taken,
                 file, crashes, lost, foreign>>

(***************************************************************************)
(* The process dies (a crash, a kill, or main returning after the shutdown *)
(* signal, which drops the runtime), and is started again.                 *)
(***************************************************************************)
Crash ==
  /\ phase # "down"
  /\ crashes < MaxCrashes
  /\ crashes' = crashes + 1
  /\ phase' = "down"
  /\ toRecover' = {}
  /\ lost' = lost \union {j \in Jobs : mem[j].status \in Live}
  /\ mem' = [j \in Jobs |-> NoRecord]
  /\ handle' = {}
  /\ aborting' = {}
  /\ killed' = {}
  /\ permits' = MaxConcurrent
  /\ task' = [j \in Jobs |-> IF task[j] = "none" THEN "none" ELSE "ended"]
  /\ chan' = [j \in Jobs |-> <<>>]
  /\ drain' = [j \in Jobs |-> "none"]
  /\ taken' = [j \in Jobs |-> NoEvent]
  /\ UNCHANGED <<disk, failures, settled, outcome, stmt, sent, file, foreign>>

Boot ==
  /\ phase = "down"
  /\ phase' = "recovering"
  /\ toRecover' = {j \in Jobs : disk[j].status # "absent"}
  /\ UNCHANGED <<mem, disk, handle, aborting, failures, settled, taskVars,
                 crashes, lost, foreign>>

(* Mutant: a job in flight is loaded as it was.                            *)
RecoverJobAsIs(j) ==
  /\ phase = "recovering"
  /\ j \in toRecover
  /\ toRecover' = toRecover \ {j}
  /\ Show(j, disk[j])
  /\ UNCHANGED <<phase, disk, failures, handle, aborting, taskVars,
                 crashes, lost, foreign>>

(* One directory entry of recover.                                         *)
RecoverJob(j) ==
  /\ phase = "recovering"
  /\ j \in toRecover
  /\ toRecover' = toRecover \ {j}
  /\ IF disk[j].status \in Terminal
     THEN Show(j, disk[j]) /\ UNCHANGED <<disk, failures>>
     ELSE Update(j, Interrupted(disk[j]))
  /\ UNCHANGED <<phase, handle, aborting, taskVars, crashes, lost, foreign>>

Serve ==
  /\ phase = "recovering"
  /\ toRecover = {}
  /\ phase' = "serving"
  /\ UNCHANGED <<toRecover, mem, disk, handle, aborting, failures, settled, taskVars,
                 crashes, lost, foreign>>

(***************************************************************************)
(* Another server started on the same jobs directory visits this job's     *)
(* entry in its own recover, which runs before that server binds its port: *)
(* it reads job.json, and writes it back when the status is not terminal.  *)
(* Nothing in the directory says whose job it is, and what this server     *)
(* writes between the two is overwritten.                                  *)
(***************************************************************************)
OtherServerReads(j) ==
  /\ SharedDir
  /\ crashes < MaxCrashes
  /\ crashes' = crashes + 1
  /\ disk[j].status \in Live
  /\ foreign' = [foreign EXCEPT ![j] = disk[j]]
  /\ UNCHANGED <<registryVars, taskVars, lost>>

OtherServerRewrites(j) ==
  /\ SharedDir
  /\ foreign[j].status # "absent"
  /\ disk' = [disk EXCEPT ![j] = Interrupted(foreign[j])]
  /\ foreign' = [foreign EXCEPT ![j] = NoRecord]
  /\ UNCHANGED <<phase, toRecover, mem, handle, aborting, failures, settled, taskVars,
                 crashes, lost>>
-----------------------------------------------------------------------------
Server == Crash \/ Boot \/ Serve

Request(j) == Create(j) \/ SpawnAttached(j) \/ CancelMark(j) \/ CancelAbort(j)

Execute(j) == PlanLine(j) \/ OpenSink(j) \/ Tick(j) \/ EndOfStream(j)
              \/ SendEvent(j) \/ CloseSink(j) \/ ExecuteFails(j)

Run(j) == StartRefused(j) \/ Start(j) \/ JoinDrain(j) \/ Finish(j)

Drain(j) == DrainReceive(j) \/ DrainMirror(j) \/ DrainEnd(j)

OtherServer(j) == OtherServerReads(j) \/ OtherServerRewrites(j)

Next ==
  \/ Server
  \/ \E j \in Jobs :
       \/ Request(j)
       \/ Acquire(j)
       \/ Run(j)
       \/ Execute(j)
       \/ AbortLands(j)
       \/ Drain(j)
       \/ RecoverJob(j)
       \/ OtherServer(j)

Spec == Init /\ [][Next]_vars

(***************************************************************************)
(* Fairness.  The runtime polls every task that can make progress, runs    *)
(* the canceller and the submitter to the end of their handlers, and hands *)
(* out permits first come first served (tokio's semaphore is a FIFO queue, *)
(* hence the strong fairness of Acquire).  The operator restarts a dead    *)
(* server.  That a statement's own execution ends is a separate            *)
(* assumption: it waits for model and storage backends.                    *)
(***************************************************************************)
RuntimeFairness ==
  /\ WF_vars(Boot) /\ WF_vars(Serve)
  /\ \A j \in Jobs :
       /\ WF_vars(RecoverJob(j))
       /\ WF_vars(SpawnAttached(j))
       /\ WF_vars(CancelAbort(j))
       /\ SF_vars(Acquire(j))
       /\ WF_vars(Run(j))
       /\ WF_vars(SendEvent(j))
       /\ WF_vars(AbortLands(j))
       /\ WF_vars(Drain(j))

StatementFairness ==
  \A j \in Jobs :
    WF_vars(OpenSink(j) \/ EndOfStream(j) \/ CloseSink(j) \/ ExecuteFails(j))

RuntimeSpec == Spec /\ RuntimeFairness
-----------------------------------------------------------------------------
(* What job_result('<id>') answers.                                        *)
JobResult(j) ==
  CASE mem[j].status = "absent" -> "no such job"
    [] mem[j].result -> "open the file"
    [] ~mem[j].result /\ mem[j].tag -> "produces no rows"
    [] ~mem[j].result /\ ~mem[j].tag /\ mem[j].status \in Live -> "no result yet"
    [] OTHER -> "no result"

(***************************************************************************)
(* Properties.                                                             *)
(***************************************************************************)
TypeOK ==
  /\ phase \in {"down", "recovering", "serving"}
  /\ toRecover \subseteq Jobs
  /\ mem \in [Jobs -> Record]
  /\ disk \in [Jobs -> Record]
  /\ handle \subseteq Jobs
  /\ aborting \subseteq Jobs
  /\ killed \subseteq Jobs
  /\ permits \in 0..MaxConcurrent
  /\ task \in [Jobs -> TaskState]
  /\ outcome \in [Jobs -> {"none", "written", "command", "error"}]
  /\ stmt \in [Jobs -> [rows : BOOLEAN, semantic : BOOLEAN]]
  /\ chan \in [Jobs -> Seq(Event)]
  /\ sent \in [Jobs -> Nat]
  /\ drain \in [Jobs -> Draining \union {"none", "done"}]
  /\ taken \in [Jobs -> Event \union {NoEvent}]
  /\ file \in [Jobs -> {"absent", "open", "closed"}]
  /\ crashes \in Nat
  /\ failures \in Nat
  /\ foreign \in [Jobs -> Record]
  /\ lost \subseteq Jobs
  /\ settled \in [Jobs -> {"absent"} \union Terminal]

(* Every permit is either free or held by exactly one task, however tasks  *)
(* end (finished, refused, aborted while queued or while running).  A leak *)
(* would starve the queue, a double release would exceed                   *)
(* --max-concurrent-jobs.                                                  *)
PermitsConserved ==
  permits + Cardinality({j \in Jobs : task[j] \in Holding}) = MaxConcurrent

(* A job that was cancelled before it started never executes anything: it  *)
(* sends no event and creates no file, wherever the cancel fell between    *)
(* create, spawn, acquire and start.                                       *)
QueuedCancelNeverWorks ==
  \A j \in Jobs : mem[j].status = "cancelled" /\ ~mem[j].started
                    => task[j] \notin Executing /\ sent[j] = 0 /\ file[j] = "absent"

(* job_result never opens a Parquet file without a footer, across cancels, *)
(* failures and restarts, and always has an answer for a job that          *)
(* succeeded.                                                              *)
ResultReadable ==
  \A j \in Jobs :
    /\ JobResult(j) = "open the file" => file[j] = "closed"
    /\ mem[j].status = "succeeded" => JobResult(j) \in {"open the file", "produces no rows"}

(* A job that succeeded shows its last progress event, and a semantic one  *)
(* its final totals: the task joins the drain before it writes the status. *)
FinalTotalsShown ==
  \A j \in Jobs :
    mem[j].status = "succeeded" =>
      /\ mem[j].progress = sent[j]
      /\ stmt[j].semantic => mem[j].funnel = sent[j] /\ sent[j] > 0

(* While a server lives, a terminal status never changes: a cancel that    *)
(* was acknowledged is not overwritten by the task, nor a result by a      *)
(* late cancel or a late progress event.                                   *)
TerminalStable ==
  [][\A j \in Jobs : mem[j].status \in Terminal /\ phase' # "down"
                       => mem'[j].status = mem[j].status]_vars

(* A terminal status a server has shown is the one every later server      *)
(* shows, when the writes of job.json succeed.                             *)
TerminalSurvivesRestart ==
  \A j \in Jobs : mem[j].status \in Terminal => mem[j].status = settled[j]

(* A job is marked interrupted only if the server died while it was in     *)
(* flight.                                                                 *)
InterruptedMeansRestart ==
  \A j \in Jobs : disk[j].status = "interrupted" => j \in lost

(* Once a cancel holds the handle, the job's task and its drain end, even  *)
(* when the statement itself would hang forever.                           *)
CancelStopsWork ==
  \A j \in Jobs : (j \in aborting) ~> (task[j] = "ended" /\ drain[j] \notin Draining)

(* Every submitted job reaches a terminal status, in this server or in the *)
(* one that replaces it, if statements end.                                *)
EverySubmissionEnds ==
  StatementFairness => \A j \in Jobs : (mem[j].status = "queued") ~> (mem[j].status \in Terminal)

(***************************************************************************)
(* Refinement: job.json shows the lifecycle of JobLifecycle.               *)
(***************************************************************************)
Lifecycle == INSTANCE JobLifecycle WITH
               status <- [j \in Jobs |-> disk[j].status],
               working <- {j \in Jobs : task[j] \in Executing},
               up <- phase = "serving"

(* The registry, the tasks, cancellation and recovery together do nothing  *)
(* the lifecycle does not allow, when the writes of job.json succeed and   *)
(* the jobs directory is this server's own.                                *)
ImplementsLifecycle == Lifecycle!LifecycleSpec
=============================================================================
