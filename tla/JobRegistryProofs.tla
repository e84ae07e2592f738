------------------------- MODULE JobRegistryProofs -------------------------
(***************************************************************************)
(* Proofs about JobRegistry for every set of jobs and every bound, with    *)
(* crashes, failing writes and a second server on the same directory.      *)
(*                                                                         *)
(* The invariants a reader cares about are not inductive by themselves:    *)
(* that a succeeded job shows its last event depends on what is still in   *)
(* the channel while the drain runs, and that it survives a restart        *)
(* depends on what job.json says.  IInv adds those relations.              *)
(***************************************************************************)
EXTENDS JobRegistry, FiniteSetTheorems, TLAPS

(* The types, with permits unbounded: their bound follows from             *)
(* PermitsConserved.                                                       *)
Types ==
  /\ phase \in {"down", "recovering", "serving"}
  /\ toRecover \subseteq Jobs
  /\ mem \in [Jobs -> Record]
  /\ disk \in [Jobs -> Record]
  /\ handle \subseteq Jobs
  /\ aborting \subseteq Jobs
  /\ killed \subseteq Jobs
  /\ permits \in Nat
  /\ task \in [Jobs -> TaskState]
  /\ outcome \in [Jobs -> {"none", "written", "command", "error"}]
  /\ stmt \in [Jobs -> [rows : BOOLEAN, semantic : BOOLEAN]]
  /\ chan \in [Jobs -> Seq(Event)]
  /\ sent \in [Jobs -> Nat]
  /\ drain \in [Jobs -> Draining \union {"none", "done"}]
  /\ taken \in [Jobs -> Event \union {NoEvent}]
  /\ file \in [Jobs -> {"absent", "open", "closed"}]
  /\ crashes \in Nat
  /\ failures \in Nat
  /\ foreign \in [Jobs -> Record]
  /\ lost \subseteq Jobs
  /\ settled \in [Jobs -> {"absent"} \union Terminal]

(* The task has not reached execute_into.                                  *)
Unstarted == {"none", "submitted", "waiting", "starting"}

(* A job that has not executed has no event, no file and no drain.         *)
Fresh(j) ==
  task[j] \in Unstarted => sent[j] = 0 /\ file[j] = "absent"
                           /\ chan[j] = <<>> /\ drain[j] = "none"
                           /\ mem[j].progress = 0

(* Tasks live only while the server serves, and their records are there.   *)
Served(j) ==
  /\ phase # "serving" => task[j] \in {"none", "ended"} /\ drain[j] = "none"
                          /\ chan[j] = <<>>
  /\ phase = "serving" /\ task[j] # "none" => mem[j].status # "absent"
  /\ task[j] = "none" => disk[j].status = "absent" /\ mem[j].status = "absent"
  /\ phase = "recovering" /\ disk[j].status # "absent"
        => j \in toRecover \/ mem[j].status # "absent"
  /\ task[j] # "none" => disk[j].status # "absent"
  /\ disk[j].status = "absent" => mem[j].status = "absent"
  /\ j \in toRecover => disk[j].status # "absent" /\ mem[j].status = "absent"
  /\ phase = "down" => mem[j].status = "absent"
  /\ foreign[j].status # "absent" => disk[j].status # "absent"

(* A final status on disk is the one in memory, if a server has the job.   *)
DiskFollows(j) ==
  disk[j].status \in {"succeeded", "failed", "cancelled"} /\ mem[j].status # "absent"
    => mem[j].status = disk[j].status

(* A job that waits, or was cancelled while it waited, has not executed.   *)
Unexecuted(j) ==
  task[j] \in Unstarted \union {"ended"} /\ sent[j] = 0 /\ file[j] = "absent"

NeverStarted(j) ==
  /\ mem[j].status \in Live \union {"cancelled"} /\ ~mem[j].started => Unexecuted(j)
  /\ disk[j].status = "cancelled" /\ ~disk[j].started => Unexecuted(j)

(* The footer is written before the outcome says so.                       *)
Footer(j) ==
  /\ file[j] = "closed" => task[j] \in {"draining", "finishing", "ended"}
  /\ task[j] \in {"draining", "finishing"} /\ outcome[j] = "written"
        => file[j] = "closed"

(* Events in the channel are numbered on from the last one mirrored, or    *)
(* from the one the drain task has in hand.                                *)
Numbered(j, last) ==
  /\ sent[j] = last + Len(chan[j])
  /\ \A i \in 1..Len(chan[j]) : chan[j][i].n = last + i

Channel(j) ==
  /\ task[j] \in Executing => drain[j] \in Draining
  /\ task[j] = "draining" => drain[j] \in Draining \union {"done"}
  /\ task[j] = "finishing" => drain[j] = "done"
  /\ drain[j] = "done" => chan[j] = <<>>
  /\ drain[j] \in {"receiving", "done"} => Numbered(j, mem[j].progress)
  /\ drain[j] = "mirroring" => /\ taken[j].n = mem[j].progress + 1
                               /\ Numbered(j, mem[j].progress + 1)

(* Once a statement ended well its last event carries the final totals.    *)
Totals(j) ==
  /\ stmt[j].semantic
  /\ \/ task[j] = "closing"
     \/ task[j] \in {"draining", "finishing"} /\ outcome[j] \in {"written", "command"}
  => /\ sent[j] > 0
     /\ chan[j] # <<>> => chan[j][Len(chan[j])].counts
     /\ chan[j] = <<>> /\ drain[j] = "mirroring" => taken[j].counts
     /\ chan[j] = <<>> /\ drain[j] # "mirroring" => mem[j].funnel = sent[j]

(* What a record may say of a result and of success.                       *)
Honest(r, j) ==
  /\ r.result => file[j] = "closed"
  /\ r.status = "succeeded" =>
       /\ r.result \/ r.tag
       /\ r.progress = sent[j]
       /\ stmt[j].semantic => r.funnel = sent[j] /\ sent[j] > 0
       /\ task[j] = "ended" /\ drain[j] \notin Draining

JobInv(j) ==
  /\ Fresh(j) /\ Served(j) /\ DiskFollows(j)
  /\ NeverStarted(j)
  /\ Footer(j) /\ Channel(j) /\ Totals(j)
  /\ Honest(mem[j], j) /\ Honest(disk[j], j)

IInv == Types /\ PermitsConserved /\ \A j \in Jobs : JobInv(j)
-----------------------------------------------------------------------------
(***************************************************************************)
(* Types.                                                                  *)
(***************************************************************************)
LEMMA UpdateTypes ==
  ASSUME Types, NEW j \in Jobs, NEW r \in Record, Update(j, r)
  PROVE  /\ mem' \in [Jobs -> Record]
         /\ disk' \in [Jobs -> Record]
         /\ settled' \in [Jobs -> {"absent"} \union Terminal]
         /\ failures' \in Nat
<1>1. mem' \in [Jobs -> Record]
  BY DEF Types, Update, Show
<1>2. disk' \in [Jobs -> Record]
  BY DEF Types, Update, Persist
<1>3. failures' \in Nat
  BY DEF Types, Update, Persist
<1>4. settled' \in [Jobs -> {"absent"} \union Terminal]
  BY DEF Types, Update, Show
<1>. QED BY <1>1, <1>2, <1>3, <1>4

LEMMA RecordEdits ==
  ASSUME NEW r \in Record
  PROVE  /\ NewRecord \in Record /\ NoRecord \in Record /\ Interrupted(r) \in Record
         /\ \A s \in Live \union Terminal :
              /\ [r EXCEPT !.status = s] \in Record
              /\ [r EXCEPT !.status = s, !.result = FALSE] \in Record
              /\ [r EXCEPT !.status = s, !.result = TRUE] \in Record
              /\ [r EXCEPT !.status = s, !.tag = TRUE] \in Record
              /\ [r EXCEPT !.status = s, !.started = TRUE] \in Record
         /\ \A p, f \in Nat : [r EXCEPT !.progress = p, !.funnel = f] \in Record
  BY DEF Record, NewRecord, NoRecord, Interrupted, Live, Terminal

LEMMA SendTypes ==
  ASSUME Types, NEW j \in Jobs, NEW b \in BOOLEAN, Send(j, b)
  PROVE  chan' \in [Jobs -> Seq(Event)] /\ sent' \in [Jobs -> Nat]
<1>1. [counts |-> b, n |-> sent[j] + 1] \in Event
  BY DEF Types, Event
<1>2. Append(chan[j], [counts |-> b, n |-> sent[j] + 1]) \in Seq(Event)
  BY <1>1 DEF Types
<1>. QED BY <1>2 DEF Send, Types

LEMMA TypesInit == Init => Types
<1>. SUFFICES ASSUME Init PROVE Types
  OBVIOUS
<1>. USE DEF Init
<1>1. mem \in [Jobs -> Record] /\ disk \in [Jobs -> Record] /\ foreign \in [Jobs -> Record]
  BY DEF NoRecord, Record
<1>2. permits \in Nat
  BY ConstantsAssumption
<1>3. chan \in [Jobs -> Seq(Event)] /\ taken \in [Jobs -> Event \union {NoEvent}]
  OBVIOUS
<1>4. task \in [Jobs -> TaskState]
  BY DEF TaskState
<1>5. settled \in [Jobs -> {"absent"} \union Terminal]
  OBVIOUS
<1>. QED BY <1>1, <1>2, <1>3, <1>4, <1>5 DEF Types

LEMMA TypesStep == Types /\ [Next]_vars => Types'
<1>. SUFFICES ASSUME Types, [Next]_vars PROVE Types'
  OBVIOUS
<1>. USE DEF TaskState, Alive, Holding, Executing, Draining
<1>1. CASE UNCHANGED vars
  BY <1>1 DEF Types, vars, registryVars, taskVars
<1>2. CASE Crash
  <2>1. mem' \in [Jobs -> Record]
    BY <1>2 DEF Crash, NoRecord, Record
  <2>2. task' \in [Jobs -> TaskState] /\ chan' \in [Jobs -> Seq(Event)]
    BY <1>2 DEF Crash, Types
  <2>3. permits' \in Nat /\ crashes' \in Nat
    BY <1>2, ConstantsAssumption DEF Crash, Types
  <2>. QED BY <1>2, <2>1, <2>2, <2>3 DEF Crash, Types
<1>3. CASE Boot
  BY <1>3 DEF Boot, Types, taskVars
<1>4. CASE Serve
  BY <1>4 DEF Serve, Types, taskVars
<1>5. ASSUME NEW j \in Jobs, Create(j) PROVE Types'
  <2>1. NewRecord \in Record
    BY DEF NewRecord, NoRecord, Record, Live
  <2>2. mem' \in [Jobs -> Record] /\ disk' \in [Jobs -> Record]
    BY <1>5, <2>1 DEF Create, Types, Show
  <2>3. settled' \in [Jobs -> {"absent"} \union Terminal]
    BY <1>5 DEF Create, Types, Show
  <2>4. stmt' \in [Jobs -> [rows : BOOLEAN, semantic : BOOLEAN]]
    BY <1>5, ConstantsAssumption DEF Create, Types
  <2>. QED BY <1>5, <2>2, <2>3, <2>4 DEF Create, Types
<1>6. ASSUME NEW j \in Jobs, SpawnAttached(j) PROVE Types'
  BY <1>6 DEF SpawnAttached, Types
<1>7. ASSUME NEW j \in Jobs, CancelMark(j) PROVE Types'
  <2>1. [mem[j] EXCEPT !.status = "cancelled", !.result = FALSE] \in Record
    BY RecordEdits DEF Types, Terminal
  <2>. QED BY <1>7, <2>1, UpdateTypes DEF CancelMark, Types, taskVars
<1>8. ASSUME NEW j \in Jobs, CancelAbort(j) PROVE Types'
  BY <1>8 DEF CancelAbort, Types
<1>9. ASSUME NEW j \in Jobs, Acquire(j) PROVE Types'
  BY <1>9 DEF Acquire, Types, registryVars
<1>10. ASSUME NEW j \in Jobs, StartRefused(j) PROVE Types'
  BY <1>10 DEF StartRefused, EndTask, Types, registryVars
<1>11. ASSUME NEW j \in Jobs, Start(j) PROVE Types'
  <2>1. [mem[j] EXCEPT !.status = "running", !.started = TRUE] \in Record
    BY RecordEdits DEF Types, Live
  <2>. QED BY <1>11, <2>1, UpdateTypes DEF Start, Types
<1>12. ASSUME NEW j \in Jobs, SendEvent(j) PROVE Types'
  <2>1. task[j] \in Sending /\ (task[j] # "line") \in BOOLEAN /\ Send(j, task[j] # "line")
    BY <1>12 DEF SendEvent
  <2>2. chan' \in [Jobs -> Seq(Event)] /\ sent' \in [Jobs -> Nat]
    BY <2>1, SendTypes
  <2>3. task' \in [Jobs -> TaskState]
    BY <1>12, <2>1 DEF SendEvent, Sending, Types
  <2>. QED BY <1>12, <2>2, <2>3 DEF SendEvent, Types, registryVars
<1>13. ASSUME NEW j \in Jobs, OpenSink(j) PROVE Types'
  BY <1>13 DEF OpenSink, Types, registryVars
<1>14. ASSUME NEW j \in Jobs, PlanLine(j) \/ Tick(j) PROVE Types'
  BY <1>14 DEF PlanLine, Tick, Types, registryVars
<1>15. ASSUME NEW j \in Jobs, EndOfStream(j) PROVE Types'
  BY <1>15 DEF EndOfStream, Types, registryVars
<1>16. ASSUME NEW j \in Jobs, CloseSink(j) PROVE Types'
  BY <1>16 DEF CloseSink, Types, registryVars
<1>17. ASSUME NEW j \in Jobs, ExecuteFails(j) PROVE Types'
  BY <1>17 DEF ExecuteFails, Types, registryVars
<1>18. ASSUME NEW j \in Jobs, JoinDrain(j) PROVE Types'
  BY <1>18 DEF JoinDrain, Types, registryVars
<1>19. ASSUME NEW j \in Jobs, Finish(j) PROVE Types'
  <2>1. Finished(j) \in Record
    BY RecordEdits DEF Finished, Types, Terminal
  <2>. QED BY <1>19, <2>1, UpdateTypes DEF Finish, EndTask, Types
<1>20. ASSUME NEW j \in Jobs, AbortLands(j) PROVE Types'
  BY <1>20 DEF AbortLands, EndTask, Types, registryVars
<1>21. ASSUME NEW j \in Jobs, DrainMirror(j) PROVE Types'
  <2>. DEFINE e == taken[j]
              r == [mem[j] EXCEPT !.progress = e.n,
                                  !.funnel = IF e.counts THEN e.n ELSE @]
  <2>1. e.n \in Nat
    BY DEF Types, Event, NoEvent
  <2>2. r \in Record
    <3>1. mem[j] \in Record /\ mem[j].funnel \in Nat
      BY DEF Types, Record
    <3>. HIDE DEF e
    <3>2. CASE e.counts
      BY <2>1, <3>1, <3>2, RecordEdits
    <3>3. CASE ~e.counts
      BY <2>1, <3>1, <3>3, RecordEdits
    <3>. QED BY <3>2, <3>3
  <2>3. Update(j, r)
    BY <1>21 DEF DrainMirror
  <2>. HIDE DEF r
  <2>. QED BY <1>21, <2>2, <2>3, UpdateTypes DEF DrainMirror, Types
<1>25. ASSUME NEW j \in Jobs, DrainReceive(j) PROVE Types'
  <2>1. Head(chan[j]) \in Event /\ Tail(chan[j]) \in Seq(Event)
    BY <1>25 DEF DrainReceive, Types
  <2>. QED BY <1>25, <2>1 DEF DrainReceive, Types, registryVars
<1>22. ASSUME NEW j \in Jobs, DrainEnd(j) PROVE Types'
  BY <1>22 DEF DrainEnd, Types, registryVars
<1>23. ASSUME NEW j \in Jobs, RecoverJob(j) PROVE Types'
  <2>1. Interrupted(disk[j]) \in Record /\ disk[j] \in Record
    BY RecordEdits DEF Types
  <2>2. CASE disk[j].status \in Terminal
    BY <1>23, <2>1, <2>2 DEF RecoverJob, Show, Types, taskVars
  <2>3. CASE disk[j].status \notin Terminal
    BY <1>23, <2>1, <2>3, UpdateTypes DEF RecoverJob, Types, taskVars
  <2>. QED BY <2>2, <2>3
<1>24. ASSUME NEW j \in Jobs, OtherServer(j) PROVE Types'
  <2>1. Interrupted(foreign[j]) \in Record /\ NoRecord \in Record /\ disk[j] \in Record
    BY RecordEdits DEF Types
  <2>2. CASE OtherServerReads(j)
    <3>1. crashes' \in Nat /\ foreign' \in [Jobs -> Record]
      BY <2>1, <2>2 DEF OtherServerReads, Types
    <3>. QED BY <2>2, <3>1 DEF OtherServerReads, Types, taskVars, registryVars
  <2>3. CASE OtherServerRewrites(j)
    BY <2>1, <2>3 DEF OtherServerRewrites, Types, taskVars, registryVars
  <2>. QED BY <1>24, <2>2, <2>3 DEF OtherServer
<1>. QED BY <1>1, <1>2, <1>3, <1>4, <1>5, <1>6, <1>7, <1>8, <1>9, <1>10, <1>11,
            <1>12, <1>13, <1>14, <1>15, <1>16, <1>17, <1>18, <1>19, <1>20, <1>21,
            <1>22, <1>23, <1>24, <1>25
        DEF Next, Server, Request, Execute, Run, Drain
-----------------------------------------------------------------------------
(***************************************************************************)
(* Permits.  Only a task that enters or leaves Holding touches them.       *)
(***************************************************************************)
Holders == {j \in Jobs : task[j] \in Holding}

LEMMA HoldersFinite == IsFiniteSet(Holders) /\ Cardinality(Holders) \in Nat
  BY ConstantsAssumption, FS_Subset, FS_CardinalityType DEF Holders

LEMMA EndTaskPermits ==
  ASSUME Types, PermitsConserved, NEW j \in Jobs, EndTask(j)
  PROVE  PermitsConserved'
<1>. USE DEF PermitsConserved, EndTask, Types, Holding, Executing
<1>1. CASE task[j] \in Holding
  <2>1. Holders' = Holders \ {j} /\ j \in Holders
    BY <1>1 DEF Holders
  <2>2. Cardinality(Holders') = Cardinality(Holders) - 1
    BY <2>1, HoldersFinite, FS_RemoveElement
  <2>. QED BY <1>1, <2>2, HoldersFinite, ConstantsAssumption DEF Holders
<1>2. CASE task[j] \notin Holding
  <2>1. Holders' = Holders
    BY <1>2 DEF Holders
  <2>. QED BY <1>2, <2>1 DEF Holders
<1>. QED BY <1>1, <1>2

(* A step that changes one task within Holding, or outside of it.          *)
LEMMA MovePermits ==
  ASSUME Types, PermitsConserved, NEW j \in Jobs, NEW s, UNCHANGED permits,
         task' = [task EXCEPT ![j] = s], s \in Holding <=> task[j] \in Holding
  PROVE  PermitsConserved'
<1>1. Holders' = Holders
  BY DEF Holders, Types
<1>. QED BY <1>1 DEF Holders, PermitsConserved

LEMMA PermitsInit == Init => PermitsConserved
<1>. SUFFICES ASSUME Init PROVE PermitsConserved
  OBVIOUS
<1>1. Holders = {}
  BY DEF Init, Holders, Holding, Executing
<1>2. Cardinality(Holders) = 0
  BY <1>1, FS_EmptySet
<1>. QED BY <1>2, ConstantsAssumption DEF Init, Holders, PermitsConserved

LEMMA PermitsStep == Types /\ PermitsConserved /\ [Next]_vars => PermitsConserved'
<1>. SUFFICES ASSUME Types, PermitsConserved, [Next]_vars PROVE PermitsConserved'
  OBVIOUS
<1>1. ASSUME UNCHANGED <<permits, task>> PROVE PermitsConserved'
  BY <1>1 DEF PermitsConserved
<1>2. CASE UNCHANGED vars
  BY <1>1, <1>2 DEF vars, taskVars
<1>3. CASE Crash
  <2>1. Holders' = {}
    BY <1>3 DEF Crash, Holders, Holding, Executing, Types
  <2>2. Cardinality(Holders') = 0
    BY <2>1, FS_EmptySet
  <2>. QED BY <1>3, <2>2, ConstantsAssumption DEF Crash, Holders, PermitsConserved
<1>4. CASE Boot \/ Serve
  BY <1>1, <1>4 DEF Boot, Serve, taskVars
<1>5. ASSUME NEW j \in Jobs, Create(j) \/ SpawnAttached(j) PROVE PermitsConserved'
  BY <1>5, MovePermits DEF Create, SpawnAttached, Holding, Executing
<1>6. ASSUME NEW j \in Jobs, CancelMark(j) \/ CancelAbort(j) PROVE PermitsConserved'
  BY <1>1, <1>6 DEF CancelMark, CancelAbort, taskVars
<1>7. ASSUME NEW j \in Jobs, Acquire(j) PROVE PermitsConserved'
  <2>1. Holders' = Holders \union {j} /\ j \notin Holders
    BY <1>7 DEF Acquire, Holders, Holding, Executing, Types
  <2>2. Cardinality(Holders') = Cardinality(Holders) + 1
    BY <2>1, HoldersFinite, FS_AddElement
  <2>. QED BY <1>7, <2>2, HoldersFinite DEF Acquire, Holders, PermitsConserved, Types
<1>8. ASSUME NEW j \in Jobs, StartRefused(j) \/ Finish(j) \/ AbortLands(j)
      PROVE PermitsConserved'
  BY <1>8, EndTaskPermits DEF StartRefused, Finish, AbortLands
<1>9. ASSUME NEW j \in Jobs, Start(j) \/ JoinDrain(j) PROVE PermitsConserved'
  BY <1>9, MovePermits DEF Start, JoinDrain, Holding, Executing
<1>10. ASSUME NEW j \in Jobs, Execute(j) PROVE PermitsConserved'
  BY <1>10, MovePermits
  DEF Execute, PlanLine, OpenSink, Tick, EndOfStream, SendEvent, Sending, CloseSink,
      ExecuteFails, Holding, Executing
<1>11. ASSUME NEW j \in Jobs, Drain(j) PROVE PermitsConserved'
  BY <1>1, <1>11 DEF Drain, DrainReceive, DrainMirror, DrainEnd
<1>12. ASSUME NEW j \in Jobs, RecoverJob(j) \/ OtherServer(j)
       PROVE PermitsConserved'
  BY <1>1, <1>12 DEF RecoverJob, OtherServer, OtherServerReads, OtherServerRewrites, taskVars
<1>. QED BY <1>2, <1>3, <1>4, <1>5, <1>6, <1>7, <1>8, <1>9, <1>10, <1>11, <1>12
        DEF Next, Server, Request, Run
-----------------------------------------------------------------------------
(***************************************************************************)
(* JobInv.  A step of one job leaves every other job's part alone.         *)
(***************************************************************************)
Parts(i) == <<mem[i], disk[i], task[i], outcome[i], stmt[i], chan[i], sent[i],
              drain[i], taken[i], file[i], foreign[i]>>

LEMMA Frame ==
  ASSUME NEW i \in Jobs, JobInv(i), UNCHANGED Parts(i), UNCHANGED phase,
         i \in toRecover' <=> i \in toRecover
  PROVE  JobInv(i)'
<1>. USE DEF Parts
<1>1. Fresh(i)' /\ DiskFollows(i)' /\ NeverStarted(i)' /\ Footer(i)'
  BY DEF JobInv, Fresh, DiskFollows, NeverStarted, Unexecuted, Footer
<1>2. Served(i)'
  BY DEF JobInv, Served
<1>3. Channel(i)' /\ Totals(i)'
  BY DEF JobInv, Channel, Numbered, Totals
<1>4. Honest(mem[i], i)' /\ Honest(disk[i], i)'
  BY DEF JobInv, Honest
<1>. QED BY <1>1, <1>2, <1>3, <1>4 DEF JobInv

LEMMA JobInvInit == Init => \A j \in Jobs : JobInv(j)
<1>. SUFFICES ASSUME Init, NEW j \in Jobs PROVE JobInv(j)
  OBVIOUS
<1>. USE DEF Init, NoRecord
<1>1. Fresh(j) /\ DiskFollows(j) /\ NeverStarted(j) /\ Footer(j) /\ Served(j)
  BY DEF Fresh, DiskFollows, NeverStarted, Footer, Served, Live
<1>2. Channel(j) /\ Totals(j) /\ Honest(mem[j], j) /\ Honest(disk[j], j)
  BY DEF Channel, Numbered, Totals, Honest, Executing, Draining
<1>. QED BY <1>1, <1>2 DEF JobInv

LEMMA CrashKeeps ==
  ASSUME Types, NEW j \in Jobs, JobInv(j), Crash
  PROVE  JobInv(j)'
<1>. USE DEF JobInv, Crash, NoRecord, Types, Executing, Draining
<1>1. Fresh(j)' /\ DiskFollows(j)' /\ NeverStarted(j)' /\ Footer(j)' /\ Served(j)'
  BY DEF Fresh, DiskFollows, NeverStarted, Unexecuted, Unstarted, Footer, Served, Live
<1>2. Channel(j)' /\ Totals(j)'
  BY DEF Channel, Numbered, Totals
<1>3. Honest(mem[j], j)' /\ Honest(disk[j], j)'
  BY DEF Honest
<1>. QED BY <1>1, <1>2, <1>3

(* What one job's step does to its own part.                                *)
LEMMA UpdateEffect ==
  ASSUME Types, NEW j \in Jobs, NEW r, Update(j, r)
  PROVE  /\ mem'[j] = r
         /\ disk'[j] = r \/ disk'[j] = disk[j]
         /\ \A i \in Jobs \ {j} : mem'[i] = mem[i] /\ disk'[i] = disk[i]
  BY DEF Types, Update, Show, Persist

LEMMA CancelMarkKeeps ==
  ASSUME Types, NEW j \in Jobs, JobInv(j), CancelMark(j)
  PROVE  JobInv(j)'
<1>1. /\ mem[j].status \in Live /\ mem'[j].status = "cancelled" /\ mem'[j].result = FALSE
      /\ mem'[j].started = mem[j].started /\ mem'[j].tag = mem[j].tag
      /\ mem'[j].progress = mem[j].progress /\ mem'[j].funnel = mem[j].funnel
      /\ disk'[j] = mem'[j] \/ disk'[j] = disk[j]
  <2>. DEFINE r == [mem[j] EXCEPT !.status = "cancelled", !.result = FALSE]
  <2>1. Update(j, r) /\ mem[j].status \in Live
    BY DEF CancelMark
  <2>2. mem'[j] = r /\ (disk'[j] = mem'[j] \/ disk'[j] = disk[j])
    BY <2>1, UpdateEffect
  <2>. QED BY <2>1, <2>2 DEF Types, Record
<1>2. UNCHANGED <<phase, toRecover, taskVars>>
  BY DEF CancelMark
<1>. USE DEF taskVars
<1>. USE <1>1, <1>2 DEF JobInv, Terminal, Live, Executing, Unstarted, Draining
<1>3. Fresh(j)' /\ Footer(j)'
  BY DEF Fresh, Footer, Served, Channel
<1>4. Served(j)'
  BY DEF Served, Fresh
<1>5. DiskFollows(j)' /\ NeverStarted(j)'
  BY DEF DiskFollows, NeverStarted, Unexecuted, Fresh, Served, Channel
<1>6. Channel(j)'
  BY DEF Channel, Numbered, Fresh, Served
<1>7. Totals(j)'
  BY DEF Totals, Channel, Numbered, Fresh
<1>8. Honest(mem[j], j)' /\ Honest(disk[j], j)'
  BY DEF Honest, Footer, Channel, Totals, DiskFollows, Served, Fresh
<1>. QED BY <1>3, <1>4, <1>5, <1>6, <1>7, <1>8

LEMMA StartKeeps ==
  ASSUME Types, NEW j \in Jobs, JobInv(j), Start(j)
  PROVE  JobInv(j)'
<1>1. /\ mem'[j].status = "running" /\ mem'[j].result = mem[j].result
      /\ mem'[j].started = TRUE /\ mem'[j].tag = mem[j].tag
      /\ mem'[j].progress = mem[j].progress /\ mem'[j].funnel = mem[j].funnel
      /\ disk'[j] = mem'[j] \/ disk'[j] = disk[j]
  <2>. DEFINE r == [mem[j] EXCEPT !.status = "running", !.started = TRUE]
  <2>1. Update(j, r)
    BY DEF Start
  <2>2. mem'[j] = r /\ (disk'[j] = mem'[j] \/ disk'[j] = disk[j])
    BY <2>1, UpdateEffect
  <2>. QED BY <2>2 DEF Types, Record
<1>2. /\ task[j] = "starting" /\ mem[j].status \notin Terminal
      /\ task'[j] = "planning" /\ drain'[j] = "receiving"
      /\ UNCHANGED <<phase, toRecover, permits, outcome, stmt, chan, sent, file>>
  BY DEF Start, Types
<1>. USE DEF Types
<1>. USE <1>1, <1>2 DEF JobInv, Terminal, Live, Executing, Unstarted, Draining
<1>3. Fresh(j)' /\ Footer(j)'
  BY DEF Fresh, Footer, Served, Channel
<1>4. Served(j)'
  BY DEF Served, Fresh
<1>5. DiskFollows(j)' /\ NeverStarted(j)'
  BY DEF DiskFollows, NeverStarted, Unexecuted, Fresh, Served, Channel
<1>6. Channel(j)'
  BY DEF Channel, Numbered, Fresh, Served
<1>7. Totals(j)'
  BY DEF Totals, Channel, Numbered, Fresh
<1>8. Honest(mem[j], j)' /\ Honest(disk[j], j)'
  BY DEF Honest, Footer, Channel, Totals, DiskFollows, Served, Fresh
<1>. QED BY <1>3, <1>4, <1>5, <1>6, <1>7, <1>8

LEMMA FinishKeeps ==
  ASSUME Types, NEW j \in Jobs, JobInv(j), Finish(j)
  PROVE  JobInv(j)'
<1>1. /\ mem'[j] = Finished(j) /\ (disk'[j] = mem'[j] \/ disk'[j] = disk[j])
  BY UpdateEffect DEF Finish
<1>2. /\ task[j] = "finishing" /\ task'[j] = "ended"
      /\ UNCHANGED <<phase, toRecover, outcome, stmt, chan, sent, drain, file>>
  BY DEF Finish, EndTask, Types
<1>. USE DEF Finished, Types, Record
<1>. USE <1>1, <1>2 DEF JobInv, Terminal, Live, Executing, Unstarted, Draining
<1>3. Fresh(j)' /\ Footer(j)'
  BY DEF Fresh, Footer, Served, Channel
<1>4. Served(j)'
  BY DEF Served, Fresh
<1>5. DiskFollows(j)' /\ NeverStarted(j)'
  <2>1. CASE mem[j].status \in Terminal
    BY <2>1 DEF DiskFollows, NeverStarted, Unexecuted
  <2>2. CASE mem[j].status \notin Terminal
    <3>1. mem'[j].status \in {"succeeded", "failed"}
      BY <2>2
    <3>2. disk'[j] = disk[j] => disk[j].status \notin {"succeeded", "failed", "cancelled"}
      BY <2>2 DEF DiskFollows, Served
    <3>. QED BY <3>1, <3>2 DEF DiskFollows, NeverStarted
  <2>. QED BY <2>1, <2>2
<1>6. Channel(j)'
  BY DEF Channel, Numbered, Fresh, Served
<1>7. Totals(j)'
  BY DEF Totals, Channel, Numbered, Fresh
<1>8. Honest(mem[j], j)' /\ Honest(disk[j], j)'
  <2>1. sent[j] = mem[j].progress /\ chan[j] = <<>> /\ drain[j] = "done"
    BY DEF Channel, Numbered
  <2>3. Honest(mem[j], j)'
    <3>1. CASE mem[j].status \in Terminal
      BY <3>1 DEF Honest
    <3>2. CASE mem[j].status \notin Terminal /\ outcome[j] = "written"
      <4>1. /\ mem'[j].status = "succeeded" /\ mem'[j].result
            /\ mem'[j].progress = mem[j].progress /\ mem'[j].funnel = mem[j].funnel
        BY <3>2
      <4>2. file[j] = "closed"
        BY <3>2 DEF Footer
      <4>3. stmt[j].semantic => sent[j] > 0 /\ mem[j].funnel = sent[j]
        BY <2>1, <3>2 DEF Totals
      <4>. QED BY <2>1, <4>1, <4>2, <4>3 DEF Honest
    <3>3. CASE mem[j].status \notin Terminal /\ outcome[j] = "command"
      <4>1. /\ mem'[j].status = "succeeded" /\ mem'[j].tag
            /\ mem'[j].result = mem[j].result
            /\ mem'[j].progress = mem[j].progress /\ mem'[j].funnel = mem[j].funnel
        BY <3>3
      <4>2. stmt[j].semantic => sent[j] > 0 /\ mem[j].funnel = sent[j]
        BY <2>1, <3>3 DEF Totals
      <4>. QED BY <2>1, <4>1, <4>2 DEF Honest
    <3>4. CASE mem[j].status \notin Terminal /\ outcome[j] \notin {"written", "command"}
      BY <3>4 DEF Honest
    <3>. QED BY <3>1, <3>2, <3>3, <3>4
  <2>4. Honest(disk[j], j)'
    BY <2>3 DEF Honest
  <2>. QED BY <2>3, <2>4
<1>. QED BY <1>3, <1>4, <1>5, <1>6, <1>7, <1>8

LEMMA DrainReceiveKeeps ==
  ASSUME Types, NEW j \in Jobs, JobInv(j), DrainReceive(j)
  PROVE  JobInv(j)'
<1>1. /\ drain[j] = "receiving" /\ drain'[j] = "mirroring"
      /\ chan[j] # <<>> /\ chan'[j] = Tail(chan[j]) /\ taken'[j] = Head(chan[j])
      /\ UNCHANGED <<mem, disk, phase, toRecover, task, outcome, stmt, sent, file, foreign>>
  BY DEF DrainReceive, Types, registryVars
<1>2. /\ Len(chan[j]) \in Nat \ {0} /\ Len(chan'[j]) = Len(chan[j]) - 1
      /\ taken'[j] = chan[j][1] /\ \A i \in 1..Len(chan'[j]) : chan'[j][i] = chan[j][i + 1]
  BY <1>1 DEF Types
<1>. USE <1>1, <1>2 DEF JobInv, Terminal, Live, Executing, Unstarted, Draining
<1>3. Fresh(j)' /\ Footer(j)'
  BY DEF Fresh, Footer, Served, Channel
<1>4. Served(j)'
  BY DEF Served, Fresh
<1>5. DiskFollows(j)' /\ NeverStarted(j)'
  BY DEF DiskFollows, NeverStarted, Unexecuted, Fresh, Served, Channel
<1>6. Channel(j)'
  <2>1. mem[j].progress \in Nat /\ Numbered(j, mem[j].progress)
    BY DEF Types, Record, Channel
  <2>2. taken'[j].n = mem'[j].progress + 1
    BY <2>1 DEF Numbered
  <2>3. sent'[j] = mem'[j].progress + 1 + Len(chan'[j])
    BY <2>1 DEF Numbered
  <2>4. \A i \in 1..Len(chan'[j]) : chan'[j][i].n = mem'[j].progress + 1 + i
    <3>1. SUFFICES ASSUME NEW i \in 1..Len(chan'[j])
                   PROVE  chan'[j][i].n = mem'[j].progress + 1 + i
      OBVIOUS
    <3>2. i + 1 \in 1..Len(chan[j]) /\ chan'[j][i] = chan[j][i + 1]
      OBVIOUS
    <3>3. chan[j][i + 1].n = mem[j].progress + (i + 1)
      BY <2>1, <3>2 DEF Numbered
    <3>4. mem[j].progress + (i + 1) = mem[j].progress + 1 + i
      BY <2>1
    <3>. QED BY <3>2, <3>3, <3>4
  <2>. QED BY <2>2, <2>3, <2>4 DEF Channel, Numbered
<1>7. Totals(j)'
  <2>1. CASE chan'[j] = <<>>
    <3>0. Len(chan'[j]) = 0
      BY ONLY <2>1
    <3>1. Len(chan[j]) = 1
      BY <3>0
    <3>. QED BY <2>1, <3>1 DEF Totals
  <2>2. CASE chan'[j] # <<>>
    <3>1. chan'[j][Len(chan'[j])] = chan[j][Len(chan[j])]
      BY <2>2
    <3>. QED BY <2>2, <3>1 DEF Totals
  <2>. QED BY <2>1, <2>2
<1>8. Honest(mem[j], j)' /\ Honest(disk[j], j)'
  BY DEF Honest, Footer, Channel, Totals, DiskFollows, Served, Fresh
<1>. QED BY <1>3, <1>4, <1>5, <1>6, <1>7, <1>8

LEMMA DrainMirrorKeeps ==
  ASSUME Types, NEW j \in Jobs, JobInv(j), DrainMirror(j)
  PROVE  JobInv(j)'
<1>. DEFINE e == taken[j]
<1>1. /\ mem'[j].progress = e.n
      /\ mem'[j].funnel = (IF e.counts THEN e.n ELSE mem[j].funnel)
      /\ mem'[j].status = mem[j].status /\ mem'[j].result = mem[j].result
      /\ mem'[j].started = mem[j].started /\ mem'[j].tag = mem[j].tag
      /\ disk'[j] = mem'[j] \/ disk'[j] = disk[j]
  <2>. DEFINE r == [mem[j] EXCEPT !.progress = e.n,
                                  !.funnel = IF e.counts THEN e.n ELSE @]
  <2>1. Update(j, r)
    BY DEF DrainMirror
  <2>2. mem'[j] = r /\ (disk'[j] = mem'[j] \/ disk'[j] = disk[j])
    BY <2>1, UpdateEffect
  <2>. QED BY <2>2 DEF Types, Record
<1>2. /\ drain[j] = "mirroring" /\ drain'[j] = "receiving"
      /\ UNCHANGED <<phase, toRecover, task, outcome, stmt, sent, chan, file, foreign>>
  BY DEF DrainMirror, Types
<1>. HIDE DEF e
<1>. USE <1>1, <1>2 DEF JobInv, Terminal, Live, Executing, Unstarted, Draining
<1>9. e.n = mem[j].progress + 1 /\ Numbered(j, mem[j].progress + 1)
  BY DEF Channel, e
<1>3. Fresh(j)' /\ Footer(j)'
  BY DEF Fresh, Footer, Served, Channel
<1>4. Served(j)'
  BY DEF Served, Fresh
<1>5. DiskFollows(j)' /\ NeverStarted(j)'
  BY DEF DiskFollows, NeverStarted, Unexecuted, Fresh, Served, Channel
<1>6. Channel(j)'
  BY <1>9 DEF Channel, Numbered
<1>7. Totals(j)'
  <2>1. CASE chan[j] = <<>>
    <3>1. sent[j] = e.n
      BY <1>9, <2>1 DEF Numbered, Types, Record
    <3>. QED BY <2>1, <3>1 DEF Totals, e
  <2>2. CASE chan[j] # <<>>
    BY <2>2 DEF Totals
  <2>. QED BY <2>1, <2>2
<1>8. Honest(mem[j], j)' /\ Honest(disk[j], j)'
  BY DEF Honest, Footer, Channel, Totals, DiskFollows, Served, Fresh
<1>. QED BY <1>3, <1>4, <1>5, <1>6, <1>7, <1>8

LEMMA RecoverJobKeeps ==
  ASSUME Types, NEW j \in Jobs, JobInv(j), RecoverJob(j)
  PROVE  JobInv(j)'
<1>1. /\ disk[j].status \in Terminal => mem'[j] = disk[j] /\ disk'[j] = disk[j]
      /\ disk[j].status \notin Terminal =>
           /\ mem'[j].status = "interrupted" /\ mem'[j].result = FALSE
           /\ disk'[j] = mem'[j] \/ disk'[j] = disk[j]
  <2>1. CASE disk[j].status \in Terminal
    BY <2>1 DEF RecoverJob, Types, Show
  <2>2. CASE disk[j].status \notin Terminal
    <3>1. Update(j, Interrupted(disk[j]))
      BY <2>2 DEF RecoverJob
    <3>2. mem'[j] = Interrupted(disk[j]) /\ (disk'[j] = mem'[j] \/ disk'[j] = disk[j])
      BY <3>1, UpdateEffect
    <3>. QED BY <2>2, <3>2 DEF Types, Record, Interrupted
  <2>. QED BY <2>1, <2>2
<1>2. /\ phase = "recovering" /\ j \in toRecover
      /\ toRecover' = toRecover \ {j}
      /\ UNCHANGED <<phase, taskVars>>
  BY DEF RecoverJob
<1>. USE DEF Types, taskVars
<1>. USE <1>1, <1>2 DEF JobInv, Terminal, Live, Executing, Unstarted, Draining
<1>3. Fresh(j)' /\ Footer(j)'
  BY DEF Fresh, Footer, Served, Channel
<1>4. Served(j)'
  BY DEF Served, Fresh
<1>5. DiskFollows(j)' /\ NeverStarted(j)'
  BY DEF DiskFollows, NeverStarted, Unexecuted, Fresh, Served, Channel
<1>6. Channel(j)'
  BY DEF Channel, Numbered, Fresh, Served
<1>7. Totals(j)'
  BY DEF Totals, Served
<1>8. Honest(mem[j], j)' /\ Honest(disk[j], j)'
  BY DEF Honest, Footer, Channel, Totals, DiskFollows, Served, Fresh
<1>. QED BY <1>3, <1>4, <1>5, <1>6, <1>7, <1>8

LEMMA CreateKeeps ==
  ASSUME Types, NEW j \in Jobs, JobInv(j), Create(j)
  PROVE  JobInv(j)'
<1>. USE DEF JobInv, Types, Create, Show, NewRecord, NoRecord, Terminal, Live, Record,
             Executing, Unstarted, Draining
<1>1. Fresh(j)' /\ Footer(j)'
  BY DEF Fresh, Footer, Served, Channel
<1>2. Served(j)'
  BY DEF Served, Fresh
<1>3. DiskFollows(j)' /\ NeverStarted(j)'
  BY DEF DiskFollows, NeverStarted, Unexecuted, Fresh, Served, Channel
<1>4. Channel(j)'
  BY DEF Channel, Numbered, Fresh, Served
<1>5. Totals(j)'
  BY DEF Totals, Channel, Numbered, Fresh
<1>6. Honest(mem[j], j)' /\ Honest(disk[j], j)'
  BY DEF Honest, Footer, Channel, Totals, DiskFollows, Served, Fresh
<1>. QED BY <1>1, <1>2, <1>3, <1>4, <1>5, <1>6

LEMMA SpawnAttachedKeeps ==
  ASSUME Types, NEW j \in Jobs, JobInv(j), SpawnAttached(j)
  PROVE  JobInv(j)'
<1>. USE DEF JobInv, Types, SpawnAttached, Terminal, Live, Record,
             Executing, Unstarted, Draining
<1>1. Fresh(j)' /\ Footer(j)'
  BY DEF Fresh, Footer, Served, Channel
<1>2. Served(j)'
  BY DEF Served, Fresh
<1>3. DiskFollows(j)' /\ NeverStarted(j)'
  BY DEF DiskFollows, NeverStarted, Unexecuted, Fresh, Served, Channel
<1>4. Channel(j)'
  BY DEF Channel, Numbered, Fresh, Served
<1>5. Totals(j)'
  BY DEF Totals, Channel, Numbered, Fresh
<1>6. Honest(mem[j], j)' /\ Honest(disk[j], j)'
  BY DEF Honest, Footer, Channel, Totals, DiskFollows, Served, Fresh
<1>. QED BY <1>1, <1>2, <1>3, <1>4, <1>5, <1>6

LEMMA CancelAbortKeeps ==
  ASSUME Types, NEW j \in Jobs, JobInv(j), CancelAbort(j)
  PROVE  JobInv(j)'
<1>. USE DEF JobInv, Types, CancelAbort, Terminal, Live, Record,
             Executing, Unstarted, Draining
<1>1. Fresh(j)' /\ Footer(j)'
  BY DEF Fresh, Footer, Served, Channel
<1>2. Served(j)'
  BY DEF Served, Fresh
<1>3. DiskFollows(j)' /\ NeverStarted(j)'
  BY DEF DiskFollows, NeverStarted, Unexecuted, Fresh, Served, Channel
<1>4. Channel(j)'
  BY DEF Channel, Numbered, Fresh, Served
<1>5. Totals(j)'
  BY DEF Totals, Channel, Numbered, Fresh
<1>6. Honest(mem[j], j)' /\ Honest(disk[j], j)'
  BY DEF Honest, Footer, Channel, Totals, DiskFollows, Served, Fresh
<1>. QED BY <1>1, <1>2, <1>3, <1>4, <1>5, <1>6

LEMMA AcquireKeeps ==
  ASSUME Types, NEW j \in Jobs, JobInv(j), Acquire(j)
  PROVE  JobInv(j)'
<1>. USE DEF JobInv, Types, Acquire, registryVars, Terminal, Live, Record,
             Executing, Unstarted, Draining
<1>1. Fresh(j)' /\ Footer(j)'
  BY DEF Fresh, Footer, Served, Channel
<1>2. Served(j)'
  BY DEF Served, Fresh
<1>3. DiskFollows(j)' /\ NeverStarted(j)'
  BY DEF DiskFollows, NeverStarted, Unexecuted, Fresh, Served, Channel
<1>4. Channel(j)'
  BY DEF Channel, Numbered, Fresh, Served
<1>5. Totals(j)'
  BY DEF Totals, Channel, Numbered, Fresh
<1>6. Honest(mem[j], j)' /\ Honest(disk[j], j)'
  BY DEF Honest, Footer, Channel, Totals, DiskFollows, Served, Fresh
<1>. QED BY <1>1, <1>2, <1>3, <1>4, <1>5, <1>6

LEMMA StartRefusedKeeps ==
  ASSUME Types, NEW j \in Jobs, JobInv(j), StartRefused(j)
  PROVE  JobInv(j)'
<1>. USE DEF JobInv, Types, StartRefused, EndTask, registryVars, Terminal, Live, Record,
             Executing, Unstarted, Draining
<1>1. Fresh(j)' /\ Footer(j)'
  BY DEF Fresh, Footer, Served, Channel
<1>2. Served(j)'
  BY DEF Served, Fresh
<1>3. DiskFollows(j)' /\ NeverStarted(j)'
  BY DEF DiskFollows, NeverStarted, Unexecuted, Fresh, Served, Channel
<1>4. Channel(j)'
  BY DEF Channel, Numbered, Fresh, Served
<1>5. Totals(j)'
  BY DEF Totals, Channel, Numbered, Fresh
<1>6. Honest(mem[j], j)' /\ Honest(disk[j], j)'
  BY DEF Honest, Footer, Channel, Totals, DiskFollows, Served, Fresh
<1>. QED BY <1>1, <1>2, <1>3, <1>4, <1>5, <1>6

LEMMA PlanLineKeeps ==
  ASSUME Types, NEW j \in Jobs, JobInv(j), PlanLine(j)
  PROVE  JobInv(j)'
<1>. USE DEF JobInv, Types, PlanLine, registryVars, Terminal, Live, Record,
             Executing, Unstarted, Draining
<1>1. Fresh(j)' /\ Footer(j)'
  BY DEF Fresh, Footer, Served, Channel
<1>2. Served(j)'
  BY DEF Served, Fresh
<1>3. DiskFollows(j)' /\ NeverStarted(j)'
  BY DEF DiskFollows, NeverStarted, Unexecuted, Fresh, Served, Channel
<1>4. Channel(j)'
  BY DEF Channel, Numbered, Fresh, Served
<1>5. Totals(j)'
  BY DEF Totals, Channel, Fresh
<1>6. Honest(mem[j], j)' /\ Honest(disk[j], j)'
  BY DEF Honest, Footer, Channel, Totals, DiskFollows, Served, Fresh
<1>. QED BY <1>1, <1>2, <1>3, <1>4, <1>5, <1>6

LEMMA OpenSinkKeeps ==
  ASSUME Types, NEW j \in Jobs, JobInv(j), OpenSink(j)
  PROVE  JobInv(j)'
<1>. USE DEF JobInv, Types, OpenSink, registryVars, Terminal, Live, Record,
             Executing, Unstarted, Draining
<1>1. Fresh(j)' /\ Footer(j)'
  BY DEF Fresh, Footer, Served, Channel
<1>2. Served(j)'
  BY DEF Served, Fresh
<1>3. DiskFollows(j)' /\ NeverStarted(j)'
  BY DEF DiskFollows, NeverStarted, Unexecuted, Fresh, Served, Channel
<1>4. Channel(j)'
  BY DEF Channel, Numbered, Fresh, Served
<1>5. Totals(j)'
  BY DEF Totals, Channel, Numbered, Fresh
<1>6. Honest(mem[j], j)' /\ Honest(disk[j], j)'
  BY DEF Honest, Footer, Channel, Totals, DiskFollows, Served, Fresh
<1>. QED BY <1>1, <1>2, <1>3, <1>4, <1>5, <1>6

LEMMA TickKeeps ==
  ASSUME Types, NEW j \in Jobs, JobInv(j), Tick(j)
  PROVE  JobInv(j)'
<1>. USE DEF JobInv, Types, Tick, registryVars, Terminal, Live, Record,
             Executing, Unstarted, Draining
<1>1. Fresh(j)' /\ Footer(j)'
  BY DEF Fresh, Footer, Served, Channel
<1>2. Served(j)'
  BY DEF Served, Fresh
<1>3. DiskFollows(j)' /\ NeverStarted(j)'
  BY DEF DiskFollows, NeverStarted, Unexecuted, Fresh, Served, Channel
<1>4. Channel(j)'
  BY DEF Channel, Numbered, Fresh, Served
<1>5. Totals(j)'
  BY DEF Totals, Channel, Fresh
<1>6. Honest(mem[j], j)' /\ Honest(disk[j], j)'
  BY DEF Honest, Footer, Channel, Totals, DiskFollows, Served, Fresh
<1>. QED BY <1>1, <1>2, <1>3, <1>4, <1>5, <1>6

LEMMA EndOfStreamKeeps ==
  ASSUME Types, NEW j \in Jobs, JobInv(j), EndOfStream(j)
  PROVE  JobInv(j)'
<1>. USE DEF JobInv, Types, EndOfStream, registryVars, Terminal, Live, Record,
             Executing, Unstarted, Draining
<1>1. Fresh(j)' /\ Footer(j)'
  BY DEF Fresh, Footer, Served, Channel
<1>2. Served(j)'
  BY DEF Served, Fresh
<1>3. DiskFollows(j)' /\ NeverStarted(j)'
  BY DEF DiskFollows, NeverStarted, Unexecuted, Fresh, Served, Channel
<1>4. Channel(j)'
  BY DEF Channel, Numbered, Fresh, Served
<1>5. Totals(j)'
  BY DEF Totals, Channel, Fresh
<1>6. Honest(mem[j], j)' /\ Honest(disk[j], j)'
  BY DEF Honest, Footer, Channel, Totals, DiskFollows, Served, Fresh
<1>. QED BY <1>1, <1>2, <1>3, <1>4, <1>5, <1>6

LEMMA SendEventKeeps ==
  ASSUME Types, NEW j \in Jobs, JobInv(j), SendEvent(j)
  PROVE  JobInv(j)'
<1>. DEFINE e == [counts |-> task[j] # "line", n |-> sent[j] + 1]
<1>0. /\ task[j] \in Sending /\ task'[j] \in {"planning", "streaming", "closing"}
      /\ task'[j] = "closing" => task[j] = "totals"
      /\ sent'[j] = sent[j] + 1 /\ chan'[j] = Append(chan[j], e)
      /\ UNCHANGED <<mem, disk, phase, toRecover, outcome, stmt, drain, taken, file, foreign>>
  BY DEF SendEvent, Send, Sending, Types, registryVars
<1>7. /\ chan[j] \in Seq(Event) /\ e \in Event /\ sent[j] \in Nat
      /\ Len(chan'[j]) = Len(chan[j]) + 1 /\ Len(chan[j]) \in Nat /\ chan'[j] # <<>>
      /\ chan'[j][Len(chan'[j])] = e
      /\ \A i \in 1..Len(chan[j]) : chan'[j][i] = chan[j][i]
  <2>1. chan[j] \in Seq(Event) /\ e \in Event /\ sent[j] \in Nat
    BY DEF Types, Event
  <2>. HIDE DEF e
  <2>2. Len(Append(chan[j], e)) = Len(chan[j]) + 1 /\ Len(chan[j]) \in Nat
    BY <2>1
  <2>3. Append(chan[j], e)[Len(chan[j]) + 1] = e
    BY <2>1
  <2>4. \A i \in 1..Len(chan[j]) : Append(chan[j], e)[i] = chan[j][i]
    BY <2>1
  <2>5. Append(chan[j], e) # <<>>
    BY ONLY <2>2
  <2>. QED BY <1>0, <2>1, <2>2, <2>3, <2>4, <2>5
<1>8. e.n = sent[j] + 1 /\ (task[j] = "totals" => e.counts)
  OBVIOUS
<1>. HIDE DEF e
<1>. USE <1>0 DEF JobInv, Terminal, Live, Executing, Sending, Unstarted, Draining
<1>1. Fresh(j)' /\ Footer(j)'
  BY DEF Fresh, Footer, Served, Channel
<1>2. Served(j)'
  BY DEF Served, Fresh
<1>3. DiskFollows(j)' /\ NeverStarted(j)'
  BY DEF DiskFollows, NeverStarted, Unexecuted, Fresh, Served, Channel
<1>4. Channel(j)'
  <2>1. ASSUME NEW last \in Nat, Numbered(j, last)
        PROVE  /\ sent'[j] = last + Len(chan'[j])
               /\ \A i \in 1..Len(chan'[j]) : chan'[j][i].n = last + i
    BY <1>7, <1>8, <2>1 DEF Numbered
  <2>2. mem[j].progress \in Nat /\ mem[j].progress + 1 \in Nat
    BY DEF Types, Record
  <2>3. CASE drain[j] = "receiving"
    BY <2>1, <2>2, <2>3 DEF Channel, Numbered
  <2>4. CASE drain[j] = "mirroring"
    BY <2>1, <2>2, <2>4 DEF Channel, Numbered
  <2>. QED BY <2>3, <2>4 DEF Channel
<1>5. Totals(j)'
  BY <1>7, <1>8 DEF Totals
<1>6. Honest(mem[j], j)' /\ Honest(disk[j], j)'
  BY DEF Honest, Footer, Channel, Totals, DiskFollows, Served, Fresh
<1>. QED BY <1>1, <1>2, <1>3, <1>4, <1>5, <1>6

LEMMA CloseSinkKeeps ==
  ASSUME Types, NEW j \in Jobs, JobInv(j), CloseSink(j)
  PROVE  JobInv(j)'
<1>. USE DEF JobInv, Types, CloseSink, registryVars, Terminal, Live, Record,
             Executing, Unstarted, Draining
<1>1. Fresh(j)' /\ Footer(j)'
  BY DEF Fresh, Footer, Served, Channel
<1>2. Served(j)'
  BY DEF Served, Fresh
<1>3. DiskFollows(j)' /\ NeverStarted(j)'
  BY DEF DiskFollows, NeverStarted, Unexecuted, Fresh, Served, Channel
<1>4. Channel(j)'
  BY DEF Channel, Numbered, Fresh, Served
<1>5. Totals(j)'
  BY DEF Totals, Channel, Numbered, Fresh
<1>6. Honest(mem[j], j)' /\ Honest(disk[j], j)'
  BY DEF Honest, Footer, Channel, Totals, DiskFollows, Served, Fresh
<1>. QED BY <1>1, <1>2, <1>3, <1>4, <1>5, <1>6

LEMMA ExecuteFailsKeeps ==
  ASSUME Types, NEW j \in Jobs, JobInv(j), ExecuteFails(j)
  PROVE  JobInv(j)'
<1>. USE DEF JobInv, Types, ExecuteFails, registryVars, Terminal, Live, Record,
             Executing, Unstarted, Draining
<1>1. Fresh(j)' /\ Footer(j)'
  BY DEF Fresh, Footer, Served, Channel
<1>2. Served(j)'
  BY DEF Served, Fresh
<1>3. DiskFollows(j)' /\ NeverStarted(j)'
  BY DEF DiskFollows, NeverStarted, Unexecuted, Fresh, Served, Channel
<1>4. Channel(j)'
  BY DEF Channel, Numbered, Fresh, Served
<1>5. Totals(j)'
  BY DEF Totals, Channel, Numbered, Fresh
<1>6. Honest(mem[j], j)' /\ Honest(disk[j], j)'
  BY DEF Honest, Footer, Channel, Totals, DiskFollows, Served, Fresh
<1>. QED BY <1>1, <1>2, <1>3, <1>4, <1>5, <1>6

LEMMA JoinDrainKeeps ==
  ASSUME Types, NEW j \in Jobs, JobInv(j), JoinDrain(j)
  PROVE  JobInv(j)'
<1>. USE DEF JobInv, Types, JoinDrain, registryVars, Terminal, Live, Record,
             Executing, Unstarted, Draining
<1>1. Fresh(j)' /\ Footer(j)'
  BY DEF Fresh, Footer, Served, Channel
<1>2. Served(j)'
  BY DEF Served, Fresh
<1>3. DiskFollows(j)' /\ NeverStarted(j)'
  BY DEF DiskFollows, NeverStarted, Unexecuted, Fresh, Served, Channel
<1>4. Channel(j)'
  BY DEF Channel, Numbered, Fresh, Served
<1>5. Totals(j)'
  BY DEF Totals, Channel, Numbered, Fresh
<1>6. Honest(mem[j], j)' /\ Honest(disk[j], j)'
  BY DEF Honest, Footer, Channel, Totals, DiskFollows, Served, Fresh
<1>. QED BY <1>1, <1>2, <1>3, <1>4, <1>5, <1>6

LEMMA AbortLandsKeeps ==
  ASSUME Types, NEW j \in Jobs, JobInv(j), AbortLands(j)
  PROVE  JobInv(j)'
<1>. USE DEF JobInv, Types, AbortLands, EndTask, registryVars, Awaiting, Terminal, Live, Record,
             Executing, Unstarted, Draining
<1>1. Fresh(j)' /\ Footer(j)'
  BY DEF Fresh, Footer, Served, Channel
<1>2. Served(j)'
  BY DEF Served, Fresh
<1>3. DiskFollows(j)' /\ NeverStarted(j)'
  BY DEF DiskFollows, NeverStarted, Unexecuted, Fresh, Served, Channel
<1>4. Channel(j)'
  BY DEF Channel, Numbered, Fresh, Served
<1>5. Totals(j)'
  BY DEF Totals, Channel, Numbered, Fresh
<1>6. Honest(mem[j], j)' /\ Honest(disk[j], j)'
  BY DEF Honest, Footer, Channel, Totals, DiskFollows, Served, Fresh
<1>. QED BY <1>1, <1>2, <1>3, <1>4, <1>5, <1>6

LEMMA DrainEndKeeps ==
  ASSUME Types, NEW j \in Jobs, JobInv(j), DrainEnd(j)
  PROVE  JobInv(j)'
<1>. USE DEF JobInv, Types, DrainEnd, registryVars, Terminal, Live, Record,
             Executing, Unstarted, Draining
<1>1. Fresh(j)' /\ Footer(j)'
  BY DEF Fresh, Footer, Served, Channel
<1>2. Served(j)'
  BY DEF Served, Fresh
<1>3. DiskFollows(j)' /\ NeverStarted(j)'
  BY DEF DiskFollows, NeverStarted, Unexecuted, Fresh, Served, Channel
<1>4. Channel(j)'
  BY DEF Channel, Numbered, Fresh, Served
<1>5. Totals(j)'
  BY DEF Totals, Channel, Numbered, Fresh
<1>6. Honest(mem[j], j)' /\ Honest(disk[j], j)'
  BY DEF Honest, Footer, Channel, Totals, DiskFollows, Served, Fresh
<1>. QED BY <1>1, <1>2, <1>3, <1>4, <1>5, <1>6

LEMMA OtherServerReadsKeeps ==
  ASSUME Types, NEW j \in Jobs, JobInv(j), OtherServerReads(j)
  PROVE  JobInv(j)'
<1>. USE DEF JobInv, Types, OtherServerReads, registryVars, taskVars, Terminal, Live, Record,
             Executing, Unstarted, Draining
<1>1. Fresh(j)' /\ Footer(j)'
  BY DEF Fresh, Footer, Served, Channel
<1>2. Served(j)'
  BY DEF Served, Fresh
<1>3. DiskFollows(j)' /\ NeverStarted(j)'
  BY DEF DiskFollows, NeverStarted, Unexecuted, Fresh, Served, Channel
<1>4. Channel(j)'
  BY DEF Channel, Numbered, Fresh, Served
<1>5. Totals(j)'
  BY DEF Totals, Channel, Fresh
<1>6. Honest(mem[j], j)' /\ Honest(disk[j], j)'
  BY DEF Honest, Footer, Channel, Totals, DiskFollows, Served, Fresh
<1>. QED BY <1>1, <1>2, <1>3, <1>4, <1>5, <1>6

LEMMA OtherServerRewritesKeeps ==
  ASSUME Types, NEW j \in Jobs, JobInv(j), OtherServerRewrites(j)
  PROVE  JobInv(j)'
<1>. USE DEF JobInv, Types, OtherServerRewrites, NoRecord, Interrupted, taskVars, Terminal, Live, Record,
             Executing, Unstarted, Draining
<1>1. Fresh(j)' /\ Footer(j)'
  BY DEF Fresh, Footer, Served, Channel
<1>2. Served(j)'
  BY DEF Served, Fresh
<1>3. DiskFollows(j)' /\ NeverStarted(j)'
  BY DEF DiskFollows, NeverStarted, Unexecuted, Fresh, Served, Channel
<1>4. Channel(j)'
  BY DEF Channel, Numbered, Fresh, Served
<1>5. Totals(j)'
  BY DEF Totals, Channel, Fresh
<1>6. Honest(mem[j], j)' /\ Honest(disk[j], j)'
  BY DEF Honest, Footer, Channel, Totals, DiskFollows, Served, Fresh
<1>. QED BY <1>1, <1>2, <1>3, <1>4, <1>5, <1>6

-----------------------------------------------------------------------------
(***************************************************************************)
(* The inductive invariant and what follows from it.                       *)
(***************************************************************************)
JobStep(j) ==
  Request(j) \/ Acquire(j) \/ Run(j) \/ Execute(j) \/ AbortLands(j) \/ Drain(j)
  \/ RecoverJob(j) \/ OtherServer(j)

LEMMA JobStepKeeps ==
  ASSUME Types, NEW j \in Jobs, JobInv(j), JobStep(j)
  PROVE  JobInv(j)'
  BY CreateKeeps, SpawnAttachedKeeps, CancelMarkKeeps, CancelAbortKeeps, AcquireKeeps,
     StartRefusedKeeps, StartKeeps, PlanLineKeeps, OpenSinkKeeps, TickKeeps,
     EndOfStreamKeeps, SendEventKeeps, CloseSinkKeeps, ExecuteFailsKeeps, JoinDrainKeeps,
     FinishKeeps, AbortLandsKeeps, DrainReceiveKeeps, DrainMirrorKeeps, DrainEndKeeps,
     RecoverJobKeeps, OtherServerReadsKeeps, OtherServerRewritesKeeps
  DEF JobStep, Request, Run, Execute, Drain, OtherServer

(* A step of j leaves the parts of any other job alone.                    *)
LEMMA JobStepFrame ==
  ASSUME Types, NEW j \in Jobs, JobStep(j), NEW i \in Jobs \ {j}
  PROVE  /\ UNCHANGED Parts(i) /\ UNCHANGED phase
         /\ i \in toRecover' <=> i \in toRecover
<1>. USE DEF Types, Parts, registryVars, taskVars
<1>1. CASE Request(j)
  BY <1>1, UpdateEffect DEF Request, Create, SpawnAttached, CancelMark, CancelAbort, Show
<1>2. CASE Acquire(j) \/ AbortLands(j)
  BY <1>2 DEF Acquire, AbortLands, EndTask
<1>3. CASE Run(j)
  BY <1>3, UpdateEffect DEF Run, StartRefused, Start, JoinDrain, Finish, EndTask
<1>4. CASE Execute(j)
  BY <1>4
  DEF Execute, PlanLine, OpenSink, Tick, EndOfStream, SendEvent, CloseSink, ExecuteFails, Send
<1>5. CASE Drain(j)
  BY <1>5, UpdateEffect DEF Drain, DrainReceive, DrainMirror, DrainEnd
<1>6. CASE RecoverJob(j)
  BY <1>6, UpdateEffect DEF RecoverJob, Show
<1>7. CASE OtherServer(j)
  BY <1>7 DEF OtherServer, OtherServerReads, OtherServerRewrites
<1>. QED BY <1>1, <1>2, <1>3, <1>4, <1>5, <1>6, <1>7 DEF JobStep

LEMMA JobInvStep ==
  ASSUME Types, \A j \in Jobs : JobInv(j), [Next]_vars
  PROVE  \A j \in Jobs : JobInv(j)'
<1>. SUFFICES ASSUME NEW i \in Jobs PROVE JobInv(i)'
  OBVIOUS
<1>1. CASE UNCHANGED vars
  BY <1>1, Frame DEF vars, registryVars, taskVars, Parts
<1>2. CASE Crash
  BY <1>2, CrashKeeps
<1>3. CASE Boot
  <2>. USE <1>3 DEF Boot, taskVars, JobInv
  <2>1. Fresh(i)' /\ DiskFollows(i)' /\ NeverStarted(i)' /\ Footer(i)'
    BY DEF Fresh, DiskFollows, NeverStarted, Unexecuted, Footer
  <2>2. Served(i)'
    BY DEF Served
  <2>3. Channel(i)' /\ Totals(i)' /\ Honest(mem[i], i)' /\ Honest(disk[i], i)'
    BY DEF Channel, Numbered, Totals, Honest
  <2>. QED BY <2>1, <2>2, <2>3
<1>4. CASE Serve
  <2>. USE <1>4 DEF Serve, taskVars, JobInv
  <2>1. Fresh(i)' /\ DiskFollows(i)' /\ NeverStarted(i)' /\ Footer(i)'
    BY DEF Fresh, DiskFollows, NeverStarted, Unexecuted, Footer
  <2>2. Served(i)'
    BY DEF Served
  <2>3. Channel(i)' /\ Totals(i)' /\ Honest(mem[i], i)' /\ Honest(disk[i], i)'
    BY DEF Channel, Numbered, Totals, Honest
  <2>. QED BY <2>1, <2>2, <2>3
<1>5. ASSUME NEW j \in Jobs, JobStep(j) PROVE JobInv(i)'
  <2>1. CASE i = j
    BY <1>5, <2>1, JobStepKeeps
  <2>2. CASE i # j
    BY <1>5, <2>2, JobStepFrame, Frame
  <2>. QED BY <2>1, <2>2
<1>. QED BY <1>1, <1>2, <1>3, <1>4, <1>5 DEF Next, Server, JobStep

THEOREM Inductive == Spec => []IInv
<1>1. Init => IInv
  BY TypesInit, PermitsInit, JobInvInit DEF IInv
<1>2. IInv /\ [Next]_vars => IInv'
  BY TypesStep, PermitsStep, JobInvStep DEF IInv
<1>. QED BY <1>1, <1>2, PTL DEF Spec

(* Every variable keeps its type; in particular the semaphore never holds  *)
(* more permits than --max-concurrent-jobs.                                *)
THEOREM TypeCorrect == Spec => []TypeOK
<1>1. IInv => TypeOK
  <2>. SUFFICES ASSUME IInv PROVE TypeOK
    OBVIOUS
  <2>1. permits \in 0..MaxConcurrent
    BY HoldersFinite, ConstantsAssumption DEF IInv, Types, PermitsConserved, Holders
  <2>. QED BY <2>1 DEF TypeOK, IInv, Types
<1>. QED BY <1>1, Inductive, PTL

(* No permit is leaked or released twice, whichever way tasks end.         *)
THEOREM PermitsNeverLeak == Spec => []PermitsConserved
<1>1. IInv => PermitsConserved
  BY DEF IInv
<1>. QED BY <1>1, Inductive, PTL

(* A job cancelled before it started never executes.                       *)
THEOREM QueuedCancelSafe == Spec => []QueuedCancelNeverWorks
<1>1. IInv => QueuedCancelNeverWorks
  BY DEF IInv, JobInv, NeverStarted, Unexecuted, QueuedCancelNeverWorks, Unstarted, Executing
<1>. QED BY <1>1, Inductive, PTL

(* job_result only ever opens a complete Parquet file.                     *)
THEOREM ResultsReadable == Spec => []ResultReadable
<1>1. IInv => ResultReadable
  <2>. SUFFICES ASSUME IInv, NEW j \in Jobs
                PROVE  /\ JobResult(j) = "open the file" => file[j] = "closed"
                       /\ mem[j].status = "succeeded" =>
                            JobResult(j) \in {"open the file", "produces no rows"}
    BY DEF ResultReadable
  <2>1. Honest(mem[j], j) /\ mem[j].result \in BOOLEAN /\ mem[j].tag \in BOOLEAN
    BY DEF IInv, JobInv, Types, Record
  <2>. QED BY <2>1 DEF Honest, JobResult, Live
<1>. QED BY <1>1, Inductive, PTL

LEMMA TerminalKept ==
  ASSUME IInv, [Next]_vars, NEW i \in Jobs, mem[i].status \in Terminal, phase' # "down"
  PROVE  mem'[i].status = mem[i].status
<1>. USE DEF Terminal
<1>0. Types /\ JobInv(i)
  BY DEF IInv
<1>1. CASE UNCHANGED vars
  BY <1>1 DEF vars, registryVars
<1>2. CASE Server
  BY <1>2 DEF Server, Crash, Boot, Serve
<1>3. ASSUME NEW j \in Jobs, JobStep(j) PROVE mem'[i].status = mem[i].status
  <2>1. CASE i # j
    BY <1>0, <1>3, <2>1, JobStepFrame DEF Parts
  <2>2. CASE i = j
    <3>. USE <1>0, <2>2
    <3>1. CASE Request(j)
      BY <3>1 DEF Request, Create, SpawnAttached, CancelMark, CancelAbort, JobInv, Served, Live
    <3>2. CASE Acquire(j) \/ AbortLands(j) \/ Execute(j) \/ OtherServer(j)
      BY <3>2 DEF Acquire, AbortLands, Execute, OtherServer, OtherServerReads,
         OtherServerRewrites, registryVars, PlanLine, OpenSink, Tick, EndOfStream,
         SendEvent, CloseSink, ExecuteFails
    <3>3. CASE StartRefused(j) \/ Start(j) \/ JoinDrain(j)
      BY <3>3 DEF StartRefused, Start, JoinDrain, registryVars
    <3>4. CASE Finish(j)
      BY <3>4, UpdateEffect DEF Finish, Finished
    <3>5. CASE DrainMirror(j)
      <4>. DEFINE r == [mem[j] EXCEPT !.progress = taken[j].n,
                          !.funnel = IF taken[j].counts THEN taken[j].n ELSE @]
      <4>1. Update(j, r)
        BY <3>5 DEF DrainMirror
      <4>2. mem'[j] = r
        BY <4>1, UpdateEffect
      <4>. QED BY <4>2 DEF Types, Record
    <3>6. CASE DrainReceive(j) \/ DrainEnd(j)
      BY <3>6 DEF DrainReceive, DrainEnd, registryVars
    <3>7. CASE RecoverJob(j)
      BY <3>7 DEF RecoverJob, JobInv, Served
    <3>. QED BY <1>3, <3>1, <3>2, <3>3, <3>4, <3>5, <3>6, <3>7 DEF JobStep, Run, Drain
  <2>. QED BY <2>1, <2>2
<1>. QED BY <1>1, <1>2, <1>3 DEF Next, JobStep

(* No step of a living server changes a terminal status: an acknowledged   *)
(* cancel is final, and so is a result.                                    *)
THEOREM TerminalIsFinal == Spec => TerminalStable
<1>1. IInv /\ [Next]_vars
        => [\A j \in Jobs : mem[j].status \in Terminal /\ phase' # "down"
                             => mem'[j].status = mem[j].status]_vars
  BY TerminalKept
<1>. QED BY <1>1, Inductive, PTL DEF Spec, TerminalStable

(* A job that succeeded shows its last event and its final totals.         *)
THEOREM TotalsShown == Spec => []FinalTotalsShown
<1>1. IInv => FinalTotalsShown
  BY DEF IInv, JobInv, Honest, FinalTotalsShown
<1>. QED BY <1>1, Inductive, PTL
-----------------------------------------------------------------------------
(***************************************************************************)
(* Restarts.  With writes of job.json that succeed and a directory of its  *)
(* own, what a server shows of a job is what the directory says, so the    *)
(* next server finds it there.                                             *)
(***************************************************************************)
Private == MaxWriteFailures = 0 /\ ~SharedDir

Kept(j) ==
  /\ mem[j].status # "absent" => mem[j] = disk[j]
  /\ disk[j].status \in Terminal => settled[j] = disk[j].status
  /\ settled[j] # "absent" => settled[j] = disk[j].status
  /\ disk[j].status = "interrupted" => j \in lost
  /\ phase # "serving" /\ disk[j].status \in Live => j \in lost
  /\ mem[j].status = "queued" => task[j] \in Unstarted \union {"ended"}
  /\ mem[j].status = "running" => task[j] \notin Unstarted
  /\ phase # "serving" /\ mem[j].status # "absent" => mem[j].status \in Terminal

RestartInv == failures = 0 /\ \A j \in Jobs : Kept(j)

(* A step that moves the task of j, not what is recorded about it.         *)
Calm(j) ==
  /\ UNCHANGED <<mem, disk, settled, phase, lost, failures>>
  /\ task' \in [Jobs -> TaskState]
  /\ \A i \in Jobs \ {j} : task'[i] = task[i]
  /\ task'[j] \in Unstarted => task[j] \in Unstarted
  /\ task[j] \in Unstarted \union {"ended"} => task'[j] \in Unstarted \union {"ended"}
  /\ task'[j] \in Executing => task[j] \in Executing

LEMMA PersistAlways ==
  ASSUME Private, Types, failures = 0, NEW j \in Jobs, NEW r \in Record, Update(j, r)
  PROVE  /\ mem' = [mem EXCEPT ![j] = r]
         /\ disk' = [disk EXCEPT ![j] = r]
         /\ failures' = 0
         /\ settled' = IF r.status \in Terminal /\ settled[j] = "absent"
                       THEN [settled EXCEPT ![j] = r.status] ELSE settled
  BY DEF Private, Update, Show, Persist

(* The steps that record nothing.                                          *)
Quiet(j) ==
  \/ SpawnAttached(j) \/ CancelAbort(j) \/ Acquire(j) \/ StartRefused(j) \/ JoinDrain(j)
  \/ Execute(j) \/ AbortLands(j) \/ DrainReceive(j) \/ DrainEnd(j)

LEMMA QuietIsCalm ==
  ASSUME Types, NEW j \in Jobs, Quiet(j)
  PROVE  Calm(j)
<1>. USE DEF Types, TaskState, Alive, Holding, Executing, Unstarted, Awaiting, registryVars,
             taskVars, Calm
<1>1. CASE \/ SpawnAttached(j) \/ CancelAbort(j) \/ Acquire(j) \/ JoinDrain(j)
           \/ DrainReceive(j) \/ DrainEnd(j)
  BY <1>1 DEF SpawnAttached, CancelAbort, Acquire, JoinDrain, DrainReceive, DrainEnd
<1>2. CASE StartRefused(j) \/ AbortLands(j)
  BY <1>2 DEF StartRefused, AbortLands, EndTask
<1>3. CASE OpenSink(j) \/ EndOfStream(j)
  BY <1>3 DEF OpenSink, EndOfStream
<1>6. CASE PlanLine(j) \/ Tick(j)
  BY <1>6 DEF PlanLine, Tick
<1>5. CASE SendEvent(j)
  <2>. DEFINE s == task'[j]
  <2>1. task' = [task EXCEPT ![j] = s] /\ s \in {"planning", "streaming", "closing"}
    BY <1>5 DEF SendEvent, Sending
  <2>2. UNCHANGED <<mem, disk, settled, phase, lost, failures>> /\ task[j] \in Executing
    BY <1>5 DEF SendEvent, Sending
  <2>. HIDE DEF s
  <2>. QED BY <2>1, <2>2
<1>4. CASE CloseSink(j) \/ ExecuteFails(j)
  BY <1>4 DEF CloseSink, ExecuteFails
<1>. QED BY <1>1, <1>2, <1>3, <1>4, <1>5, <1>6 DEF Quiet, Execute

LEMMA CalmKeeps ==
  ASSUME Types, NEW j \in Jobs, Calm(j), NEW i \in Jobs, Kept(i)
  PROVE  Kept(i)'
<1>1. /\ task'[i] \in Unstarted => task[i] \in Unstarted
      /\ task[i] \in Unstarted \union {"ended"} => task'[i] \in Unstarted \union {"ended"}
  BY DEF Calm
<1>. QED BY <1>1 DEF Calm, Kept

(* The steps that record something: r becomes the record of j, and the     *)
(* task of j moves to s.                                                   *)
Records(j, r, s) ==
  /\ r \in Record
  /\ mem' = [mem EXCEPT ![j] = r]
  /\ disk' = [disk EXCEPT ![j] = r]
  /\ settled' = IF r.status \in Terminal /\ settled[j] = "absent"
                THEN [settled EXCEPT ![j] = r.status] ELSE settled
  /\ task' = [task EXCEPT ![j] = s]
  /\ UNCHANGED <<phase, lost, failures>>

LEMMA CreateRecords ==
  ASSUME RestartInv, Types, NEW j \in Jobs, Create(j)
  PROVE  /\ Records(j, NewRecord, "submitted")
         /\ task[j] = "none" /\ phase = "serving"
<1>1. NewRecord \in Record
  BY DEF NewRecord, NoRecord, Record, Live
<1>. QED BY <1>1 DEF Create, Show, Records

LEMMA CancelMarkRecords ==
  ASSUME Private, RestartInv, Types, NEW j \in Jobs, CancelMark(j)
  PROVE  \E r \in Record : /\ Records(j, r, task[j])
                           /\ r.status = "cancelled" /\ mem[j].status \in Live
                           /\ phase = "serving"
<1>. DEFINE r == [mem[j] EXCEPT !.status = "cancelled", !.result = FALSE]
<1>0. mem[j] \in Record
  BY DEF Types
<1>1. r \in Record
  BY <1>0 DEF Record, Terminal
<1>2. r.status = "cancelled"
  BY DEF Types, Record
<1>3. Update(j, r)
  BY DEF CancelMark
<1>4. mem[j].status \in Live /\ UNCHANGED <<phase, lost, taskVars>> /\ phase = "serving"
  BY DEF CancelMark
<1>5. task' = [task EXCEPT ![j] = task[j]]
  BY <1>4 DEF taskVars, Types
<1>. HIDE DEF r
<1>6. Records(j, r, task[j])
  BY <1>1, <1>3, <1>4, <1>5, PersistAlways DEF Records, RestartInv
<1>. QED BY <1>1, <1>2, <1>4, <1>6

LEMMA StartRecords ==
  ASSUME Private, RestartInv, Types, NEW j \in Jobs, Start(j)
  PROVE  \E r \in Record : /\ Records(j, r, "planning")
                           /\ r.status = "running" /\ mem[j].status \notin Terminal
                           /\ task[j] = "starting"
<1>. DEFINE r == [mem[j] EXCEPT !.status = "running", !.started = TRUE]
<1>0. mem[j] \in Record
  BY DEF Types
<1>1. r \in Record
  BY <1>0 DEF Record, Live
<1>2. r.status = "running"
  BY DEF Types, Record
<1>3. /\ Update(j, r)
      /\ mem[j].status \notin Terminal /\ UNCHANGED <<phase, lost>>
      /\ task' = [task EXCEPT ![j] = "planning"] /\ task[j] = "starting"
  BY DEF Start
<1>. HIDE DEF r
<1>4. Records(j, r, "planning")
  BY <1>1, <1>3, PersistAlways DEF Records, RestartInv
<1>. QED BY <1>1, <1>2, <1>3, <1>4

LEMMA FinishRecords ==
  ASSUME Private, RestartInv, Types, NEW j \in Jobs, Finish(j)
  PROVE  \E r \in Record : /\ Records(j, r, "ended")
                           /\ \/ r = mem[j] /\ mem[j].status \in Terminal
                              \/ /\ r.status \in {"succeeded", "failed"}
                                 /\ mem[j].status \notin Terminal
                           /\ task[j] = "finishing"
<1>0. mem[j] \in Record
  BY DEF Types
<1>1. Finished(j) \in Record
  BY <1>0 DEF Finished, Record, Terminal
<1>2. \/ Finished(j) = mem[j] /\ mem[j].status \in Terminal
      \/ Finished(j).status \in {"succeeded", "failed"} /\ mem[j].status \notin Terminal
  BY DEF Types, Record, Finished
<1>3. /\ Update(j, Finished(j)) /\ UNCHANGED <<phase, lost>>
      /\ task' = [task EXCEPT ![j] = "ended"] /\ task[j] = "finishing"
  BY DEF Finish, EndTask
<1>4. Records(j, Finished(j), "ended")
  BY <1>1, <1>3, PersistAlways DEF Records, RestartInv
<1>. QED BY <1>1, <1>2, <1>3, <1>4

LEMMA DrainMirrorRecords ==
  ASSUME Private, RestartInv, Types, NEW j \in Jobs, DrainMirror(j)
  PROVE  \E r \in Record : Records(j, r, task[j]) /\ r.status = mem[j].status
                           /\ drain[j] = "mirroring"
<1>. DEFINE e == taken[j]
            r == [mem[j] EXCEPT !.progress = e.n, !.funnel = IF e.counts THEN e.n ELSE @]
<1>2. r \in Record /\ r.status = mem[j].status
  <2>. DEFINE f == IF e.counts THEN e.n ELSE mem[j].funnel
  <2>1. mem[j] \in Record
    BY DEF Types
  <2>2. e.n \in Nat /\ f \in Nat
    BY <2>1 DEF Types, Event, NoEvent, Record
  <2>3. r = [mem[j] EXCEPT !.progress = e.n, !.funnel = f]
    BY <2>1 DEF Record
  <2>. HIDE DEF e, f
  <2>4. r \in Record
    BY <2>1, <2>2, <2>3 DEF Record
  <2>. QED BY <2>1, <2>3, <2>4 DEF Record
<1>3. Update(j, r) /\ UNCHANGED <<phase, lost, task>> /\ drain[j] = "mirroring"
  BY DEF DrainMirror
<1>4. task' = [task EXCEPT ![j] = task[j]]
  BY <1>3 DEF Types
<1>. HIDE DEF r
<1>5. Records(j, r, task[j])
  BY <1>2, <1>3, <1>4, PersistAlways DEF Records, RestartInv
<1>. QED BY <1>2, <1>3, <1>5

LEMMA RecoverJobRecords ==
  ASSUME Private, RestartInv, Types, NEW j \in Jobs, JobInv(j), RecoverJob(j)
  PROVE  \E r \in Record :
            /\ Records(j, r, task[j])
            /\ \/ r = disk[j] /\ disk[j].status \in Terminal
               \/ r.status = "interrupted" /\ disk[j].status \in Live
            /\ phase = "recovering"
<1>1. /\ phase = "recovering" /\ UNCHANGED <<phase, lost, taskVars>>
      /\ task' = [task EXCEPT ![j] = task[j]]
  BY DEF RecoverJob, taskVars, Types
<1>2. CASE disk[j].status \in Terminal
  <2>1. Records(j, disk[j], task[j])
    BY <1>1, <1>2 DEF RecoverJob, Show, Records, Types
  <2>. QED BY <1>1, <1>2, <2>1 DEF Types
<1>3. CASE disk[j].status \notin Terminal
  <2>1. disk[j].status \in Live
    BY <1>3 DEF RecoverJob, JobInv, Served, Types, Record
  <2>2. Interrupted(disk[j]) \in Record /\ Interrupted(disk[j]).status = "interrupted"
    <3>1. disk[j] \in Record
      BY DEF Types
    <3>. QED BY <3>1 DEF Interrupted, Record, Terminal
  <2>3. Update(j, Interrupted(disk[j]))
    BY <1>3 DEF RecoverJob
  <2>4. Records(j, Interrupted(disk[j]), task[j])
    BY <1>1, <2>2, <2>3, PersistAlways DEF Records, RestartInv
  <2>. QED BY <1>1, <2>1, <2>2, <2>4
<1>. QED BY <1>2, <1>3

(* A record is kept when it does not leave a terminal status, and when the *)
(* statuses of a living server's record fit the task.                      *)
LEMMA RecordsKeep ==
  ASSUME Types, NEW j \in Jobs, Kept(j), NEW r, NEW s, Records(j, r, s),
         disk[j].status \in Terminal => r.status = disk[j].status,
         r.status = "interrupted" => j \in lost,
         phase # "serving" => r.status \in Terminal,
         r.status = "queued" => s \in Unstarted \union {"ended"},
         r.status = "running" => s \notin Unstarted,
         r.status # "absent"
  PROVE  Kept(j)'
<1>1. /\ mem'[j] = r /\ disk'[j] = r /\ task'[j] = s
      /\ phase' = phase /\ lost' = lost
  BY DEF Records, Types
<1>2. /\ settled[j] \in {"absent"} \union Terminal
      /\ settled'[j] = IF r.status \in Terminal /\ settled[j] = "absent"
                       THEN r.status ELSE settled[j]
  BY DEF Records, Types
<1>3. "absent" \notin Terminal /\ r.status \in {"absent"} \union Live \union Terminal
  BY DEF Terminal, Records, Record
<1>4. /\ r.status \in Terminal => settled'[j] = r.status
      /\ settled'[j] # "absent" => settled'[j] = r.status
  BY <1>2, <1>3 DEF Kept
<1>. QED BY <1>1, <1>3, <1>4 DEF Kept, Terminal, Live

LEMMA RecordsSpare ==
  ASSUME Types, NEW j \in Jobs, NEW r, NEW s, Records(j, r, s),
         NEW i \in Jobs \ {j}, Kept(i)
  PROVE  Kept(i)'
<1>1. /\ mem'[i] = mem[i] /\ disk'[i] = disk[i] /\ task'[i] = task[i]
      /\ settled'[i] = settled[i] /\ phase' = phase /\ lost' = lost
  BY DEF Records, Types
<1>. QED BY <1>1 DEF Kept

LEMMA CrashKept ==
  ASSUME Types, NEW j \in Jobs, JobInv(j), Kept(j), Crash
  PROVE  Kept(j)'
<1>1. /\ mem'[j].status = "absent" /\ disk'[j] = disk[j] /\ settled'[j] = settled[j]
      /\ lost \subseteq lost'
      /\ mem[j].status \in Live => j \in lost'
  BY DEF Crash, NoRecord
<1>2. disk[j].status \in Live => j \in lost'
  <2>1. CASE mem[j].status # "absent"
    BY <1>1, <2>1 DEF Kept
  <2>2. CASE mem[j].status = "absent" /\ phase # "serving"
    BY <1>1, <2>2 DEF Kept
  <2>3. CASE mem[j].status = "absent" /\ phase = "serving"
    BY <2>3 DEF JobInv, Served, Live
  <2>. QED BY <2>1, <2>2, <2>3
<1>. QED BY <1>1, <1>2 DEF Kept, Terminal, Live

LEMMA RestartStep ==
  ASSUME Private, IInv, RestartInv, [Next]_vars
  PROVE  RestartInv'
<1>. Types /\ (\A i \in Jobs : JobInv(i) /\ Kept(i)) /\ failures = 0
  BY DEF IInv, RestartInv
<1>1. CASE UNCHANGED vars
  BY <1>1 DEF vars, registryVars, taskVars, RestartInv, Kept
<1>2. CASE Crash
  <2>1. failures' = failures
    BY <1>2 DEF Crash
  <2>. QED BY <1>2, <2>1, CrashKept DEF RestartInv
<1>3. CASE Boot
  BY <1>3 DEF Boot, taskVars, RestartInv, Kept
<1>4. CASE Serve
  BY <1>4 DEF Serve, taskVars, RestartInv, Kept
<1>5. ASSUME NEW j \in Jobs, Quiet(j) PROVE RestartInv'
  <2>1. Calm(j)
    BY <1>5, QuietIsCalm
  <2>2. \A i \in Jobs : Kept(i)'
    BY <2>1, CalmKeeps
  <2>. QED BY <2>1, <2>2 DEF Calm, RestartInv
<1>6. ASSUME NEW j \in Jobs, NEW r, NEW s, Records(j, r, s), Kept(j)' PROVE RestartInv'
  <2>1. \A i \in Jobs \ {j} : Kept(i)'
    BY <1>6, RecordsSpare
  <2>. QED BY <1>6, <2>1 DEF Records, RestartInv
<1>7. ASSUME NEW j \in Jobs, Create(j) PROVE RestartInv'
  <2>1. /\ Records(j, NewRecord, "submitted") /\ task[j] = "none" /\ phase = "serving"
        /\ NewRecord.status = "queued"
    BY <1>7, CreateRecords DEF NewRecord, NoRecord
  <2>2. disk[j].status = "absent"
    BY <2>1 DEF JobInv, Served
  <2>3. Kept(j)'
    BY <2>1, <2>2, RecordsKeep DEF Terminal, Unstarted
  <2>. QED BY <1>6, <2>1, <2>3
<1>8. ASSUME NEW j \in Jobs, CancelMark(j) PROVE RestartInv'
  <2>1. PICK r \in Record : /\ Records(j, r, task[j])
                            /\ r.status = "cancelled" /\ mem[j].status \in Live
                            /\ phase = "serving"
    BY <1>8, CancelMarkRecords
  <2>2. disk[j] = mem[j]
    BY <2>1 DEF Kept, Live
  <2>3. Kept(j)'
    BY <2>1, <2>2, RecordsKeep DEF Terminal, Live
  <2>. QED BY <1>6, <2>1, <2>3
<1>9. ASSUME NEW j \in Jobs, Start(j) PROVE RestartInv'
  <2>1. PICK r \in Record : /\ Records(j, r, "planning")
                            /\ r.status = "running" /\ mem[j].status \notin Terminal
                            /\ task[j] = "starting"
    BY <1>9, StartRecords
  <2>2. phase = "serving" /\ mem[j].status # "absent"
    BY <2>1 DEF JobInv, Served
  <2>3. disk[j] = mem[j]
    BY <2>2 DEF Kept
  <2>4. Kept(j)'
    BY <2>1, <2>2, <2>3, RecordsKeep DEF Unstarted
  <2>. QED BY <1>6, <2>1, <2>4
<1>10. ASSUME NEW j \in Jobs, Finish(j) PROVE RestartInv'
  <2>1. PICK r \in Record : /\ Records(j, r, "ended")
                            /\ \/ r = mem[j] /\ mem[j].status \in Terminal
                               \/ /\ r.status \in {"succeeded", "failed"}
                                  /\ mem[j].status \notin Terminal
                            /\ task[j] = "finishing"
    BY <1>10, FinishRecords
  <2>2. phase = "serving" /\ mem[j].status # "absent"
    BY <2>1 DEF JobInv, Served
  <2>3. disk[j] = mem[j]
    BY <2>2 DEF Kept
  <2>4. r.status \in Terminal /\ (r.status = "interrupted" => j \in lost)
    BY <2>1, <2>3 DEF Kept, Terminal
  <2>5. Kept(j)'
    BY <2>1, <2>2, <2>3, <2>4, RecordsKeep DEF Terminal
  <2>. QED BY <1>6, <2>1, <2>5
<1>11. ASSUME NEW j \in Jobs, DrainMirror(j) PROVE RestartInv'
  <2>1. PICK r \in Record : /\ Records(j, r, task[j]) /\ r.status = mem[j].status
                            /\ drain[j] = "mirroring"
    BY <1>11, DrainMirrorRecords
  <2>2. phase = "serving" /\ task[j] # "none"
    BY <2>1 DEF JobInv, Served, Fresh, Unstarted
  <2>3. mem[j].status # "absent"
    BY <2>2 DEF JobInv, Served
  <2>4. disk[j] = mem[j]
    BY <2>3 DEF Kept
  <2>5. /\ r.status = "queued" => task[j] \in Unstarted \union {"ended"}
        /\ r.status = "running" => task[j] \notin Unstarted
        /\ r.status = "interrupted" => j \in lost
    BY <2>1, <2>4 DEF Kept
  <2>6. Kept(j)'
    BY <2>1, <2>2, <2>3, <2>4, <2>5, RecordsKeep
  <2>. QED BY <1>6, <2>1, <2>6
<1>12. ASSUME NEW j \in Jobs, RecoverJob(j) PROVE RestartInv'
  <2>1. PICK r \in Record :
          /\ Records(j, r, task[j])
          /\ \/ r = disk[j] /\ disk[j].status \in Terminal
             \/ r.status = "interrupted" /\ disk[j].status \in Live
          /\ phase = "recovering"
    BY <1>12, RecoverJobRecords
  <2>2. r.status \in Terminal /\ (r.status = "interrupted" => j \in lost)
    BY <2>1 DEF Kept, Terminal
  <2>3. Kept(j)'
    BY <2>1, <2>2, RecordsKeep DEF Terminal, Live
  <2>. QED BY <1>6, <2>1, <2>3
<1>13. ASSUME NEW j \in Jobs, OtherServer(j) PROVE FALSE
  BY <1>13 DEF OtherServer, OtherServerReads, OtherServerRewrites, Private
<1>. QED BY <1>1, <1>2, <1>3, <1>4, <1>5, <1>7, <1>8, <1>9, <1>10, <1>11, <1>12, <1>13
        DEF Next, Server, Request, Run, Execute, Drain, Quiet

LEMMA RestartInit == Init => RestartInv
<1>. SUFFICES ASSUME Init, NEW j \in Jobs PROVE failures = 0 /\ Kept(j)
  BY DEF RestartInv, Init
<1>. QED BY DEF Init, Kept, NoRecord, Terminal, Live

THEOREM Restartable == Private /\ Spec => []RestartInv
<1>1. Init => RestartInv
  BY RestartInit
<1>2. Private /\ IInv /\ RestartInv /\ [Next]_vars => RestartInv'
  BY RestartStep
<1>3. ASSUME Private PROVE Spec => []RestartInv
  <2>1. IInv /\ RestartInv /\ [Next]_vars => RestartInv'
    BY <1>2, <1>3
  <2>. QED BY <1>1, <2>1, Inductive, PTL DEF Spec
<1>. QED BY <1>3

(* A terminal status a server has shown is what every later server shows.  *)
THEOREM TerminalSurvives == Private /\ Spec => []TerminalSurvivesRestart
<1>1. IInv /\ RestartInv => TerminalSurvivesRestart
  <2>. SUFFICES ASSUME IInv, RestartInv, NEW j \in Jobs, mem[j].status \in Terminal
                PROVE  mem[j].status = settled[j]
    BY DEF TerminalSurvivesRestart
  <2>1. Kept(j) /\ mem[j].status # "absent"
    BY DEF RestartInv, Terminal
  <2>. QED BY <2>1 DEF Kept
<1>2. CASE Private
  BY <1>1, <1>2, Inductive, Restartable, PTL
<1>. QED BY <1>2

(* Only a job that was in flight when the server died is interrupted.      *)
THEOREM InterruptedIsHonest == Private /\ Spec => []InterruptedMeansRestart
<1>1. RestartInv => InterruptedMeansRestart
  BY DEF RestartInv, Kept, InterruptedMeansRestart
<1>2. CASE Private
  BY <1>1, <1>2, Restartable, PTL
<1>. QED BY <1>2

-----------------------------------------------------------------------------
(***************************************************************************)
(* Refinement: every step of the registry is a step of JobLifecycle, or    *)
(* changes nothing a reader of job.json sees.                              *)
(***************************************************************************)
Shown == [j \in Jobs |-> disk[j].status]

Busy == {j \in Jobs : task[j] \in Executing}

lifecycle == <<Shown, Busy, phase = "serving">>

LEMMA RecordsBecome ==
  ASSUME Types, NEW j \in Jobs, NEW r, NEW s, Records(j, r, s)
  PROVE  /\ Shown' = [Shown EXCEPT ![j] = r.status]
         /\ r.status = disk[j].status => Shown' = Shown
         /\ phase' = phase
<1>1. disk' = [disk EXCEPT ![j] = r] /\ phase' = phase
  BY DEF Records
<1>. QED BY <1>1 DEF Types, Shown

LEMMA RecordsBusy ==
  ASSUME Types, NEW j \in Jobs, NEW r, NEW s, Records(j, r, s)
  PROVE  /\ s \in Executing => Busy' = Busy \union {j}
         /\ s \notin Executing => Busy' = Busy \ {j}
         /\ (s \in Executing <=> task[j] \in Executing) => Busy' = Busy
<1>1. task' = [task EXCEPT ![j] = s]
  BY DEF Records
<1>. QED BY <1>1 DEF Types, Busy

LEMMA RoomToStart ==
  ASSUME IInv, NEW j \in Jobs, task[j] = "starting"
  PROVE  Cardinality(Busy) < MaxConcurrent
<1>1. IsFiniteSet(Busy) /\ IsFiniteSet(Holders) /\ j \notin Busy
      /\ Busy \union {j} \subseteq Holders
  BY ConstantsAssumption, FS_Subset DEF Busy, Holders, Holding, Executing
<1>2. Cardinality(Busy \union {j}) = Cardinality(Busy) + 1 /\ Cardinality(Busy) \in Nat
  BY <1>1, FS_AddElement, FS_CardinalityType
<1>3. Cardinality(Busy \union {j}) <= Cardinality(Holders)
  BY <1>1, FS_Subset
<1>4. permits + Cardinality(Holders) = MaxConcurrent /\ permits \in Nat
  BY DEF IInv, PermitsConserved, Holders, Types
<1>. QED BY <1>2, <1>3, <1>4, HoldersFinite, ConstantsAssumption

LEMMA CalmImplements ==
  ASSUME Types, NEW j \in Jobs, Calm(j)
  PROVE  Lifecycle!Leave(j) \/ UNCHANGED lifecycle
<1>1. Shown' = Shown /\ phase' = phase
  BY DEF Calm, Shown
<1>2. CASE task[j] \in Executing /\ task'[j] \notin Executing
  <2>1. j \in Busy /\ Busy' = Busy \ {j}
    BY <1>2 DEF Calm, Busy
  <2>. QED BY <1>1, <2>1 DEF Lifecycle!Leave, Shown, Busy
<1>3. CASE ~(task[j] \in Executing /\ task'[j] \notin Executing)
  <2>1. Busy' = Busy
    BY <1>3 DEF Calm, Busy
  <2>. QED BY <1>1, <2>1 DEF lifecycle
<1>. QED BY <1>2, <1>3

LEMMA CreateImplements ==
  ASSUME IInv, RestartInv, NEW j \in Jobs, Create(j)
  PROVE  Lifecycle!Submit(j)
<1>. Types /\ JobInv(j)
  BY DEF IInv
<1>1. /\ Records(j, NewRecord, "submitted") /\ task[j] = "none" /\ phase = "serving"
      /\ NewRecord.status = "queued"
  BY CreateRecords DEF NewRecord, NoRecord
<1>2. disk[j].status = "absent"
  BY <1>1 DEF JobInv, Served
<1>3. Shown' = [Shown EXCEPT ![j] = "queued"] /\ phase' = phase
  BY <1>1, RecordsBecome
<1>4. Busy' = Busy
  BY <1>1, RecordsBusy DEF Executing
<1>. QED BY <1>1, <1>2, <1>3, <1>4 DEF Lifecycle!Submit, Lifecycle!Become, Shown, Busy

LEMMA CancelMarkImplements ==
  ASSUME Private, IInv, RestartInv, NEW j \in Jobs, CancelMark(j)
  PROVE  Lifecycle!Cancel(j)
<1>. Types /\ Kept(j)
  BY DEF IInv, RestartInv
<1>1. PICK r \in Record : /\ Records(j, r, task[j])
                          /\ r.status = "cancelled" /\ mem[j].status \in Live
                          /\ phase = "serving"
  BY CancelMarkRecords
<1>2. disk[j].status \in {"queued", "running"}
  BY <1>1 DEF Kept, Live
<1>3. Shown' = [Shown EXCEPT ![j] = "cancelled"] /\ phase' = phase
  BY <1>1, RecordsBecome
<1>4. Busy' = Busy
  BY <1>1, RecordsBusy
<1>. QED BY <1>1, <1>2, <1>3, <1>4 DEF Lifecycle!Cancel, Lifecycle!Become, Shown, Busy

LEMMA StartImplements ==
  ASSUME Private, IInv, RestartInv, NEW j \in Jobs, Start(j)
  PROVE  Lifecycle!Begin(j)
<1>. Types /\ Kept(j) /\ JobInv(j)
  BY DEF IInv, RestartInv
<1>1. PICK r \in Record : /\ Records(j, r, "planning")
                          /\ r.status = "running" /\ mem[j].status \notin Terminal
                          /\ task[j] = "starting"
  BY StartRecords
<1>2. phase = "serving" /\ mem[j].status # "absent"
  BY <1>1 DEF JobInv, Served
<1>3. mem[j].status \in {"absent"} \union Live \union Terminal
  BY DEF Types, Record
<1>4. disk[j].status = "queued"
  BY <1>1, <1>2, <1>3 DEF Kept, Live, Unstarted
<1>5. Shown' = [Shown EXCEPT ![j] = "running"] /\ phase' = phase
  BY <1>1, RecordsBecome
<1>6. Busy' = Busy \union {j}
  BY <1>1, RecordsBusy DEF Executing
<1>7. Cardinality(Busy) < MaxConcurrent
  BY <1>1, RoomToStart
<1>8. /\ phase = "serving" /\ phase' = "serving"
      /\ Shown[j] = "queued"
  BY <1>2, <1>4, <1>5 DEF Shown
<1>9. Lifecycle!Cardinality(Busy) = Cardinality(Busy)
  BY Zenon DEF Cardinality, Lifecycle!Cardinality
<1>. QED BY <1>5, <1>6, <1>7, <1>8, <1>9 DEF Lifecycle!Begin, Lifecycle!Become, Shown, Busy

LEMMA FinishImplements ==
  ASSUME Private, IInv, RestartInv, NEW j \in Jobs, Finish(j)
  PROVE  Lifecycle!Conclude(j) \/ UNCHANGED lifecycle
<1>. Types /\ Kept(j) /\ JobInv(j)
  BY DEF IInv, RestartInv
<1>1. PICK r \in Record : /\ Records(j, r, "ended")
                          /\ \/ r = mem[j] /\ mem[j].status \in Terminal
                             \/ /\ r.status \in {"succeeded", "failed"}
                                /\ mem[j].status \notin Terminal
                          /\ task[j] = "finishing"
  BY FinishRecords
<1>2. phase = "serving" /\ mem[j].status # "absent"
  BY <1>1 DEF JobInv, Served
<1>3. mem[j].status \in {"absent"} \union Live \union Terminal /\ disk[j] = mem[j]
  BY <1>2 DEF Types, Record, Kept
<1>4. Busy' = Busy /\ j \notin Busy
  BY <1>1, RecordsBusy DEF Executing, Busy
<1>5. CASE r = mem[j]
  <2>1. Shown' = Shown /\ phase' = phase
    BY <1>1, <1>3, <1>5, RecordsBecome
  <2>. QED BY <1>4, <2>1 DEF lifecycle
<1>6. CASE r.status \in {"succeeded", "failed"} /\ mem[j].status \notin Terminal
  <2>1. disk[j].status = "running"
    BY <1>1, <1>2, <1>3, <1>6 DEF Kept, Live, Unstarted
  <2>2. Shown' = [Shown EXCEPT ![j] = r.status] /\ phase' = phase
    BY <1>1, RecordsBecome
  <2>. QED BY <1>2, <1>4, <1>6, <2>1, <2>2
       DEF Lifecycle!Conclude, Lifecycle!Become, Shown, Busy
<1>. QED BY <1>1, <1>5, <1>6

LEMMA DrainMirrorImplements ==
  ASSUME Private, IInv, RestartInv, NEW j \in Jobs, DrainMirror(j)
  PROVE  UNCHANGED lifecycle
<1>. Types /\ Kept(j) /\ JobInv(j)
  BY DEF IInv, RestartInv
<1>1. PICK r \in Record : /\ Records(j, r, task[j]) /\ r.status = mem[j].status
                          /\ drain[j] = "mirroring"
  BY DrainMirrorRecords
<1>2. phase = "serving" /\ task[j] # "none"
  BY <1>1 DEF JobInv, Served, Fresh, Unstarted
<1>3. disk[j].status = r.status
  BY <1>1, <1>2 DEF JobInv, Served, Kept
<1>4. Shown' = Shown /\ phase' = phase
  BY <1>1, <1>3, RecordsBecome
<1>5. Busy' = Busy
  BY <1>1, RecordsBusy
<1>. QED BY <1>4, <1>5 DEF lifecycle

LEMMA RecoverJobImplements ==
  ASSUME Private, IInv, RestartInv, NEW j \in Jobs, RecoverJob(j)
  PROVE  Lifecycle!Interrupt(j) \/ UNCHANGED lifecycle
<1>. Types /\ JobInv(j)
  BY DEF IInv
<1>1. PICK r \in Record :
        /\ Records(j, r, task[j])
        /\ \/ r = disk[j] /\ disk[j].status \in Terminal
           \/ r.status = "interrupted" /\ disk[j].status \in Live
        /\ phase = "recovering"
  BY RecoverJobRecords
<1>2. Busy' = Busy
  BY <1>1, RecordsBusy
<1>3. CASE r = disk[j]
  <2>1. Shown' = Shown /\ phase' = phase
    BY <1>1, <1>3, RecordsBecome
  <2>. QED BY <1>2, <2>1 DEF lifecycle
<1>4. CASE r.status = "interrupted" /\ disk[j].status \in Live
  <2>1. Shown' = [Shown EXCEPT ![j] = "interrupted"] /\ phase' = phase
    BY <1>1, <1>4, RecordsBecome
  <2>. QED BY <1>1, <1>2, <1>4, <2>1
       DEF Lifecycle!Interrupt, Lifecycle!Become, Shown, Busy, Live
<1>. QED BY <1>1, <1>3, <1>4

(* A server answers again once recovery has visited every entry, and then  *)
(* nothing is left in flight.                                              *)
LEMMA ServerImplements ==
  ASSUME IInv, RestartInv, Server
  PROVE  Lifecycle!Die \/ Lifecycle!Return \/ UNCHANGED lifecycle
<1>. Types /\ \A i \in Jobs : JobInv(i) /\ Kept(i)
  BY DEF IInv, RestartInv
<1>1. CASE Crash
  <2>1. Shown' = Shown /\ Busy' = {} /\ phase' = "down"
    BY <1>1 DEF Crash, Shown, Busy, Executing
  <2>2. CASE phase = "serving"
    BY <2>1, <2>2 DEF Lifecycle!Die, Shown, Busy
  <2>3. CASE phase # "serving"
    <3>1. Busy = {}
      BY <2>3 DEF Busy, Executing, JobInv, Served
    <3>. QED BY <2>1, <2>3, <3>1 DEF lifecycle
  <2>. QED BY <2>2, <2>3
<1>2. CASE Boot
  BY <1>2 DEF Boot, taskVars, lifecycle, Shown, Busy
<1>3. CASE Serve
  <2>1. Shown' = Shown /\ Busy' = Busy /\ phase = "recovering" /\ phase' = "serving"
    BY <1>3 DEF Serve, taskVars, Shown, Busy
  <2>2. \A j \in Jobs : disk[j].status \notin {"queued", "running"}
    <3>. SUFFICES ASSUME NEW j \in Jobs, disk[j].status \in {"queued", "running"}
                  PROVE  FALSE
      OBVIOUS
    <3>1. mem[j].status # "absent"
      BY <1>3, <2>1 DEF Serve, JobInv, Served
    <3>. QED BY <2>1, <3>1 DEF Kept, Terminal
  <2>. QED BY <2>1, <2>2 DEF Lifecycle!Return, Shown, Busy
<1>. QED BY <1>1, <1>2, <1>3 DEF Server

LEMMA StepImplements ==
  ASSUME Private, IInv, RestartInv, [Next]_vars
  PROVE  [Lifecycle!LifecycleNext]_lifecycle
<1>. Types
  BY DEF IInv
<1>1. CASE UNCHANGED vars
  BY <1>1 DEF vars, registryVars, taskVars, lifecycle, Shown, Busy
<1>2. CASE Server
  BY <1>2, ServerImplements DEF Lifecycle!LifecycleNext
<1>3. ASSUME NEW j \in Jobs, Quiet(j) PROVE [Lifecycle!LifecycleNext]_lifecycle
  BY <1>3, QuietIsCalm, CalmImplements DEF Lifecycle!LifecycleNext
<1>4. ASSUME NEW j \in Jobs,
             Create(j) \/ CancelMark(j) \/ Start(j) \/ Finish(j) \/ DrainMirror(j) \/ RecoverJob(j)
      PROVE  [Lifecycle!LifecycleNext]_lifecycle
  BY <1>4, CreateImplements, CancelMarkImplements, StartImplements, FinishImplements,
     DrainMirrorImplements, RecoverJobImplements DEF Lifecycle!LifecycleNext
<1>5. ASSUME NEW j \in Jobs, OtherServer(j) PROVE FALSE
  BY <1>5 DEF OtherServer, OtherServerReads, OtherServerRewrites, Private
<1>. QED BY <1>1, <1>2, <1>3, <1>4, <1>5
        DEF Next, Request, Run, Execute, Drain, Quiet

(* The registry, its tasks, cancellation, crashes and recovery implement   *)
(* the lifecycle a reader of job.json relies on.                           *)
THEOREM Implements == Private /\ Spec => ImplementsLifecycle
<1>1. Init => Lifecycle!LifecycleInit
  <2>. SUFFICES ASSUME Init PROVE Lifecycle!LifecycleInit
    OBVIOUS
  <2>1. [j \in Jobs |-> disk[j].status] = [j \in Jobs |-> "absent"]
    BY DEF Init, NoRecord
  <2>2. {j \in Jobs : task[j] \in Executing} = {}
    BY DEF Init, Executing
  <2>. QED BY <2>1, <2>2 DEF Lifecycle!LifecycleInit, Init
<1>2. Private /\ IInv /\ RestartInv /\ [Next]_vars => [Lifecycle!LifecycleNext]_lifecycle
  BY StepImplements
<1>3. ASSUME Private PROVE Spec => ImplementsLifecycle
  <2>1. IInv /\ RestartInv /\ [Next]_vars
          => [Lifecycle!LifecycleNext]_(Lifecycle!lifecycleVars)
    BY <1>2, <1>3 DEF lifecycle, Shown, Busy, Lifecycle!lifecycleVars
  <2>2. Spec => []RestartInv
    BY <1>3, Restartable, PTL
  <2>. QED BY <1>1, <2>1, <2>2, Inductive, PTL
       DEF Spec, ImplementsLifecycle, Lifecycle!LifecycleSpec
<1>. QED BY <1>3
=============================================================================
