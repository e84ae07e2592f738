---------------------------- MODULE VerdictStore ----------------------------
(***************************************************************************)
(* The persistent verdict cache (cache/sqlite.rs, SqliteCache) and the     *)
(* operators that use it: an operator reads a generation unit key by key,  *)
(* asks the model when one key misses, and stores what the model said      *)
(* (physical/extract.rs; physical/verify.rs is a unit of one key).         *)
(*                                                                         *)
(* Several instances share one SQLite file.  Each has a map of every       *)
(* verdict it has stored or returned (a mutex), a channel of messages, and *)
(* a writer thread that commits what the channel holds.  A lookup is three *)
(* steps (map, file, map again) and a store is two (map, send): nothing is *)
(* held in between, so lookups, stores, commits and other instances        *)
(* interleave.                                                             *)
(*                                                                         *)
(* A verdict is the number of the model call that produced it, so two      *)
(* calls never agree by accident.  0 is "no verdict".                      *)
(***************************************************************************)
EXTENDS Naturals, Sequences, FiniteSets

CONSTANTS
  Instances,        \* SqliteCache instances, each in a process of its own
  Askers,           \* operator tasks, each working on one row at a time
  Keys,             \* cache keys
  Units,            \* generation units: sequences of keys, read in order
  MaxBatch,         \* MAX_BATCH, rows after which a transaction is closed
  MaxCalls,         \* bound: model calls that return an answer
  MaxAsks,          \* bound: rows the operators work on
  MaxOpens,         \* bound: times an instance is opened
  MaxReadFailures,  \* bound: reads the file refuses
  MaxWriteFailures  \* bound: transactions the file refuses

(* A cache key contains the hash of its unit: units share no key, and each *)
(* key is that of some unit.                                               *)
ASSUME ConstantsAssumption ==
  /\ IsFiniteSet(Keys)
  /\ Units \subseteq Seq(Keys) \ {<<>>}
  /\ \A k \in Keys : \E u \in Units : \E n \in 1..Len(u) : u[n] = k
  /\ \A u, v \in Units : \A m \in 1..Len(u) : \A n \in 1..Len(v) :
        u[m] = v[n] => u = v /\ m = n
  /\ MaxBatch \in Nat \ {0}
  /\ MaxCalls \in Nat /\ MaxAsks \in Nat /\ MaxOpens \in Nat
  /\ MaxReadFailures \in Nat /\ MaxWriteFailures \in Nat

VARIABLES
  disk,    \* the verdicts table of the file
  open,    \* per instance: "closed", "open" or "closing"
  stored,  \* per instance: its map
  queue,   \* per instance: the channel to its writer
  flush,   \* per instance: the flush of a server shutting down
  goal,    \* history: what the map held, and what was sent, when flush began
  pc,      \* where an asker is
  at,      \* the instance an asker uses
  unit,    \* the unit it works on
  pos,     \* the key of the unit it looks up
  reply,   \* the verdicts it has collected, or those the model gave it
  seen,    \* the verdict its read of the file returned
  rows,    \* the rows it has put into the map and has still to send
  before,  \* history: what its query before this one got from the same instance
  calls,   \* model calls so far
  budget   \* what is left of the other bounds

instanceVars == <<disk, open, stored, queue, flush, goal>>
askerVars == <<pc, at, unit, pos, reply, seen, rows, before>>
vars == <<instanceVars, askerVars, calls, budget>>

Verdict == Nat
NoVerdict == 0
Empty == [k \in Keys |-> NoVerdict]
KeysOf(u) == {u[n] : n \in 1..Len(u)}
Held(f) == {k \in Keys : f[k] # NoVerdict}

(* What the writer receives: rows to commit together, or a flush request.  *)
Message == [rows : [Keys -> Verdict], flush : BOOLEAN]
RowsMessage(r) == [rows |-> r, flush |-> FALSE]
FlushMessage == [rows |-> Empty, flush |-> TRUE]

(* Where an asker is inside a call of the cache or waiting for the model.  *)
Busy == {"looking", "reading", "remembering", "asking", "storing", "sending"}
-----------------------------------------------------------------------------
Init ==
  /\ disk = Empty
  /\ open = [i \in Instances |-> "closed"]
  /\ stored = [i \in Instances |-> Empty]
  /\ queue = [i \in Instances |-> <<>>]
  /\ flush = [i \in Instances |-> "none"]
  /\ goal = [i \in Instances |-> [stored |-> {}, sent |-> {}]]
  /\ pc = [a \in Askers |-> "idle"]
  /\ at \in [Askers -> Instances]
  /\ unit \in [Askers -> Units]
  /\ pos = [a \in Askers |-> 1]
  /\ reply = [a \in Askers |-> Empty]
  /\ seen = [a \in Askers |-> NoVerdict]
  /\ rows = [a \in Askers |-> Empty]
  /\ before = [a \in Askers |-> Empty]
  /\ calls = 0
  /\ budget = [asks |-> MaxAsks, opens |-> MaxOpens,
               reads |-> MaxReadFailures, writes |-> MaxWriteFailures]
-----------------------------------------------------------------------------
(***************************************************************************)
(* Instances.                                                              *)
(***************************************************************************)
Open(i) ==
  /\ open[i] = "closed"
  /\ budget.opens > 0
  /\ budget' = [budget EXCEPT !.opens = @ - 1]
  /\ open' = [open EXCEPT ![i] = "open"]
  /\ stored' = [stored EXCEPT ![i] = Empty]
  /\ flush' = [flush EXCEPT ![i] = "none"]
  /\ goal' = [goal EXCEPT ![i] = [stored |-> {}, sent |-> {}]]
  /\ UNCHANGED <<disk, queue, askerVars, calls>>

(* Drop: nobody is in a call of the instance; the channel is closed and    *)
(* the writer goes on until it is empty.                                   *)
Close(i) ==
  /\ open[i] = "open"
  /\ flush[i] # "waiting"
  /\ \A a \in Askers : at[a] = i => pc[a] \notin Busy
  /\ open' = [open EXCEPT ![i] = "closing"]
  /\ pc' = [a \in Askers |-> IF at[a] = i THEN "idle" ELSE pc[a]]
  /\ UNCHANGED <<disk, stored, queue, flush, goal, at, unit, pos, reply, seen, rows,
                 before, calls, budget>>

(* Mutant: drop does not join the writer.                                  *)
ClosedUnjoined(i) ==
  /\ open[i] = "closing"
  /\ open' = [open EXCEPT ![i] = "closed"]
  /\ UNCHANGED <<disk, stored, queue, flush, goal, askerVars, calls, budget>>

(* The writer has seen the end of its channel and drop has joined it.      *)
Closed(i) ==
  /\ open[i] = "closing"
  /\ queue[i] = <<>>
  /\ open' = [open EXCEPT ![i] = "closed"]
  /\ UNCHANGED <<disk, stored, queue, flush, goal, askerVars, calls, budget>>

(* The process dies or exits without dropping the cache: the map, the      *)
(* channel, the writer and the tasks are gone.                             *)
Crash(i) ==
  /\ open[i] # "closed"
  /\ open' = [open EXCEPT ![i] = "closed"]
  /\ stored' = [stored EXCEPT ![i] = Empty]
  /\ queue' = [queue EXCEPT ![i] = <<>>]
  /\ flush' = [flush EXCEPT ![i] = "none"]
  /\ goal' = [goal EXCEPT ![i] = [stored |-> {}, sent |-> {}]]
  /\ pc' = [a \in Askers |-> IF at[a] = i THEN "idle" ELSE pc[a]]
  /\ UNCHANGED <<disk, at, unit, pos, reply, seen, rows, before, calls, budget>>

(* The keys of i that an asker has put into the map and has not sent.      *)
Unsent(i) ==
  {k \in Keys : \E a \in Askers :
                   pc[a] = "sending" /\ at[a] = i /\ rows[a][k] # NoVerdict}

(* The server is shutting down.                                            *)
Flush(i) ==
  /\ open[i] = "open"
  /\ flush[i] = "none"
  /\ flush' = [flush EXCEPT ![i] = "waiting"]
  /\ goal' = [goal EXCEPT ![i] = [stored |-> Held(stored[i]),
                                  sent |-> Held(stored[i]) \ Unsent(i)]]
  /\ queue' = [queue EXCEPT ![i] = Append(@, FlushMessage)]
  /\ UNCHANGED <<disk, open, stored, askerVars, calls, budget>>
-----------------------------------------------------------------------------
(***************************************************************************)
(* The writer thread.  It takes the first message and whatever else is     *)
(* waiting, up to a flush request or about MaxBatch rows, and commits the  *)
(* rows in one transaction.  INSERT OR IGNORE keeps a row another instance *)
(* has committed.  A transaction that fails is logged and its rows are     *)
(* kept in memory only; the flush is answered either way.                  *)
(***************************************************************************)
RowsIn(q, n) ==
  Cardinality({p \in (1..n) \X Keys : q[p[1]].rows[p[2]] # NoVerdict})

Batch(q, n) ==
  /\ n \in 1..Len(q)
  /\ \A m \in 1..(n - 1) : ~q[m].flush
  /\ \A m \in 1..(n - 1) : RowsIn(q, m) < MaxBatch

(* The row of k in the first n messages.  At most one has it: a store puts *)
(* only keys its instance's map lacked.                                    *)
RowOf(q, n, k) ==
  IF \E m \in 1..n : q[m].rows[k] # NoVerdict
  THEN q[CHOOSE m \in 1..n : q[m].rows[k] # NoVerdict].rows[k]
  ELSE NoVerdict

(* Mutant: INSERT OR REPLACE.                                              *)
WriteBatchReplaces(i, n) ==
  disk' = [k \in Keys |-> IF RowOf(queue[i], n, k) # NoVerdict
                          THEN RowOf(queue[i], n, k) ELSE disk[k]]

WriteBatch(i, n) ==
  disk' = [k \in Keys |-> IF disk[k] = NoVerdict THEN RowOf(queue[i], n, k) ELSE disk[k]]

(* Mutant: a flush is answered when it is sent, not when its turn comes.   *)
TakeAnswersEarly(i, n) ==
  /\ queue' = [queue EXCEPT ![i] = SubSeq(@, n + 1, Len(@))]
  /\ flush' = [flush EXCEPT ![i] = IF \E m \in 1..Len(queue[i]) : queue[i][m].flush
                                   THEN "done" ELSE @]

(* Mutant: the flush request is consumed and never answered.               *)
TakeFlushUnanswered(i, n) ==
  /\ queue' = [queue EXCEPT ![i] = SubSeq(@, n + 1, Len(@))]
  /\ UNCHANGED flush

(* The messages are received, and the flush among them answered.           *)
Take(i, n) ==
  /\ queue' = [queue EXCEPT ![i] = SubSeq(@, n + 1, Len(@))]
  /\ flush' = [flush EXCEPT ![i] = IF queue[i][n].flush THEN "done" ELSE @]

Commit(i) ==
  \E n \in 1..Len(queue[i]) :
    /\ Batch(queue[i], n)
    /\ WriteBatch(i, n)
    /\ Take(i, n)
    /\ UNCHANGED <<open, stored, goal, askerVars, calls, budget>>

CommitFails(i) ==
  /\ budget.writes > 0
  /\ budget' = [budget EXCEPT !.writes = @ - 1]
  /\ \E n \in 1..Len(queue[i]) :
       /\ Batch(queue[i], n)
       /\ RowsIn(queue[i], n) > 0
       /\ Take(i, n)
  /\ UNCHANGED <<disk, open, stored, goal, askerVars, calls>>
-----------------------------------------------------------------------------
(***************************************************************************)
(* Askers.                                                                 *)
(***************************************************************************)
Goto(a, where) == pc' = [pc EXCEPT ![a] = where]

Ask(a) ==
  /\ pc[a] \notin Busy
  /\ budget.asks > 0
  /\ budget' = [budget EXCEPT !.asks = @ - 1]
  /\ \E i \in Instances : open[i] = "open" /\ at' = [at EXCEPT ![a] = i]
  /\ \E u \in Units : unit' = [unit EXCEPT ![a] = u]
  /\ pos' = [pos EXCEPT ![a] = 1]
  /\ reply' = [reply EXCEPT ![a] = Empty]
  /\ Goto(a, "looking")
  /\ before' = [before EXCEPT ![a] =
                  IF pc[a] \in {"served", "told"} /\ at'[a] = at[a] THEN reply[a] ELSE Empty]
  /\ UNCHANGED <<instanceVars, seen, rows, calls>>

Key(a) == unit[a][pos[a]]

(* The key hits; the next one is looked up, or the unit is complete.       *)
Hit(a, verdict) ==
  /\ reply' = [reply EXCEPT ![a][Key(a)] = verdict]
  /\ IF pos[a] < Len(unit[a])
     THEN pos' = [pos EXCEPT ![a] = @ + 1] /\ Goto(a, "looking")
     ELSE Goto(a, "served") /\ UNCHANGED pos

LookUp(a) ==
  /\ pc[a] = "looking"
  /\ LET known == stored[at[a]][Key(a)]
     IN  IF known # NoVerdict
         THEN Hit(a, known)
         ELSE Goto(a, "reading") /\ UNCHANGED <<reply, pos>>
  /\ UNCHANGED <<instanceVars, at, unit, seen, rows, before, calls, budget>>

(* The read of the file.  A miss, or a read the file refuses, ends the     *)
(* lookup of the whole unit.                                               *)
ReadHit(a) ==
  /\ pc[a] = "reading"
  /\ disk[Key(a)] # NoVerdict
  /\ seen' = [seen EXCEPT ![a] = disk[Key(a)]]
  /\ Goto(a, "remembering")
  /\ UNCHANGED <<instanceVars, at, unit, pos, reply, rows, before, calls, budget>>

ReadMiss(a) ==
  /\ pc[a] = "reading"
  /\ \/ disk[Key(a)] = NoVerdict /\ UNCHANGED budget
     \/ budget.reads > 0 /\ budget' = [budget EXCEPT !.reads = @ - 1]
  /\ Goto(a, "asking")
  /\ UNCHANGED <<instanceVars, at, unit, pos, reply, seen, rows, before, calls>>

(* Mutant: get returns what it read, whatever the map kept.                *)
RememberAnswersRead(a) ==
  /\ pc[a] = "remembering"
  /\ stored' = [stored EXCEPT ![at[a]][Key(a)] = IF @ = NoVerdict THEN seen[a] ELSE @]
  /\ Hit(a, seen[a])
  /\ UNCHANGED <<disk, open, queue, flush, goal, at, unit, seen, rows, before, calls, budget>>

(* entry().or_insert: the map's verdict, if one got there first, wins.     *)
Remember(a) ==
  /\ pc[a] = "remembering"
  /\ LET known == stored[at[a]][Key(a)]
         kept == IF known = NoVerdict THEN seen[a] ELSE known
     IN  /\ stored' = [stored EXCEPT ![at[a]][Key(a)] = kept]
         /\ Hit(a, kept)
  /\ UNCHANGED <<disk, open, queue, flush, goal, at, unit, seen, rows, before, calls, budget>>

(* The model answers for the whole unit and every field validates.         *)
ModelAnswers(a) ==
  /\ pc[a] = "asking"
  /\ calls < MaxCalls
  /\ calls' = calls + 1
  /\ reply' = [reply EXCEPT ![a] = [k \in Keys |-> IF k \in KeysOf(unit[a])
                                                   THEN calls + 1 ELSE NoVerdict]]
  /\ Goto(a, "storing")
  /\ UNCHANGED <<instanceVars, at, unit, pos, seen, rows, before, budget>>

(* The call fails, cannot be parsed, or a field does not validate: nothing *)
(* is stored.                                                              *)
ModelFails(a) ==
  /\ pc[a] = "asking"
  /\ Goto(a, "idle")
  /\ UNCHANGED <<instanceVars, at, unit, pos, reply, seen, rows, before, calls, budget>>

(* Mutant: every verdict of the group is inserted and sent.                *)
StoreUnguarded(a) ==
  /\ pc[a] = "storing"
  /\ rows' = [rows EXCEPT ![a] = reply[a]]
  /\ stored' = [stored EXCEPT ![at[a]] =
                  [k \in Keys |-> IF reply[a][k] # NoVerdict THEN reply[a][k] ELSE @[k]]]
  /\ Goto(a, "sending")
  /\ UNCHANGED <<disk, open, queue, flush, goal, at, unit, pos, reply, seen, before,
                 calls, budget>>

(* Mutant: the rows stay in the map.                                       *)
StoreUnsent(a) ==
  /\ pc[a] = "storing"
  /\ stored' = [stored EXCEPT ![at[a]] =
                  [k \in Keys |-> IF @[k] = NoVerdict THEN reply[a][k] ELSE @[k]]]
  /\ Goto(a, "told")
  /\ UNCHANGED <<disk, open, queue, flush, goal, at, unit, pos, reply, seen, rows,
                 before, calls, budget>>

(* store: under the lock, the keys the map does not hold yet.  The asker's *)
(* query goes on with the model's answer, whatever the map kept.           *)
Store(a) ==
  /\ pc[a] = "storing"
  /\ LET known == stored[at[a]]
         fresh == [k \in Keys |-> IF known[k] = NoVerdict THEN reply[a][k] ELSE NoVerdict]
     IN  /\ rows' = [rows EXCEPT ![a] = fresh]
         /\ stored' = [stored EXCEPT ![at[a]] =
                         [k \in Keys |-> IF known[k] = NoVerdict THEN reply[a][k] ELSE known[k]]]
         /\ Goto(a, IF fresh = Empty THEN "told" ELSE "sending")
  /\ UNCHANGED <<disk, open, queue, flush, goal, at, unit, pos, reply, seen, before,
                 calls, budget>>

(* Mutant: the rows of a group are sent one by one.                        *)
SendOneByOne(a) ==
  /\ pc[a] = "sending"
  /\ \E k \in Held(rows[a]) :
       /\ queue' = [queue EXCEPT ![at[a]] =
                      Append(@, RowsMessage([Empty EXCEPT ![k] = rows[a][k]]))]
       /\ rows' = [rows EXCEPT ![a][k] = NoVerdict]
       /\ Goto(a, IF Held(rows[a]) = {k} THEN "told" ELSE "sending")
  /\ UNCHANGED <<disk, open, stored, flush, goal, at, unit, pos, reply, seen, before,
                 calls, budget>>

(* The send, after the unlock.                                             *)
Send(a) ==
  /\ pc[a] = "sending"
  /\ queue' = [queue EXCEPT ![at[a]] = Append(@, RowsMessage(rows[a]))]
  /\ Goto(a, "told")
  /\ UNCHANGED <<disk, open, stored, flush, goal, at, unit, pos, reply, seen, rows,
                 before, calls, budget>>
-----------------------------------------------------------------------------
Writer(i) == Commit(i) \/ CommitFails(i)

CacheStep(a) == LookUp(a) \/ ReadHit(a) \/ ReadMiss(a) \/ Remember(a)
                \/ Store(a) \/ Send(a)

Model(a) == ModelAnswers(a) \/ ModelFails(a)

Next ==
  \/ \E i \in Instances : Open(i) \/ Close(i) \/ Closed(i) \/ Crash(i) \/ Flush(i)
                          \/ Writer(i)
  \/ \E a \in Askers : Ask(a) \/ CacheStep(a) \/ Model(a)

Spec == Init /\ [][Next]_vars

(* The writer thread is scheduled, and so are the tasks.  Nothing obliges  *)
(* the model to answer, a client to ask, or a server to stop.              *)
FairSpec ==
  /\ Spec
  /\ \A i \in Instances : WF_vars(Writer(i)) /\ WF_vars(Closed(i))
  /\ \A a \in Askers : WF_vars(CacheStep(a))
-----------------------------------------------------------------------------
(***************************************************************************)
(* Properties.                                                             *)
(***************************************************************************)
InstanceTypes ==
  /\ disk \in [Keys -> Verdict]
  /\ open \in [Instances -> {"closed", "open", "closing"}]
  /\ stored \in [Instances -> [Keys -> Verdict]]
  /\ queue \in [Instances -> Seq(Message)]
  /\ flush \in [Instances -> {"none", "waiting", "done"}]
  /\ goal \in [Instances -> [stored : SUBSET Keys, sent : SUBSET Keys]]

AskerTypes ==
  /\ pc \in [Askers -> Busy \union {"idle", "served", "told"}]
  /\ at \in [Askers -> Instances]
  /\ unit \in [Askers -> Units]
  /\ pos \in [Askers -> Nat \ {0}]
  /\ \A a \in Askers : pos[a] <= Len(unit[a])
  /\ reply \in [Askers -> [Keys -> Verdict]]
  /\ seen \in [Askers -> Verdict]
  /\ rows \in [Askers -> [Keys -> Verdict]]
  /\ before \in [Askers -> [Keys -> Verdict]]

BoundTypes ==
  /\ calls \in 0..MaxCalls
  /\ budget \in [asks : 0..MaxAsks, opens : 0..MaxOpens,
                 reads : 0..MaxReadFailures, writes : 0..MaxWriteFailures]

TypeOK == InstanceTypes /\ AskerTypes /\ BoundTypes

(* First evaluation wins within an instance: a verdict a query got from    *)
(* the cache is the one the instance holds ever after, so no two lookups   *)
(* of a key in one lifetime of an instance answer differently, whatever    *)
(* other tasks store and other instances commit between the map lookup,    *)
(* the read of the file and the second map lookup.                         *)
NeverAnswersTwoWays ==
  \A a \in Askers :
    pc[a] \in {"looking", "reading", "remembering", "served"} =>
      \A k \in Held(reply[a]) : reply[a][k] = stored[at[a]][k]

(* The file holds a generation unit whole or not at all, and always from   *)
(* one model call: through crashes, failed transactions, failed reads and  *)
(* other instances that commit the same unit.                              *)
FileHoldsUnitsWhole ==
  \A u \in Units : \A k, l \in KeysOf(u) : disk[k] = disk[l]

(* A unit answered from the cache comes from one model call, when no read  *)
(* of the file fails and no other instance writes it.                      *)
UnitServedWhole ==
  \A a \in Askers : pc[a] = "served" =>
    \A k, l \in KeysOf(unit[a]) : reply[a][k] = reply[a][l]

(* A clean close loses nothing: a key the instance held is in the file,    *)
(* when no transaction failed.                                             *)
CloseLosesNothing ==
  \A i \in Instances : open[i] = "closed" => Held(stored[i]) \subseteq Held(disk)

(* What had been sent to the writer when a flush began is in the file when *)
(* it returns, when no transaction failed.                                 *)
FlushCommitsSent ==
  \A i \in Instances : flush[i] = "done" => goal[i].sent \subseteq Held(disk)

(* What flush promises: every verdict stored when it began is in the file  *)
(* when it returns.                                                        *)
FlushCommitsStored ==
  \A i \in Instances : flush[i] = "done" => goal[i].stored \subseteq Held(disk)

(* What the cache promises: re-running a query is deterministic.  Asked    *)
(* again in one lifetime of an instance, a query gets the verdicts it got. *)
RerunAgrees ==
  \A a \in Askers : pc[a] \in {"served", "told"} =>
    \A k \in Held(reply[a]) \intersect Held(before[a]) : reply[a][k] = before[a][k]

(* A flush returns, whatever its instance's other threads are doing,       *)
(* unless the process dies first.                                          *)
FlushReturns ==
  \A i \in Instances : flush[i] = "waiting" ~> flush[i] # "waiting"

(* Every verdict an instance has stored reaches the file, unless the       *)
(* process dies first, when no transaction fails.                          *)
BacklogReachesFile ==
  \A i \in Instances, k \in Keys :
    stored[i][k] # NoVerdict ~> (disk[k] # NoVerdict \/ stored[i][k] = NoVerdict)

(***************************************************************************)
(* Refinement: the file and the maps implement VerdictContract.            *)
(***************************************************************************)
Contract == INSTANCE VerdictContract WITH
              file <- disk, memory <- stored, Calls <- 1..MaxCalls

(* Lookups, stores, the writer, crashes and several instances do to the    *)
(* file and the maps nothing the contract does not allow.                  *)
ImplementsContract == Contract!ContractSpec
=============================================================================
