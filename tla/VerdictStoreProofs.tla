------------------------- MODULE VerdictStoreProofs -------------------------
(***************************************************************************)
(* Proofs about VerdictStore, for every set of instances, tasks, keys and  *)
(* units and every bound.  The argument: what an instance's map holds for  *)
(* a unit is one model call's answer unless the file already has the unit  *)
(* (Maps); every row on its way to the file is the map's verdict, and a    *)
(* group is whole unless the file already has the unit (Queued, Sending);  *)
(* so a transaction writes whole units, each from one model call.          *)
(***************************************************************************)
EXTENDS VerdictStore, TLAPS

USE DEF Verdict, NoVerdict

(***************************************************************************)
(* The inductive invariant.                                                *)
(***************************************************************************)
OnFile(d, u) == \A k \in KeysOf(u) : d[k] # NoVerdict

Uniform(u, f) == \A k, l \in KeysOf(u) : f[k] = f[l]

(* Rows r, of an instance with map s, that may be committed to file d.     *)
Backed(d, s, r) ==
  /\ \A k \in Keys : r[k] # NoVerdict => r[k] = s[k]
  /\ \A u \in Units : OnFile(d, u) \/ Uniform(u, r)

(* Verdicts are added, none is changed.                                    *)
Grows(f, g) == \A k \in Keys : f[k] # NoVerdict => g[k] = f[k]

(* Only an open instance has askers that hold verdicts of it.              *)
Sessions == \A a \in Askers : open[at[a]] # "open" => pc[a] = "idle"

Channels == \A i \in Instances : open[i] = "closed" => queue[i] = <<>>

Maps == \A i \in Instances, u \in Units : OnFile(disk, u) \/ Uniform(u, stored[i])

Queued ==
  \A i \in Instances : \A n \in 1..Len(queue[i]) : Backed(disk, stored[i], queue[i][n].rows)

Sending == \A a \in Askers : pc[a] = "sending" => Backed(disk, stored[at[a]], rows[a])

Reading ==
  \A a \in Askers :
    pc[a] = "remembering" => seen[a] # NoVerdict /\ disk[Key(a)] = seen[a]

Evaluated ==
  \A a \in Askers : pc[a] = "storing" =>
    \E c \in 1..MaxCalls :
      reply[a] = [k \in Keys |-> IF k \in KeysOf(unit[a]) THEN c ELSE NoVerdict]

IInv ==
  /\ TypeOK /\ Sessions /\ Channels /\ NeverAnswersTwoWays /\ FileHoldsUnitsWhole
  /\ Maps /\ Queued /\ Sending /\ Reading /\ Evaluated

(***************************************************************************)
(* Keys, units and rows.                                                   *)
(***************************************************************************)
(* The key an asker looks up is a key of its unit.                         *)
LEMMA KeyInUnit ==
  ASSUME TypeOK, NEW a \in Askers
  PROVE  Key(a) \in Keys /\ Key(a) \in KeysOf(unit[a])
<1>1. unit[a] \in Units /\ pos[a] \in Nat \ {0} /\ pos[a] <= Len(unit[a])
  BY DEF TypeOK, AskerTypes
<1>2. unit[a] \in Seq(Keys)
  BY <1>1, ConstantsAssumption
<1>3. pos[a] \in 1..Len(unit[a])
  BY <1>1, <1>2
<1> QED
  BY <1>2, <1>3 DEF Key, KeysOf

(* The keys of a unit are keys.                                            *)
LEMMA UnitKeys ==
  ASSUME NEW u \in Units
  PROVE  KeysOf(u) \subseteq Keys
<1>1. u \in Seq(Keys)
  BY ConstantsAssumption
<1> QED
  BY <1>1 DEF KeysOf

(* Two units that share a key are the same unit.                           *)
LEMMA UnitsDisjoint ==
  ASSUME NEW u \in Units, NEW v \in Units,
         NEW k \in KeysOf(u), k \in KeysOf(v)
  PROVE  u = v
<1>1. PICK m \in 1..Len(u) : u[m] = k
  BY DEF KeysOf
<1>2. PICK n \in 1..Len(v) : v[n] = k
  BY DEF KeysOf
<1>3. \A x, y \in Units : \A s \in 1..Len(x) : \A t \in 1..Len(y) :
        x[s] = y[t] => x = y /\ s = t
  BY ConstantsAssumption, Zenon
<1> QED
  BY <1>1, <1>2, <1>3

(* Every key is one of some unit.                                          *)
LEMMA UnitOfKey ==
  ASSUME NEW k \in Keys
  PROVE  \E u \in Units : k \in KeysOf(u)
<1>1. PICK u \in Units : \E n \in 1..Len(u) : u[n] = k
  BY ConstantsAssumption, Zenon
<1>2. k \in KeysOf(u)
  BY <1>1 DEF KeysOf
<1> QED
  BY <1>2

(* The row a transaction finds for a key is that of one of its messages.   *)
LEMMA RowOfProperty ==
  ASSUME NEW q, NEW n, NEW k
  PROVE  \/ RowOf(q, n, k) = NoVerdict /\ \A m \in 1..n : q[m].rows[k] = NoVerdict
         \/ RowOf(q, n, k) # NoVerdict
            /\ \E m \in 1..n : q[m].rows[k] = RowOf(q, n, k)
BY DEF RowOf

(* A message is received from the front of a channel.                      *)
LEMMA TakeProperty ==
  ASSUME NEW q \in Seq(Message), NEW n \in 1..Len(q)
  PROVE  /\ SubSeq(q, n + 1, Len(q)) \in Seq(Message)
         /\ Len(SubSeq(q, n + 1, Len(q))) = Len(q) - n
         /\ \A m \in 1..(Len(q) - n) : SubSeq(q, n + 1, Len(q))[m] = q[m + n]
<1>1. Len(q) \in Nat
  OBVIOUS
<1>2. SubSeq(q, n + 1, Len(q)) \in Seq(Message)
  BY <1>1
<1> QED
  BY <1>1, <1>2

(***************************************************************************)
(* Types.                                                                  *)
(***************************************************************************)
(* A position that starts a unit is in it.                                 *)
LEMMA FirstPosition ==
  ASSUME NEW u \in Units
  PROVE  1 <= Len(u)
<1>1. u \in Seq(Keys) \ {<<>>}
  BY ConstantsAssumption
<1> QED
  BY <1>1

LEMMA TypeInit == Init => TypeOK
<1> SUFFICES ASSUME Init PROVE TypeOK
  OBVIOUS
<1>1. InstanceTypes
  BY DEF Init, InstanceTypes, Empty
<1>2. AskerTypes
  BY FirstPosition DEF Init, AskerTypes, Empty
<1>3. BoundTypes
  BY ConstantsAssumption DEF Init, BoundTypes
<1> QED
  BY <1>1, <1>2, <1>3 DEF TypeOK

(* The steps of the instances and of the writer thread.                    *)
LEMMA TypeInstance ==
  ASSUME TypeOK, NEW i \in Instances,
         Open(i) \/ Close(i) \/ Closed(i) \/ Crash(i) \/ Flush(i) \/ Writer(i)
  PROVE  TypeOK'
<1> USE DEF TypeOK
<1>1. CASE Open(i)
  <2>1. InstanceTypes'
    BY <1>1 DEF Open, InstanceTypes, Empty
  <2>2. AskerTypes'
    BY <1>1 DEF Open, AskerTypes, askerVars
  <2>3. BoundTypes'
    BY <1>1, ConstantsAssumption DEF Open, BoundTypes
  <2> QED
    BY <2>1, <2>2, <2>3
<1>2. CASE Close(i)
  BY <1>2 DEF Close, InstanceTypes, AskerTypes, BoundTypes
<1>3. CASE Closed(i)
  BY <1>3 DEF Closed, InstanceTypes, AskerTypes, BoundTypes, askerVars
<1>4. CASE Crash(i)
  BY <1>4 DEF Crash, InstanceTypes, AskerTypes, BoundTypes, Empty
<1>5. CASE Flush(i)
  <2>1. FlushMessage \in Message
    BY DEF FlushMessage, Message, Empty
  <2>2. InstanceTypes'
    BY <1>5, <2>1 DEF Flush, InstanceTypes, Held
  <2>3. AskerTypes' /\ BoundTypes'
    BY <1>5 DEF Flush, AskerTypes, BoundTypes, askerVars
  <2> QED
    BY <2>2, <2>3
<1>6. ASSUME NEW n \in 1..Len(queue[i]), Take(i, n)
      PROVE  /\ queue' \in [Instances -> Seq(Message)]
             /\ flush' \in [Instances -> {"none", "waiting", "done"}]
  BY <1>6, TakeProperty DEF Take, InstanceTypes
<1>7. CASE Commit(i)
  <2>1. PICK n \in 1..Len(queue[i]) : /\ WriteBatch(i, n)
                                      /\ Take(i, n)
                                      /\ UNCHANGED <<open, stored, goal, askerVars, calls, budget>>
    BY <1>7 DEF Commit
  <2>2. \A k \in Keys : RowOf(queue[i], n, k) \in Verdict
    <3> SUFFICES ASSUME NEW k \in Keys PROVE RowOf(queue[i], n, k) \in Verdict
      OBVIOUS
    <3>1. \A m \in 1..n : queue[i][m] \in Message
      BY DEF InstanceTypes
    <3>2. \A m \in 1..n : queue[i][m].rows[k] \in Verdict
      BY <3>1 DEF Message
    <3> QED
      BY <3>2, RowOfProperty
  <2>3. disk' \in [Keys -> Verdict]
    BY <2>1, <2>2 DEF WriteBatch, InstanceTypes
  <2>4. InstanceTypes'
    BY <2>1, <2>3, <1>6 DEF InstanceTypes
  <2>5. AskerTypes' /\ BoundTypes'
    BY <2>1 DEF AskerTypes, BoundTypes, askerVars
  <2> QED
    BY <2>4, <2>5
<1>8. CASE CommitFails(i)
  <2>1. PICK n \in 1..Len(queue[i]) : Take(i, n)
    BY <1>8 DEF CommitFails
  <2>2. InstanceTypes'
    BY <2>1, <1>8, <1>6 DEF CommitFails, InstanceTypes
  <2>3. AskerTypes'
    BY <1>8 DEF CommitFails, AskerTypes, askerVars
  <2>4. BoundTypes'
    <3>1. budget.writes > 0 /\ budget' = [budget EXCEPT !.writes = @ - 1] /\ calls' = calls
      BY <1>8 DEF CommitFails
    <3>2. budget.writes \in 0..MaxWriteFailures /\ MaxWriteFailures \in Nat
      BY ConstantsAssumption DEF BoundTypes
    <3>3. budget.writes - 1 \in 0..MaxWriteFailures
      BY <3>1, <3>2
    <3> QED
      BY <3>1, <3>3 DEF BoundTypes
  <2> QED
    BY <2>2, <2>3, <2>4
<1> QED
  BY <1>1, <1>2, <1>3, <1>4, <1>5, <1>7, <1>8 DEF Writer

(* The steps of an asker.                                                  *)
LEMMA TypeAsker ==
  ASSUME TypeOK, NEW a \in Askers, Ask(a) \/ CacheStep(a) \/ Model(a)
  PROVE  TypeOK'
<1> USE DEF TypeOK
<1>1. CASE Ask(a)
  <2>1. PICK i \in Instances : at' = [at EXCEPT ![a] = i]
    BY <1>1 DEF Ask
  <2>2. PICK u \in Units : unit' = [unit EXCEPT ![a] = u]
    BY <1>1 DEF Ask
  <2>3. \A b \in Askers : pos'[b] <= Len(unit'[b])
    BY <1>1, <2>2, FirstPosition DEF Ask, AskerTypes
  <2>4. before' \in [Askers -> [Keys -> Verdict]] /\ reply' \in [Askers -> [Keys -> Verdict]]
    BY <1>1 DEF Ask, AskerTypes, Empty
  <2>5. AskerTypes'
    BY <1>1, <2>1, <2>2, <2>3, <2>4 DEF Ask, AskerTypes, Goto, Busy
  <2>6. InstanceTypes'
    BY <1>1 DEF Ask, InstanceTypes, instanceVars
  <2>7. BoundTypes'
    <3>1. budget.asks > 0 /\ budget' = [budget EXCEPT !.asks = @ - 1] /\ calls' = calls
      BY <1>1 DEF Ask
    <3>2. budget.asks \in 0..MaxAsks /\ MaxAsks \in Nat
      BY ConstantsAssumption DEF BoundTypes
    <3>3. budget.asks - 1 \in 0..MaxAsks
      BY <3>1, <3>2
    <3> QED
      BY <3>1, <3>3 DEF BoundTypes
  <2> QED
    BY <2>5, <2>6, <2>7
<1>2. ASSUME NEW v \in Verdict, Hit(a, v)
      PROVE  /\ reply' \in [Askers -> [Keys -> Verdict]]
             /\ pos' \in [Askers -> Nat \ {0}]
             /\ \A b \in Askers : pos'[b] <= Len(unit[b])
             /\ pc' \in [Askers -> Busy \union {"idle", "served", "told"}]
  <2>1. reply' \in [Askers -> [Keys -> Verdict]]
    BY <1>2, KeyInUnit DEF Hit, AskerTypes
  <2>2. pos' \in [Askers -> Nat \ {0}] /\ \A b \in Askers : pos'[b] <= Len(unit[b])
    <3>1. unit[a] \in Seq(Keys) /\ Len(unit[a]) \in Nat
      BY ConstantsAssumption DEF AskerTypes
    <3>2. CASE pos[a] < Len(unit[a])
      <4>1. pos' = [pos EXCEPT ![a] = pos[a] + 1]
        BY <1>2, <3>2 DEF Hit
      <4> QED
        BY <3>1, <3>2, <4>1 DEF AskerTypes
    <3>3. CASE ~(pos[a] < Len(unit[a]))
      BY <1>2, <3>3 DEF Hit, AskerTypes
    <3> QED
      BY <3>2, <3>3
  <2>3. pc' \in [Askers -> Busy \union {"idle", "served", "told"}]
    BY <1>2 DEF Hit, Goto, AskerTypes, Busy
  <2> QED
    BY <2>1, <2>2, <2>3
<1>3. CASE LookUp(a)
  <2>1. stored[at[a]][Key(a)] \in Verdict
    BY KeyInUnit DEF InstanceTypes, AskerTypes
  <2>2. CASE stored[at[a]][Key(a)] # NoVerdict
    <3>1. Hit(a, stored[at[a]][Key(a)])
      BY <1>3, <2>2 DEF LookUp
    <3> QED
      BY <1>3, <1>2, <2>1, <3>1 DEF LookUp, InstanceTypes, AskerTypes, BoundTypes, instanceVars
  <2>3. CASE stored[at[a]][Key(a)] = NoVerdict
    BY <1>3, <2>3 DEF LookUp, Goto, InstanceTypes, AskerTypes, BoundTypes, instanceVars, Busy
  <2> QED
    BY <2>2, <2>3
<1>4. CASE ReadHit(a)
  <2>1. disk[Key(a)] \in Verdict
    BY KeyInUnit DEF InstanceTypes
  <2> QED
    BY <1>4, <2>1 DEF ReadHit, Goto, InstanceTypes, AskerTypes, BoundTypes, instanceVars, Busy
<1>5. CASE ReadMiss(a)
  <2>1. InstanceTypes' /\ AskerTypes'
    BY <1>5 DEF ReadMiss, Goto, InstanceTypes, AskerTypes, instanceVars, Busy
  <2>2. BoundTypes'
    BY <1>5, ConstantsAssumption DEF ReadMiss, BoundTypes
  <2> QED
    BY <2>1, <2>2
<1>6. CASE Remember(a)
  <2> DEFINE known == stored[at[a]][Key(a)]
             kept == IF known = NoVerdict THEN seen[a] ELSE known
  <2>1. kept \in Verdict
    BY KeyInUnit DEF InstanceTypes, AskerTypes
  <2>2. Hit(a, kept) /\ stored' = [stored EXCEPT ![at[a]][Key(a)] = kept]
    BY <1>6 DEF Remember
  <2> HIDE DEF kept
  <2>3. stored' \in [Instances -> [Keys -> Verdict]]
    BY <2>1, <2>2, KeyInUnit DEF InstanceTypes, AskerTypes
  <2>4. InstanceTypes' /\ BoundTypes'
    BY <1>6, <2>3 DEF Remember, InstanceTypes, BoundTypes
  <2>5. AskerTypes'
    BY <1>6, <1>2, <2>1, <2>2 DEF Remember, AskerTypes
  <2> QED
    BY <2>4, <2>5
<1>7. CASE ModelAnswers(a)
  <2>1. calls + 1 \in 0..MaxCalls /\ calls + 1 \in Verdict
    BY <1>7, ConstantsAssumption DEF ModelAnswers, BoundTypes
  <2>2. InstanceTypes' /\ BoundTypes'
    BY <1>7, <2>1 DEF ModelAnswers, InstanceTypes, BoundTypes, instanceVars
  <2>3. [k \in Keys |-> IF k \in KeysOf(unit[a]) THEN calls + 1 ELSE NoVerdict] \in [Keys -> Verdict]
    BY <2>1
  <2>4. AskerTypes'
    BY <1>7, <2>3 DEF ModelAnswers, AskerTypes, Goto, Busy
  <2> QED
    BY <2>2, <2>4
<1>8. CASE ModelFails(a)
  BY <1>8 DEF ModelFails, Goto, InstanceTypes, AskerTypes, BoundTypes, instanceVars, Busy
<1>9. CASE Store(a)
  <2>1. rows' \in [Askers -> [Keys -> Verdict]]
    BY <1>9 DEF Store, InstanceTypes, AskerTypes
  <2>2. stored' \in [Instances -> [Keys -> Verdict]]
    BY <1>9 DEF Store, InstanceTypes, AskerTypes
  <2>3. pc' \in [Askers -> Busy \union {"idle", "served", "told"}]
    BY <1>9 DEF Store, AskerTypes, Goto, Busy
  <2> QED
    BY <1>9, <2>1, <2>2, <2>3 DEF Store, InstanceTypes, AskerTypes, BoundTypes
<1>10. CASE Send(a)
  <2>1. RowsMessage(rows[a]) \in Message
    BY DEF RowsMessage, Message, AskerTypes
  <2> QED
    BY <1>10, <2>1 DEF Send, Goto, InstanceTypes, AskerTypes, BoundTypes, Busy
<1> QED
  BY <1>1, <1>3, <1>4, <1>5, <1>6, <1>7, <1>8, <1>9, <1>10 DEF CacheStep, Model

LEMMA TypeStep == TypeOK /\ [Next]_vars => TypeOK'
<1> SUFFICES ASSUME TypeOK, [Next]_vars PROVE TypeOK'
  OBVIOUS
<1>1. CASE UNCHANGED vars
  BY <1>1 DEF vars, instanceVars, askerVars, TypeOK, InstanceTypes, AskerTypes, BoundTypes
<1> QED
  BY <1>1, TypeInstance, TypeAsker DEF Next

(***************************************************************************)
(* The invariant is inductive.                                             *)
(***************************************************************************)
(* Rows stay backed when the file and the map only grow.                   *)
LEMMA BackedStays ==
  ASSUME NEW d, NEW e, NEW s, NEW t, NEW r,
         Backed(d, s, r), Grows(d, e), Grows(s, t)
  PROVE  Backed(e, t, r)
<1>1. \A k \in Keys : r[k] # NoVerdict => r[k] = t[k]
  BY DEF Backed, Grows
<1>2. ASSUME NEW u \in Units PROVE OnFile(e, u) \/ Uniform(u, r)
  BY UnitKeys DEF Backed, Grows, OnFile
<1> QED
  BY <1>1, <1>2 DEF Backed

LEMMA EmptyBacked ==
  ASSUME NEW d, NEW s
  PROVE  Backed(d, s, Empty)
<1>1. \A k \in Keys : Empty[k] = NoVerdict
  BY DEF Empty
<1>2. \A u \in Units : Uniform(u, Empty)
  BY <1>1, UnitKeys DEF Uniform
<1> QED
  BY <1>1, <1>2 DEF Backed

(* What one transaction writes for a unit the file has not: the unit whole *)
(* or nothing of it, as the map of the instance holds it.                  *)
LEMMA BatchBacked ==
  ASSUME TypeOK, Maps, Queued, NEW i \in Instances, NEW n \in 1..Len(queue[i])
  PROVE  Backed(disk, stored[i], [k \in Keys |-> RowOf(queue[i], n, k)])
<1> DEFINE r(k) == RowOf(queue[i], n, k)
<1>1. \A m \in 1..n : m \in 1..Len(queue[i])
  OBVIOUS
<1>2. ASSUME NEW k \in Keys, r(k) # NoVerdict PROVE r(k) = stored[i][k]
  <2>1. PICK m \in 1..n : queue[i][m].rows[k] = r(k)
    BY <1>2, RowOfProperty
  <2> QED
    BY <1>1, <1>2, <2>1 DEF Queued, Backed
<1>3. ASSUME NEW u \in Units, ~OnFile(disk, u), NEW k \in KeysOf(u), NEW l \in KeysOf(u)
      PROVE  r(k) = r(l)
  <2>1. k \in Keys /\ l \in Keys
    BY UnitKeys
  <2>2. \A m \in 1..n : queue[i][m].rows[k] = queue[i][m].rows[l]
    BY <1>1, <1>3 DEF Queued, Backed, Uniform
  <2>3. stored[i][k] = stored[i][l]
    BY <1>3 DEF Maps, Uniform
  <2>4. CASE r(k) = NoVerdict
    <3>1. \A m \in 1..n : queue[i][m].rows[l] = NoVerdict
      BY <2>2, <2>4, RowOfProperty
    <3> QED
      BY <2>4, <3>1, RowOfProperty
  <2>5. CASE r(k) # NoVerdict
    <3>1. PICK m \in 1..n : queue[i][m].rows[k] = r(k)
      BY <2>5, RowOfProperty
    <3>2. queue[i][m].rows[l] # NoVerdict
      BY <2>2, <2>5, <3>1
    <3>3. r(l) # NoVerdict
      BY <3>2, RowOfProperty
    <3> QED
      BY <1>2, <2>1, <2>3, <2>5, <3>3
  <2> QED
    BY <2>4, <2>5
<1> HIDE DEF r
<1>4. \A u \in Units : OnFile(disk, u) \/ Uniform(u, [k \in Keys |-> r(k)])
  BY <1>3, UnitKeys DEF Uniform
<1>5. Backed(disk, stored[i], [k \in Keys |-> r(k)])
  BY <1>2, <1>4 DEF Backed
<1> QED
  BY <1>5 DEF r

LEMMA InvInit == Init => IInv
<1> SUFFICES ASSUME Init PROVE IInv
  OBVIOUS
<1>1. TypeOK
  BY TypeInit
<1>2. Sessions /\ Channels /\ NeverAnswersTwoWays /\ Sending /\ Reading /\ Evaluated /\ Queued
  BY DEF Init, Sessions, Channels, NeverAnswersTwoWays, Sending, Reading, Evaluated, Queued
<1>3. \A u \in Units : Uniform(u, Empty)
  BY UnitKeys DEF Uniform, Empty
<1>4. FileHoldsUnitsWhole /\ Maps
  BY <1>3 DEF Init, FileHoldsUnitsWhole, Maps, Uniform
<1> QED
  BY <1>1, <1>2, <1>4 DEF IInv

(* The steps of the instances.                                             *)
LEMMA InvInstance ==
  ASSUME IInv, NEW i \in Instances, Open(i) \/ Close(i) \/ Closed(i) \/ Crash(i) \/ Flush(i)
  PROVE  IInv'
<1> USE DEF IInv
<1>1. TypeOK' /\ InstanceTypes /\ AskerTypes
  BY TypeInstance DEF TypeOK
<1> DEFINE Ended == Open(i) \/ Crash(i)
<1>2. CASE Ended
  <2>1. /\ disk' = disk /\ UNCHANGED <<at, unit, pos, reply, seen, rows>>
        /\ stored' = [stored EXCEPT ![i] = Empty]
        /\ queue'[i] = <<>>
        /\ \A h \in Instances \ {i} : queue'[h] = queue[h] /\ open'[h] = open[h]
        /\ \A a \in Askers : pc'[a] = IF at[a] = i THEN "idle" ELSE pc[a]
    BY <1>1, <1>2 DEF Open, Crash, InstanceTypes, AskerTypes, Sessions, Channels, askerVars
  <2>2. Sessions'
    BY <1>1, <2>1 DEF Sessions, AskerTypes
  <2>3. Channels'
    BY <2>1 DEF Channels
  <2>4. NeverAnswersTwoWays'
    BY <1>1, <2>1 DEF NeverAnswersTwoWays, AskerTypes, InstanceTypes, Held
  <2>5. FileHoldsUnitsWhole'
    BY <2>1 DEF FileHoldsUnitsWhole
  <2>6. Maps'
    <3>1. \A u \in Units : Uniform(u, Empty)
      BY UnitKeys DEF Uniform, Empty
    <3> QED
      BY <1>1, <2>1, <3>1 DEF Maps, InstanceTypes
  <2>7. Queued'
    BY <1>1, <2>1 DEF Queued, InstanceTypes
  <2>8. Sending'
    BY <1>1, <2>1 DEF Sending, AskerTypes, InstanceTypes
  <2>9. Reading' /\ Evaluated'
    BY <2>1 DEF Reading, Evaluated, Key
  <2> QED
    BY <1>1, <2>2, <2>3, <2>4, <2>5, <2>6, <2>7, <2>8, <2>9
<1>3. CASE Close(i)
  <2>1. /\ UNCHANGED <<disk, stored, queue, at, unit, pos, reply, seen, rows>>
        /\ \A a \in Askers : pc'[a] = IF at[a] = i THEN "idle" ELSE pc[a]
        /\ open' = [open EXCEPT ![i] = "closing"]
    BY <1>3 DEF Close
  <2>2. Sessions' /\ Channels'
    BY <1>1, <2>1 DEF Sessions, Channels, AskerTypes, InstanceTypes
  <2>3. NeverAnswersTwoWays' /\ FileHoldsUnitsWhole' /\ Maps'
    BY <2>1 DEF NeverAnswersTwoWays, FileHoldsUnitsWhole, Maps
  <2>4. Queued' /\ Sending'
    BY <2>1 DEF Queued, Sending
  <2>5. Reading' /\ Evaluated'
    BY <2>1 DEF Reading, Evaluated, Key
  <2> QED
    BY <1>1, <2>2, <2>3, <2>4, <2>5
<1>4. CASE Closed(i)
  <2>1. /\ UNCHANGED <<disk, stored, queue, pc, at, unit, pos, reply, seen, rows>>
        /\ open' = [open EXCEPT ![i] = "closed"]
        /\ open[i] = "closing" /\ queue[i] = <<>>
    BY <1>4 DEF Closed, askerVars
  <2>2. Sessions' /\ Channels'
    BY <1>1, <2>1 DEF Sessions, Channels, AskerTypes, InstanceTypes
  <2>3. NeverAnswersTwoWays' /\ FileHoldsUnitsWhole' /\ Maps'
    BY <2>1 DEF NeverAnswersTwoWays, FileHoldsUnitsWhole, Maps
  <2>4. Queued' /\ Sending' /\ Reading' /\ Evaluated'
    BY <2>1 DEF Queued, Sending, Reading, Evaluated, Key
  <2> QED
    BY <1>1, <2>2, <2>3, <2>4
<1>5. CASE Flush(i)
  <2>1. /\ UNCHANGED <<disk, open, stored, pc, at, unit, pos, reply, seen, rows>>
        /\ queue' = [queue EXCEPT ![i] = Append(queue[i], FlushMessage)]
        /\ open[i] = "open"
    BY <1>5 DEF Flush, askerVars
  <2>2. Sessions' /\ Channels' /\ NeverAnswersTwoWays' /\ FileHoldsUnitsWhole' /\ Maps'
    BY <1>1, <2>1 DEF Sessions, Channels, NeverAnswersTwoWays, FileHoldsUnitsWhole, Maps,
                      InstanceTypes
  <2>3. Queued'
    <3> SUFFICES ASSUME NEW h \in Instances, NEW n \in 1..Len(queue'[h])
                 PROVE  Backed(disk, stored[h], queue'[h][n].rows)
      BY <2>1 DEF Queued
    <3>1. CASE n \in 1..Len(queue[h])
      BY <1>1, <2>1, <3>1 DEF Queued, InstanceTypes
    <3>2. CASE n \notin 1..Len(queue[h])
      BY <1>1, <2>1, <3>2, EmptyBacked DEF InstanceTypes, FlushMessage
    <3> QED
      BY <3>1, <3>2
  <2>4. Sending' /\ Reading' /\ Evaluated'
    BY <2>1 DEF Sending, Reading, Evaluated, Key
  <2> QED
    BY <1>1, <2>2, <2>3, <2>4
<1> QED
  BY <1>2, <1>3, <1>4, <1>5

(* The steps of the writer: a transaction, or one that fails.              *)
LEMMA InvWriter ==
  ASSUME IInv, NEW i \in Instances, Writer(i)
  PROVE  IInv'
<1> USE DEF IInv
<1>1. TypeOK' /\ InstanceTypes /\ AskerTypes
  BY TypeInstance DEF TypeOK
<1>2. PICK n \in 1..Len(queue[i]) :
        /\ Take(i, n)
        /\ WriteBatch(i, n) \/ disk' = disk
        /\ UNCHANGED <<open, stored, pc, at, unit, pos, reply, seen, rows>>
  BY DEF Writer, Commit, CommitFails, askerVars
<1> DEFINE batch == [k \in Keys |-> RowOf(queue[i], n, k)]
<1>3. disk' = disk \/ disk' = [k \in Keys |-> IF disk[k] = NoVerdict THEN batch[k] ELSE disk[k]]
  BY <1>2 DEF WriteBatch
<1>4. Grows(disk, disk') /\ \A h \in Instances : Grows(stored[h], stored[h])
  BY <1>3 DEF Grows
<1>5. Backed(disk, stored[i], batch)
  BY BatchBacked
<1>6. FileHoldsUnitsWhole'
  <2> HIDE DEF batch
  <2> SUFFICES ASSUME NEW u \in Units, NEW k \in KeysOf(u), NEW l \in KeysOf(u)
               PROVE  disk'[k] = disk'[l]
    BY DEF FileHoldsUnitsWhole
  <2>1. disk[k] = disk[l] /\ k \in Keys /\ l \in Keys
    BY UnitKeys DEF FileHoldsUnitsWhole
  <2>2. CASE disk[k] # NoVerdict
    BY <1>4, <2>1, <2>2 DEF Grows
  <2>3. CASE disk[k] = NoVerdict
    BY <1>3, <1>5, <2>1, <2>3 DEF Backed, OnFile, Uniform
  <2> QED
    BY <2>2, <2>3
<1>7. Maps'
  BY <1>2, <1>4, UnitKeys DEF Maps, OnFile, Grows
<1>8. Queued'
  <2> SUFFICES ASSUME NEW h \in Instances, NEW m \in 1..Len(queue'[h])
               PROVE  Backed(disk', stored[h], queue'[h][m].rows)
    BY <1>2 DEF Queued
  <2>1. \E l \in 1..Len(queue[h]) : queue'[h][m] = queue[h][l]
    <3>1. CASE h # i
      BY <1>1, <1>2, <3>1 DEF Take, InstanceTypes
    <3>2. CASE h = i
      <4>1. queue'[i] = SubSeq(queue[i], n + 1, Len(queue[i])) /\ Len(queue[i]) \in Nat
        BY <1>1, <1>2 DEF Take, InstanceTypes
      <4>2. m \in 1..(Len(queue[i]) - n) /\ queue'[i][m] = queue[i][m + n]
        BY <1>1, <3>2, <4>1, TakeProperty DEF InstanceTypes
      <4>3. m + n \in 1..Len(queue[i])
        BY <4>1, <4>2
      <4> QED
        BY <3>2, <4>2, <4>3
    <3> QED
      BY <3>1, <3>2
  <2> QED
    BY <1>4, <2>1, BackedStays DEF Queued
<1>9. Sending'
  BY <1>1, <1>2, <1>4, BackedStays DEF Sending, AskerTypes
<1>10. Channels'
  <2> SUFFICES ASSUME NEW h \in Instances, open[h] = "closed" PROVE queue'[h] = <<>>
    BY <1>2 DEF Channels
  <2>1. queue[h] = <<>>
    BY DEF Channels
  <2> QED
    BY <1>1, <1>2, <2>1 DEF Take, InstanceTypes
<1>11. Sessions' /\ NeverAnswersTwoWays' /\ Evaluated'
  BY <1>2 DEF Sessions, NeverAnswersTwoWays, Evaluated
<1>12. Reading'
  <2> SUFFICES ASSUME NEW a \in Askers, pc[a] = "remembering"
               PROVE  seen[a] # NoVerdict /\ disk'[Key(a)] = seen[a]
    BY <1>2 DEF Reading, Key
  <2>1. seen[a] # NoVerdict /\ disk[Key(a)] = seen[a]
    BY DEF Reading
  <2> QED
    BY <1>4, <2>1, KeyInUnit DEF Grows
<1> QED
  BY <1>1, <1>6, <1>7, <1>8, <1>9, <1>10, <1>11, <1>12

(* The steps of an asker that change neither the file nor a map.           *)
LEMMA InvQuietAsker ==
  ASSUME IInv, NEW a \in Askers,
         Ask(a) \/ LookUp(a) \/ ReadHit(a) \/ ReadMiss(a) \/ Model(a) \/ Send(a)
  PROVE  IInv'
<1> USE DEF IInv
<1>1. TypeOK' /\ InstanceTypes /\ AskerTypes
  BY TypeAsker DEF TypeOK, CacheStep
<1>2. UNCHANGED <<disk, open, stored>>
  BY DEF Ask, LookUp, ReadHit, ReadMiss, Model, ModelAnswers, ModelFails, Send, instanceVars
<1>3. FileHoldsUnitsWhole' /\ Maps'
  BY <1>2 DEF FileHoldsUnitsWhole, Maps
<1>4. ASSUME UNCHANGED queue PROVE Channels' /\ Queued'
  BY <1>2, <1>4 DEF Channels, Queued
<1>5. ASSUME /\ pc'[a] \notin {"storing", "sending"}
             /\ UNCHANGED <<at, unit, rows>>
             /\ \A b \in Askers \ {a} : pc'[b] = pc[b] /\ reply'[b] = reply[b]
      PROVE  Sending' /\ Evaluated'
  BY <1>2, <1>5 DEF Sending, Evaluated
<1>6. CASE Ask(a)
  <2>1. PICK i \in Instances : open[i] = "open" /\ at' = [at EXCEPT ![a] = i]
    BY <1>6 DEF Ask
  <2>2. /\ UNCHANGED <<queue, seen, rows>>
        /\ pc' = [pc EXCEPT ![a] = "looking"]
        /\ reply' = [reply EXCEPT ![a] = Empty]
        /\ \A b \in Askers \ {a} : unit'[b] = unit[b] /\ pos'[b] = pos[b] /\ at'[b] = at[b]
    BY <1>1, <1>6 DEF Ask, Goto, instanceVars, AskerTypes
  <2>7. pc'[a] = "looking" /\ \A b \in Askers \ {a} : pc'[b] = pc[b] /\ reply'[b] = reply[b]
    BY <1>1, <2>2 DEF AskerTypes
  <2>3. Sessions'
    BY <1>1, <1>2, <2>1, <2>2 DEF Sessions, AskerTypes
  <2>4. NeverAnswersTwoWays'
    BY <1>1, <1>2, <2>2 DEF NeverAnswersTwoWays, Held, Empty, AskerTypes
  <2>5. Sending' /\ Evaluated'
    BY <1>2, <2>2, <2>7 DEF Sending, Evaluated
  <2>6. Reading'
    BY <1>1, <1>2, <2>2 DEF Reading, Key, AskerTypes
  <2> QED
    BY <1>1, <1>3, <1>4, <2>2, <2>3, <2>4, <2>5, <2>6
<1>7. CASE LookUp(a)
  <2> DEFINE known == stored[at[a]][Key(a)]
  <2>1. UNCHANGED <<queue, at, unit, seen, rows>> /\ pc[a] = "looking"
    BY <1>7 DEF LookUp, instanceVars
  <2>2. \/ UNCHANGED <<reply, pos>> /\ pc' = [pc EXCEPT ![a] = "reading"]
        \/ /\ reply' = [reply EXCEPT ![a][Key(a)] = known]
           /\ \E w \in {"looking", "served"} : pc' = [pc EXCEPT ![a] = w]
           /\ \A b \in Askers \ {a} : pos'[b] = pos[b]
    BY <1>1, <1>7 DEF LookUp, Hit, Goto, AskerTypes
  <2>3. pc'[a] \in {"looking", "reading", "served"} /\ \A b \in Askers \ {a} : pc'[b] = pc[b]
    BY <1>1, <2>2 DEF AskerTypes
  <2>4. Sessions'
    BY <1>2, <2>1, <2>3 DEF Sessions
  <2>5. NeverAnswersTwoWays'
    <3>1. \A b \in Askers \ {a} : reply'[b] = reply[b]
      BY <1>1, <2>2 DEF AskerTypes
    <3>2. \A k \in Held(reply'[a]) : reply'[a][k] = stored[at[a]][k]
      <4> SUFFICES ASSUME NEW k \in Keys, reply'[a][k] # NoVerdict
                   PROVE  reply'[a][k] = stored[at[a]][k]
        BY DEF Held
      <4>1. k # Key(a) => reply'[a][k] = reply[a][k]
        BY <1>1, <2>2, KeyInUnit DEF AskerTypes
      <4>2. reply[a][k] # NoVerdict => reply[a][k] = stored[at[a]][k]
        BY <2>1 DEF NeverAnswersTwoWays, Held
      <4> QED
        BY <1>1, <2>2, <4>1, <4>2, KeyInUnit DEF AskerTypes
    <3> QED
      BY <1>2, <2>1, <2>3, <3>1, <3>2 DEF NeverAnswersTwoWays
  <2>6. Sending' /\ Evaluated'
    BY <1>1, <1>5, <2>1, <2>2, <2>3 DEF AskerTypes
  <2>7. Reading'
    BY <1>2, <2>1, <2>2, <2>3 DEF Reading, Key
  <2> QED
    BY <1>1, <1>3, <1>4, <2>1, <2>4, <2>5, <2>6, <2>7
<1>8. CASE ReadHit(a) \/ ReadMiss(a)
  <2>1. /\ UNCHANGED <<queue, at, unit, pos, reply, rows>>
        /\ pc[a] = "reading"
        /\ \A b \in Askers \ {a} : pc'[b] = pc[b] /\ seen'[b] = seen[b]
        /\ \/ pc'[a] = "asking"
           \/ pc'[a] = "remembering" /\ disk[Key(a)] # NoVerdict /\ seen'[a] = disk[Key(a)]
    BY <1>1, <1>8 DEF ReadHit, ReadMiss, Goto, instanceVars, AskerTypes
  <2>2. Sessions' /\ NeverAnswersTwoWays'
    BY <1>2, <2>1 DEF Sessions, NeverAnswersTwoWays
  <2>3. Sending' /\ Evaluated'
    BY <1>5, <2>1
  <2>4. Reading'
    BY <1>2, <2>1 DEF Reading, Key
  <2> QED
    BY <1>1, <1>3, <1>4, <2>1, <2>2, <2>3, <2>4
<1>9. CASE ModelAnswers(a)
  <2>1. /\ UNCHANGED <<queue, at, unit, pos, seen, rows>>
        /\ pc[a] = "asking" /\ pc' = [pc EXCEPT ![a] = "storing"]
        /\ reply' = [reply EXCEPT ![a] = [k \in Keys |-> IF k \in KeysOf(unit[a])
                                                         THEN calls + 1 ELSE NoVerdict]]
    BY <1>9 DEF ModelAnswers, Goto, instanceVars
  <2>2. calls + 1 \in 1..MaxCalls
    BY <1>9, ConstantsAssumption DEF ModelAnswers, TypeOK, BoundTypes
  <2>3. Sessions' /\ NeverAnswersTwoWays'
    BY <1>1, <1>2, <2>1 DEF Sessions, NeverAnswersTwoWays, AskerTypes
  <2>4. Sending' /\ Reading'
    BY <1>1, <1>2, <2>1 DEF Sending, Reading, Key, AskerTypes
  <2>5. Evaluated'
    <3>1. reply'[a] = [k \in Keys |-> IF k \in KeysOf(unit'[a]) THEN calls + 1 ELSE NoVerdict]
      BY <1>1, <2>1 DEF AskerTypes
    <3>2. \A b \in Askers \ {a} :
             pc'[b] = pc[b] /\ reply'[b] = reply[b] /\ unit'[b] = unit[b]
      BY <1>1, <2>1 DEF AskerTypes
    <3> QED
      BY <2>2, <3>1, <3>2 DEF Evaluated
  <2> QED
    BY <1>1, <1>3, <1>4, <2>1, <2>3, <2>4, <2>5
<1>10. CASE ModelFails(a)
  <2>1. /\ UNCHANGED <<queue, at, unit, pos, reply, seen, rows>>
        /\ pc' = [pc EXCEPT ![a] = "idle"]
    BY <1>10 DEF ModelFails, Goto, instanceVars
  <2>2. pc'[a] = "idle" /\ \A b \in Askers \ {a} : pc'[b] = pc[b]
    BY <1>1, <2>1 DEF AskerTypes
  <2>3. Sessions' /\ NeverAnswersTwoWays' /\ Reading'
    BY <1>2, <2>1, <2>2 DEF Sessions, NeverAnswersTwoWays, Reading, Key
  <2>4. Sending' /\ Evaluated'
    BY <1>5, <2>1, <2>2
  <2> QED
    BY <1>1, <1>3, <1>4, <2>1, <2>3, <2>4
<1>11. CASE Send(a)
  <2>1. /\ UNCHANGED <<at, unit, pos, reply, seen, rows>>
        /\ pc[a] = "sending" /\ pc' = [pc EXCEPT ![a] = "told"]
        /\ queue' = [queue EXCEPT ![at[a]] = Append(queue[at[a]], RowsMessage(rows[a]))]
    BY <1>11 DEF Send, Goto
  <2>2. pc'[a] = "told" /\ \A b \in Askers \ {a} : pc'[b] = pc[b]
    BY <1>1, <2>1 DEF AskerTypes
  <2>3. Sessions' /\ NeverAnswersTwoWays' /\ Reading'
    BY <1>2, <2>1, <2>2 DEF Sessions, NeverAnswersTwoWays, Reading, Key
  <2>4. Sending' /\ Evaluated'
    BY <1>5, <2>1, <2>2
  <2>5. open[at[a]] = "open"
    BY <2>1 DEF Sessions
  <2>6. Channels'
    BY <1>1, <1>2, <2>1, <2>5 DEF Channels, InstanceTypes
  <2>7. Backed(disk, stored[at[a]], rows[a])
    BY <2>1 DEF Sending
  <2>8. Queued'
    <3> SUFFICES ASSUME NEW h \in Instances, NEW n \in 1..Len(queue'[h])
                 PROVE  Backed(disk, stored[h], queue'[h][n].rows)
      BY <1>2 DEF Queued
    <3>1. CASE n \in 1..Len(queue[h])
      BY <1>1, <2>1, <3>1 DEF Queued, InstanceTypes, AskerTypes
    <3>2. CASE n \notin 1..Len(queue[h])
      BY <1>1, <2>1, <2>7, <3>2 DEF InstanceTypes, RowsMessage
    <3> QED
      BY <3>1, <3>2
  <2> QED
    BY <1>1, <1>3, <2>3, <2>4, <2>6, <2>8
<1> QED
  BY <1>6, <1>7, <1>8, <1>9, <1>10, <1>11 DEF Model

(* The steps that put verdicts into a map.                                 *)
LEMMA MapGrows ==
  ASSUME IInv, NEW a \in Askers, Remember(a) \/ Store(a)
  PROVE  /\ \A i \in Instances : Grows(stored[i], stored'[i])
         /\ \A i \in Instances \ {at[a]} : stored'[i] = stored[i]
<1>1. InstanceTypes /\ AskerTypes /\ Key(a) \in Keys
  BY KeyInUnit DEF IInv, TypeOK
<1>2. CASE Remember(a)
  BY <1>1, <1>2 DEF Remember, Grows, InstanceTypes, AskerTypes
<1>3. CASE Store(a)
  BY <1>1, <1>3 DEF Store, Grows, InstanceTypes, AskerTypes
<1> QED
  BY <1>2, <1>3

LEMMA InvMapAsker ==
  ASSUME IInv, NEW a \in Askers, Remember(a) \/ Store(a)
  PROVE  IInv'
<1> USE DEF IInv
<1>1. TypeOK' /\ InstanceTypes /\ AskerTypes
  BY TypeAsker DEF TypeOK, CacheStep
<1>2. UNCHANGED <<disk, open, queue, at, unit, seen>>
  BY DEF Remember, Store
<1>3. /\ \A b \in Askers \ {a} : /\ pc'[b] = pc[b] /\ reply'[b] = reply[b]
                                /\ rows'[b] = rows[b] /\ pos'[b] = pos[b]
      /\ Grows(disk, disk)
  BY <1>1 DEF Remember, Store, Hit, Goto, AskerTypes, Grows
<1>4. pc[a] \in {"remembering", "storing"} /\ open[at[a]] = "open"
  BY DEF Remember, Store, Sessions
<1>5. FileHoldsUnitsWhole' /\ Sessions' /\ Channels'
  BY <1>2, <1>3, <1>4 DEF FileHoldsUnitsWhole, Sessions, Channels
<1>6. Queued'
  BY <1>2, <1>3, MapGrows, BackedStays DEF Queued
<1>7. \A b \in Askers \ {a} :
         pc'[b] = "sending" => Backed(disk, stored'[at[b]], rows'[b])
  BY <1>1, <1>3, MapGrows, BackedStays DEF Sending, AskerTypes
<1>8. \A b \in Askers \ {a} :
         pc'[b] \in {"looking", "reading", "remembering", "served"} =>
           \A k \in Held(reply'[b]) : reply'[b][k] = stored'[at[b]][k]
  <2> SUFFICES ASSUME NEW b \in Askers \ {a},
                      pc[b] \in {"looking", "reading", "remembering", "served"},
                      NEW k \in Keys, reply[b][k] # NoVerdict
               PROVE  reply[b][k] = stored'[at[b]][k]
    BY <1>3 DEF Held
  <2>1. reply[b][k] = stored[at[b]][k] /\ at[b] \in Instances
    BY <1>1 DEF NeverAnswersTwoWays, Held, AskerTypes
  <2> QED
    BY <2>1, MapGrows DEF Grows
<1>9. CASE Remember(a)
  <2> DEFINE known == stored[at[a]][Key(a)]
             kept == IF known = NoVerdict THEN seen[a] ELSE known
  <2>1. /\ stored' = [stored EXCEPT ![at[a]][Key(a)] = kept]
        /\ reply' = [reply EXCEPT ![a][Key(a)] = kept]
        /\ \E w \in {"looking", "served"} : pc' = [pc EXCEPT ![a] = w]
        /\ pc[a] = "remembering" /\ rows' = rows
    BY <1>9 DEF Remember, Hit, Goto
  <2>2. pc'[a] \in {"looking", "served"} /\ Key(a) \in Keys /\ Key(a) \in KeysOf(unit[a])
    BY <1>1, <2>1, KeyInUnit DEF AskerTypes
  <2>3. OnFile(disk, unit[a]) /\ unit[a] \in Units
    <3>1. disk[Key(a)] # NoVerdict
      BY <2>1 DEF Reading
    <3>2. unit[a] \in Units
      BY <1>1 DEF AskerTypes
    <3> QED
      BY <2>2, <3>1, <3>2 DEF FileHoldsUnitsWhole, OnFile
  <2>4. Maps'
    <3> SUFFICES ASSUME NEW i \in Instances, NEW u \in Units, ~OnFile(disk, u)
                 PROVE  Uniform(u, stored'[i])
      BY <1>2 DEF Maps
    <3>1. Uniform(u, stored[i])
      BY DEF Maps
    <3>2. Key(a) \notin KeysOf(u)
      BY <2>2, <2>3, UnitsDisjoint
    <3>3. \A k \in KeysOf(u) : stored'[i][k] = stored[i][k]
      BY <1>1, <2>1, <3>2, UnitKeys DEF InstanceTypes, AskerTypes
    <3> QED
      BY <3>1, <3>3 DEF Uniform
  <2>5. \A k \in Held(reply'[a]) : reply'[a][k] = stored'[at[a]][k]
    <3> HIDE DEF kept
    <3> SUFFICES ASSUME NEW k \in Keys, reply'[a][k] # NoVerdict
                 PROVE  reply'[a][k] = stored'[at[a]][k]
      BY DEF Held
    <3>1. CASE k = Key(a)
      BY <1>1, <2>1, <2>2, <3>1 DEF InstanceTypes, AskerTypes
    <3>2. CASE k # Key(a)
      BY <1>1, <2>1, <2>2, <3>2 DEF NeverAnswersTwoWays, Held, InstanceTypes, AskerTypes
    <3> QED
      BY <3>1, <3>2
  <2>6. NeverAnswersTwoWays'
    BY <1>2, <1>8, <2>5 DEF NeverAnswersTwoWays
  <2>7. Sending' /\ Reading' /\ Evaluated'
    BY <1>2, <1>3, <1>7, <2>2 DEF Sending, Reading, Evaluated, Key
  <2> QED
    BY <1>1, <1>5, <1>6, <2>4, <2>6, <2>7
<1>10. CASE Store(a)
  <2> DEFINE known == stored[at[a]]
             fresh == [k \in Keys |-> IF known[k] = NoVerdict THEN reply[a][k] ELSE NoVerdict]
             merged == [k \in Keys |-> IF known[k] = NoVerdict THEN reply[a][k] ELSE known[k]]
  <2>1. /\ rows' = [rows EXCEPT ![a] = fresh]
        /\ stored' = [stored EXCEPT ![at[a]] = merged]
        /\ UNCHANGED <<reply, pos>>
        /\ pc[a] = "storing" /\ \E w \in {"told", "sending"} : pc' = [pc EXCEPT ![a] = w]
    BY <1>10 DEF Store, Goto
  <2>2. pc'[a] \in {"told", "sending"} /\ stored'[at[a]] = merged /\ rows'[a] = fresh
    BY <1>1, <2>1 DEF AskerTypes, InstanceTypes
  <2>3. PICK c \in 1..MaxCalls :
          reply[a] = [k \in Keys |-> IF k \in KeysOf(unit[a]) THEN c ELSE NoVerdict]
    BY <2>1 DEF Evaluated
  <2>4. \A u \in Units : Uniform(u, reply[a])
    <3> SUFFICES ASSUME NEW u \in Units, NEW k \in KeysOf(u), NEW l \in KeysOf(u)
                 PROVE  reply[a][k] = reply[a][l]
      BY DEF Uniform
    <3>1. k \in KeysOf(unit[a]) <=> l \in KeysOf(unit[a])
      BY <1>1, UnitsDisjoint DEF AskerTypes
    <3> QED
      BY <2>3, <3>1, UnitKeys
  <2>5. \A u \in Units : OnFile(disk, u) \/ (Uniform(u, merged) /\ Uniform(u, fresh))
    <3>1. ASSUME NEW u \in Units, ~OnFile(disk, u), NEW k \in KeysOf(u), NEW l \in KeysOf(u)
          PROVE  merged[k] = merged[l] /\ fresh[k] = fresh[l]
      <4>1. known[k] = known[l] /\ reply[a][k] = reply[a][l] /\ k \in Keys /\ l \in Keys
        BY <1>1, <2>4, <3>1, UnitKeys DEF Maps, Uniform, AskerTypes
      <4> QED
        BY <4>1
    <3> HIDE DEF merged, fresh
    <3>2. ASSUME NEW u \in Units, ~OnFile(disk, u)
          PROVE  Uniform(u, merged) /\ Uniform(u, fresh)
      BY <3>1, <3>2 DEF Uniform
    <3> QED
      BY <3>2
  <2>6. Backed(disk, merged, fresh)
    BY <2>5 DEF Backed
  <2>7. Maps'
    BY <1>2, <2>2, <2>5, MapGrows DEF Maps
  <2>8. Sending'
    BY <1>2, <1>7, <2>2, <2>6 DEF Sending
  <2>9. NeverAnswersTwoWays' /\ Reading' /\ Evaluated'
    <3>1. NeverAnswersTwoWays'
      BY <1>2, <1>8, <2>2 DEF NeverAnswersTwoWays
    <3>2. Reading'
      BY <1>2, <1>3, <2>2 DEF Reading, Key
    <3>3. Evaluated'
      BY <1>2, <1>3, <2>2 DEF Evaluated
    <3> QED
      BY <3>1, <3>2, <3>3
  <2> QED
    BY <1>1, <1>5, <1>6, <2>7, <2>8, <2>9
<1> QED
  BY <1>9, <1>10

LEMMA InvStep == IInv /\ [Next]_vars => IInv'
<1> SUFFICES ASSUME IInv, [Next]_vars PROVE IInv'
  OBVIOUS
<1>1. CASE UNCHANGED vars
  <2>1. TypeOK'
    BY <1>1, TypeStep DEF IInv
  <2>2. UNCHANGED <<disk, open, stored, queue, pc, at, unit, pos, reply, seen, rows>>
    BY <1>1 DEF vars, instanceVars, askerVars
  <2>3. (Sessions /\ Channels /\ NeverAnswersTwoWays /\ FileHoldsUnitsWhole /\ Maps)'
    BY <2>2 DEF IInv, Sessions, Channels, NeverAnswersTwoWays, FileHoldsUnitsWhole, Maps
  <2>4. (Queued /\ Sending /\ Reading /\ Evaluated)'
    BY <2>2 DEF IInv, Queued, Sending, Reading, Evaluated, Key
  <2> QED
    BY <2>1, <2>3, <2>4 DEF IInv
<1> QED
  BY <1>1, InvInstance, InvWriter, InvQuietAsker, InvMapAsker DEF Next, CacheStep

(***************************************************************************)
(* Theorems.                                                               *)
(***************************************************************************)
(* The strengthened invariant of the cache holds in every state.           *)
THEOREM Inductive == Spec => []IInv
<1>1. Init => IInv
  BY InvInit
<1>2. IInv /\ [Next]_vars => IInv'
  BY InvStep
<1> QED
  BY <1>1, <1>2, PTL DEF Spec

(* The state of the cache and of its askers is well typed.                 *)
THEOREM TypeCorrect == Spec => []TypeOK
<1>1. IInv => TypeOK
  BY DEF IInv
<1> QED
  BY <1>1, Inductive, PTL

(* No instance ever answers two ways for a key (SqliteCache::get, store).  *)
THEOREM FirstEvaluationWins == Spec => []NeverAnswersTwoWays
<1>1. IInv => NeverAnswersTwoWays
  BY DEF IInv
<1> QED
  BY <1>1, Inductive, PTL

(* The file never holds part of a unit, nor a unit mixed from two model    *)
(* calls, however many instances write it and whatever fails (write_loop,  *)
(* write_batch).                                                           *)
THEOREM UnitsWholeOnFile == Spec => []FileHoldsUnitsWhole
<1>1. IInv => FileHoldsUnitsWhole
  BY DEF IInv
<1> QED
  BY <1>1, Inductive, PTL

(* A transaction persists units the file has none of.                      *)
LEMMA CommitPersists ==
  ASSUME IInv, NEW i \in Instances, NEW n \in 1..Len(queue[i]), WriteBatch(i, n),
         stored' = stored
  PROVE  \E written \in SUBSET Units : Contract!Persist(i, written)
<1> DEFINE batch == [k \in Keys |-> RowOf(queue[i], n, k)]
           written == {u \in Units : \A k \in KeysOf(u) :
                                        disk[k] = NoVerdict /\ batch[k] # NoVerdict}
<1>1. Backed(disk, stored[i], batch)
  BY BatchBacked DEF IInv
<1>2. disk' = [k \in Keys |-> IF disk[k] = NoVerdict THEN batch[k] ELSE disk[k]]
  BY DEF WriteBatch
<1>3. disk \in [Keys -> Verdict] /\ FileHoldsUnitsWhole
  BY DEF IInv, TypeOK, InstanceTypes
<1> HIDE DEF batch
<1>4. \A u \in written : \A k \in KeysOf(u) : disk[k] = 0 /\ stored[i][k] # 0
  BY <1>1, UnitKeys DEF Backed
<1>5. ASSUME NEW k \in Keys
      PROVE  disk'[k] = IF \E u \in written : k \in KeysOf(u) THEN stored[i][k] ELSE disk[k]
  <2>1. PICK u \in Units : k \in KeysOf(u)
    BY UnitOfKey
  <2>2. CASE disk[k] # NoVerdict
    BY <1>2, <2>2
  <2>3. CASE disk[k] = NoVerdict /\ batch[k] = NoVerdict
    BY <1>2, <2>3
  <2>4. CASE disk[k] = NoVerdict /\ batch[k] # NoVerdict
    <3>1. ~OnFile(disk, u)
      BY <2>1, <2>4 DEF OnFile
    <3>2. \A l \in KeysOf(u) : disk[l] = NoVerdict /\ batch[l] # NoVerdict
      BY <1>1, <1>3, <2>1, <2>4, <3>1 DEF FileHoldsUnitsWhole, Backed, Uniform
    <3>3. u \in written
      BY <3>2
    <3>4. batch[k] = stored[i][k]
      BY <1>1, <2>4 DEF Backed
    <3> QED
      BY <1>2, <2>1, <2>4, <3>3, <3>4
  <2> QED
    BY <2>2, <2>3, <2>4
<1>6. disk' = [k \in Keys |-> IF \E u \in written : k \in KeysOf(u)
                              THEN stored[i][k] ELSE disk[k]]
  BY <1>2, <1>5
<1>7. written \in SUBSET Units
  OBVIOUS
<1> HIDE DEF written
<1>8. Contract!Persist(i, written)
  BY <1>4, <1>6 DEF Contract!Persist, Contract!KeysIn, KeysOf
<1> QED
  BY <1>7, <1>8

(* Every step is one of the contract's or changes neither file nor maps.   *)
LEMMA StepImplements ==
  IInv /\ [Next]_vars => [Contract!ContractNext]_<<disk, stored>>
<1> SUFFICES ASSUME IInv, [Next]_vars
             PROVE  Contract!ContractNext \/ UNCHANGED <<disk, stored>>
  OBVIOUS
<1>1. InstanceTypes /\ AskerTypes
  BY DEF IInv, TypeOK
<1>2. ASSUME NEW i \in Instances, Open(i) \/ Crash(i) PROVE Contract!Forget(i)
  BY <1>2 DEF Open, Crash, Contract!Forget, Empty
<1>3. ASSUME NEW i \in Instances, Close(i) \/ Closed(i) \/ Flush(i) \/ CommitFails(i)
      PROVE  UNCHANGED <<disk, stored>>
  BY <1>3 DEF Close, Closed, Flush, CommitFails
<1>4. ASSUME NEW i \in Instances, Commit(i)
      PROVE  \E written \in SUBSET Units : Contract!Persist(i, written)
  BY <1>4, CommitPersists DEF Commit
<1>5. ASSUME NEW a \in Askers,
             Ask(a) \/ LookUp(a) \/ ReadHit(a) \/ ReadMiss(a) \/ Model(a) \/ Send(a)
      PROVE  UNCHANGED <<disk, stored>>
  BY <1>5 DEF Ask, LookUp, ReadHit, ReadMiss, Model, ModelAnswers, ModelFails, Send,
              instanceVars
<1>6. ASSUME NEW a \in Askers, Remember(a)
      PROVE  Contract!Adopt(at[a], Key(a)) \/ UNCHANGED <<disk, stored>>
  <2> DEFINE known == stored[at[a]][Key(a)]
  <2>1. Key(a) \in Keys /\ seen[a] # NoVerdict /\ disk[Key(a)] = seen[a] /\ disk' = disk
    BY <1>6, KeyInUnit DEF IInv, Reading, Remember
  <2>2. CASE known = NoVerdict
    BY <1>6, <2>1, <2>2 DEF Remember, Contract!Adopt
  <2>3. CASE known # NoVerdict
    BY <1>1, <1>6, <2>1, <2>3 DEF Remember, InstanceTypes, AskerTypes
  <2> QED
    BY <2>2, <2>3
<1>7. ASSUME NEW a \in Askers, Store(a)
      PROVE  \E call \in 1..MaxCalls : Contract!Evaluate(at[a], unit[a], call)
  <2>1. PICK c \in 1..MaxCalls :
          reply[a] = [k \in Keys |-> IF k \in KeysOf(unit[a]) THEN c ELSE NoVerdict]
    BY <1>7 DEF IInv, Evaluated, Store
  <2>2. [k \in Keys |-> IF stored[at[a]][k] = NoVerdict THEN reply[a][k]
                        ELSE stored[at[a]][k]]
        = [k \in Keys |-> IF k \in KeysOf(unit[a]) /\ stored[at[a]][k] = 0 THEN c
                          ELSE stored[at[a]][k]]
    BY <2>1
  <2>3. Contract!Evaluate(at[a], unit[a], c)
    BY <1>7, <2>2 DEF Store, Contract!Evaluate, Contract!KeysIn, KeysOf
  <2> QED
    BY <2>3
<1>8. \A a \in Askers : at[a] \in Instances /\ unit[a] \in Units /\ Key(a) \in Keys
  BY KeyInUnit DEF IInv, TypeOK, AskerTypes
<1>9. CASE UNCHANGED vars
  BY <1>9 DEF vars, instanceVars
<1> QED
  BY <1>2, <1>3, <1>4, <1>5, <1>6, <1>7, <1>8, <1>9
     DEF Next, Writer, CacheStep, Contract!ContractNext

(* The cache, with its threads, lookups in steps, crashes and other        *)
(* instances, implements the contract: a file and maps that never change   *)
(* a verdict, and a file that takes whole units an instance has answered.  *)
THEOREM Implements == Spec => ImplementsContract
<1>1. Init => Contract!ContractInit
  BY DEF Init, Contract!ContractInit, Empty
<1>2. IInv /\ [Next]_vars => [Contract!ContractNext]_<<disk, stored>>
  BY StepImplements
<1> QED
  BY <1>1, <1>2, Inductive, PTL DEF Spec, ImplementsContract, Contract!ContractSpec

(***************************************************************************)
(* Nothing is lost.  Where transactions succeed, a verdict in a map is on  *)
(* file or on its way there: in the channel, or with a task that is about  *)
(* to send it.  A flush request in the channel has everything it owes      *)
(* before it.                                                              *)
(***************************************************************************)
InQueue(i, n, k) == \E m \in 1..n : queue[i][m].rows[k] # NoVerdict

OnItsWay(i) ==
  \A k \in Keys : stored[i][k] # NoVerdict =>
    disk[k] # NoVerdict \/ InQueue(i, Len(queue[i]), k) \/ k \in Unsent(i)

Flushing(i) ==
  /\ flush[i] = "none" => \A n \in 1..Len(queue[i]) : ~queue[i][n].flush
  /\ \A n \in 1..Len(queue[i]) : queue[i][n].flush =>
       \A k \in goal[i].sent : disk[k] # NoVerdict \/ InQueue(i, n - 1, k)
  /\ flush[i] = "done" => goal[i].sent \subseteq Held(disk)

Durable == \A i \in Instances : OnItsWay(i) /\ Flushing(i)

LEMMA OnItsWayFrame ==
  ASSUME NEW i \in Instances, OnItsWay(i), disk' = disk, queue'[i] = queue[i],
         stored'[i] = stored[i], Unsent(i) \subseteq Unsent(i)'
  PROVE  OnItsWay(i)'
BY DEF OnItsWay, InQueue

LEMMA FlushingFrame ==
  ASSUME NEW i \in Instances, Flushing(i), disk' = disk, queue'[i] = queue[i],
         flush'[i] = flush[i], goal'[i] = goal[i]
  PROVE  Flushing(i)'
BY DEF Flushing, InQueue, Held

LEMMA AppendProperty ==
  ASSUME NEW T, NEW q \in Seq(T), NEW e \in T
  PROVE  /\ Append(q, e) \in Seq(T) /\ Len(Append(q, e)) = Len(q) + 1
         /\ Len(q) \in Nat
         /\ \A m \in 1..Len(q) : Append(q, e)[m] = q[m]
         /\ Append(q, e)[Len(q) + 1] = e
OBVIOUS

(* A message is sent: what was on its way still is, and so are its rows.   *)
LEMMA SentIsOnItsWay ==
  ASSUME TypeOK, NEW i \in Instances, OnItsWay(i), NEW e \in Message,
         queue'[i] = Append(queue[i], e), disk' = disk, stored'[i] = stored[i],
         \A k \in Unsent(i) : k \in Unsent(i)' \/ e.rows[k] # NoVerdict
  PROVE  OnItsWay(i)'
<1>1. queue[i] \in Seq(Message)
  BY DEF TypeOK, InstanceTypes
<1>2. /\ Len(queue'[i]) = Len(queue[i]) + 1 /\ Len(queue[i]) \in Nat
      /\ \A m \in 1..Len(queue[i]) : queue'[i][m] = queue[i][m]
      /\ queue'[i][Len(queue[i]) + 1] = e
  <2> HIDE DEF Message
  <2> QED
    BY <1>1, AppendProperty
<1>3. \A k : InQueue(i, Len(queue[i]), k) => \E m \in 1..Len(queue'[i]) :
                                               queue'[i][m].rows[k] # NoVerdict
  BY <1>2 DEF InQueue
<1>4. \A k : e.rows[k] # NoVerdict => \E m \in 1..Len(queue'[i]) :
                                        queue'[i][m].rows[k] # NoVerdict
  BY <1>2
<1> QED
  BY <1>3, <1>4 DEF OnItsWay, InQueue

LEMMA DurableInit == Init => Durable
<1> SUFFICES ASSUME Init, NEW i \in Instances PROVE OnItsWay(i) /\ Flushing(i)
  BY DEF Durable
<1>1. /\ \A k \in Keys : stored[i][k] = NoVerdict
      /\ queue[i] = <<>> /\ flush[i] = "none"
  BY DEF Init, Empty
<1> QED
  BY <1>1 DEF OnItsWay, Flushing

LEMMA DurableInstance ==
  ASSUME IInv, Durable, NEW i \in Instances, Open(i) \/ Close(i) \/ Closed(i) \/ Crash(i)
  PROVE  Durable'
<1>1. InstanceTypes /\ AskerTypes
  BY DEF IInv, TypeOK
<1>2. disk' = disk
  BY DEF Open, Close, Closed, Crash
<1>3. ASSUME NEW h \in Instances,
             UNCHANGED <<queue[h], flush[h], goal[h], stored[h]>>, Unsent(h) \subseteq Unsent(h)'
      PROVE  OnItsWay(h)' /\ Flushing(h)'
  BY <1>2, <1>3, OnItsWayFrame, FlushingFrame DEF Durable
<1>4. ASSUME queue'[i] = <<>>, flush'[i] = "none", stored'[i] = Empty
      PROVE  OnItsWay(i)' /\ Flushing(i)'
  BY <1>4 DEF OnItsWay, Flushing, Empty
<1>5. CASE Open(i)
  <2>1. queue'[i] = <<>> /\ flush'[i] = "none" /\ stored'[i] = Empty
    BY <1>1, <1>5 DEF Open, IInv, Channels, InstanceTypes
  <2>2. \A h \in Instances \ {i} : /\ UNCHANGED <<queue[h], flush[h], goal[h], stored[h]>>
                                  /\ Unsent(h) \subseteq Unsent(h)'
    BY <1>1, <1>5 DEF Open, InstanceTypes, askerVars, Unsent
  <2> QED
    BY <1>3, <1>4, <2>1, <2>2 DEF Durable
<1>6. CASE Close(i) \/ Closed(i)
  <2>1. UNCHANGED <<queue, flush, goal, stored, at, rows>>
    BY <1>6 DEF Close, Closed, askerVars
  <2>2. \A a \in Askers : pc[a] = "sending" => pc'[a] = "sending"
    BY <1>1, <1>6 DEF Close, Closed, askerVars, Busy
  <2>3. \A h \in Instances : Unsent(h) \subseteq Unsent(h)'
    BY <2>1, <2>2 DEF Unsent
  <2> QED
    BY <1>3, <2>1, <2>3 DEF Durable
<1>7. CASE Crash(i)
  <2>1. queue'[i] = <<>> /\ flush'[i] = "none" /\ stored'[i] = Empty
    BY <1>1, <1>7 DEF Crash, InstanceTypes
  <2>2. \A h \in Instances \ {i} : /\ UNCHANGED <<queue[h], flush[h], goal[h], stored[h]>>
                                  /\ Unsent(h) \subseteq Unsent(h)'
    BY <1>1, <1>7 DEF Crash, InstanceTypes, AskerTypes, Unsent
  <2> QED
    BY <1>3, <1>4, <2>1, <2>2 DEF Durable
<1> QED
  BY <1>5, <1>6, <1>7

LEMMA DurableFlush ==
  ASSUME IInv, Durable, NEW i \in Instances, Flush(i)
  PROVE  Durable'
<1>1. InstanceTypes /\ TypeOK
  BY DEF IInv, TypeOK
<1>2. /\ flush[i] = "none" /\ flush'[i] = "waiting"
      /\ goal'[i].sent = Held(stored[i]) \ Unsent(i)
      /\ queue'[i] = Append(queue[i], FlushMessage)
      /\ UNCHANGED <<disk, stored, pc, at, rows>>
  BY <1>1 DEF Flush, InstanceTypes, askerVars
<1>3. FlushMessage \in Message /\ FlushMessage.flush
  BY DEF FlushMessage, Message, Empty
<1>4. \A h \in Instances : Unsent(h)' = Unsent(h)
  BY <1>2 DEF Unsent
<1>5. OnItsWay(i)'
  BY <1>1, <1>2, <1>3, <1>4, SentIsOnItsWay DEF Durable
<1>6. /\ Len(queue'[i]) = Len(queue[i]) + 1 /\ Len(queue[i]) \in Nat
      /\ \A m \in 1..Len(queue[i]) : queue'[i][m] = queue[i][m]
  <2>1. queue[i] \in Seq(Message)
    BY <1>1 DEF InstanceTypes
  <2> HIDE DEF Message, FlushMessage
  <2> QED
    BY <1>2, <1>3, <2>1, AppendProperty
<1>7. ASSUME NEW n \in 1..Len(queue'[i]), queue'[i][n].flush, NEW k \in goal'[i].sent
      PROVE  disk'[k] # NoVerdict \/ InQueue(i, n - 1, k)'
  <2>1. n = Len(queue[i]) + 1
    <3>1. \A m \in 1..Len(queue[i]) : ~queue'[i][m].flush
      BY <1>2, <1>6 DEF Durable, Flushing
    <3> QED
      BY <1>6, <1>7, <3>1
  <2>2. k \in Keys /\ stored[i][k] # NoVerdict /\ k \notin Unsent(i)
    BY <1>2, <1>7 DEF Held
  <2>3. disk[k] # NoVerdict \/ InQueue(i, Len(queue[i]), k)
    BY <2>2 DEF Durable, OnItsWay
  <2>4. n - 1 = Len(queue[i])
    BY <1>6, <2>1
  <2> QED
    BY <1>2, <1>6, <2>3, <2>4 DEF InQueue
<1>8. Flushing(i)'
  BY <1>2, <1>7 DEF Flushing
<1>9. ASSUME NEW h \in Instances \ {i} PROVE OnItsWay(h)' /\ Flushing(h)'
  <2>1. queue'[h] = queue[h] /\ flush'[h] = flush[h] /\ goal'[h] = goal[h]
    BY <1>1 DEF Flush, InstanceTypes
  <2> QED
    BY <1>2, <1>4, <2>1, OnItsWayFrame, FlushingFrame DEF Durable
<1> QED
  BY <1>5, <1>8, <1>9 DEF Durable

(* A transaction leaves in the channel what it has not written.            *)
LEMMA DurableCommit ==
  ASSUME IInv, Durable, NEW i \in Instances, Commit(i)
  PROVE  Durable'
<1>1. InstanceTypes /\ TypeOK
  BY DEF IInv, TypeOK
<1>2. PICK n \in 1..Len(queue[i]) : Batch(queue[i], n) /\ WriteBatch(i, n) /\ Take(i, n)
  BY DEF Commit
<1>3. UNCHANGED <<stored, goal, pc, at, rows>>
  BY DEF Commit, askerVars
<1>4. /\ \A k \in Keys : disk[k] # NoVerdict => disk'[k] # NoVerdict
      /\ \A k \in Keys : InQueue(i, n, k) => disk'[k] # NoVerdict
  BY <1>2, RowOfProperty DEF WriteBatch, InQueue
<1>5. \A h \in Instances : Unsent(h)' = Unsent(h)
  BY <1>3 DEF Unsent
<1>6. queue[i] \in Seq(Message) /\ Len(queue[i]) \in Nat
  BY <1>1 DEF InstanceTypes
<1>7. /\ Len(queue'[i]) = Len(queue[i]) - n
      /\ \A m \in 1..Len(queue'[i]) : queue'[i][m] = queue[i][m + n]
      /\ flush'[i] = IF queue[i][n].flush THEN "done" ELSE flush[i]
  BY <1>1, <1>2, <1>6, TakeProperty DEF Take, InstanceTypes
<1>8. ASSUME NEW k \in Keys, NEW m \in 0..Len(queue[i]), InQueue(i, m, k)
      PROVE  disk'[k] # NoVerdict \/ \E l \in 1..(m - n) : queue'[i][l].rows[k] # NoVerdict
  <2>1. PICK l \in 1..m : queue[i][l].rows[k] # NoVerdict
    BY <1>8 DEF InQueue
  <2>2. CASE l <= n
    BY <1>4, <2>1, <2>2 DEF InQueue
  <2>3. CASE l > n
    <3>1. l - n \in 1..(m - n) /\ l - n \in 1..Len(queue'[i]) /\ (l - n) + n = l
      BY <1>6, <1>7, <2>3
    <3>2. queue'[i][l - n] = queue[i][l]
      BY <1>7, <3>1
    <3> QED
      BY <2>1, <3>1, <3>2
  <2> QED
    BY <2>2, <2>3
<1>9. OnItsWay(i)'
  <2> SUFFICES ASSUME NEW k \in Keys, stored[i][k] # NoVerdict, disk'[k] = NoVerdict,
                      k \notin Unsent(i)'
               PROVE  InQueue(i, Len(queue[i]), k)'
    BY <1>3 DEF OnItsWay
  <2>1. InQueue(i, Len(queue[i]), k)
    BY <1>4, <1>5 DEF Durable, OnItsWay
  <2> QED
    BY <1>6, <1>7, <1>8, <2>1 DEF InQueue
<1>10. \A k \in goal[i].sent : k \in Keys
  BY <1>1 DEF InstanceTypes
<1>11. ASSUME flush'[i] = "none", NEW m \in 1..Len(queue'[i]) PROVE ~queue'[i][m].flush
  <2>1. m + n \in 1..Len(queue[i])
    BY <1>6, <1>7
  <2> QED
    BY <1>7, <1>11, <2>1 DEF Durable, Flushing
<1>12. ASSUME NEW m \in 1..Len(queue'[i]), queue'[i][m].flush, NEW k \in goal[i].sent
       PROVE  disk'[k] # NoVerdict \/ InQueue(i, m - 1, k)'
  <2>1. m + n \in 1..Len(queue[i]) /\ (m + n) - 1 \in 0..Len(queue[i])
        /\ ((m + n) - 1) - n = m - 1
    BY <1>6, <1>7
  <2>2. disk[k] # NoVerdict \/ InQueue(i, (m + n) - 1, k)
    BY <1>7, <1>12, <2>1 DEF Durable, Flushing
  <2> QED
    BY <1>4, <1>8, <1>10, <2>1, <2>2 DEF InQueue
<1>13. ASSUME flush'[i] = "done", NEW k \in goal[i].sent PROVE disk'[k] # NoVerdict
  <2>1. CASE flush[i] = "done"
    BY <1>4, <1>10, <2>1 DEF Durable, Flushing, Held
  <2>2. CASE queue[i][n].flush
    <3>1. disk[k] # NoVerdict \/ InQueue(i, n - 1, k)
      BY <1>2, <2>2 DEF Durable, Flushing
    <3>2. InQueue(i, n - 1, k) => InQueue(i, n, k)
      BY <1>6 DEF InQueue
    <3> QED
      BY <1>4, <1>10, <3>1, <3>2
  <2> QED
    BY <1>7, <1>13, <2>1, <2>2
<1>14. Flushing(i)'
  BY <1>3, <1>10, <1>11, <1>12, <1>13 DEF Flushing, Held
<1>15. ASSUME NEW h \in Instances \ {i} PROVE OnItsWay(h)' /\ Flushing(h)'
  <2>1. queue'[h] = queue[h] /\ flush'[h] = flush[h]
    BY <1>1, <1>2 DEF Take, InstanceTypes
  <2>2. OnItsWay(h)'
    BY <1>3, <1>4, <1>5, <2>1 DEF Durable, OnItsWay, InQueue
  <2>3. \A k \in goal[h].sent : k \in Keys
    BY <1>1 DEF InstanceTypes
  <2>4. Flushing(h)'
    BY <1>3, <1>4, <2>1, <2>3 DEF Durable, Flushing, InQueue, Held
  <2> QED
    BY <2>2, <2>4
<1> QED
  BY <1>9, <1>14, <1>15 DEF Durable

LEMMA DurableAsker ==
  ASSUME IInv, Durable, NEW a \in Askers, Ask(a) \/ CacheStep(a) \/ Model(a)
  PROVE  Durable'
<1>1. InstanceTypes /\ AskerTypes /\ TypeOK
  BY DEF IInv, TypeOK
<1>2. disk' = disk /\ flush' = flush /\ goal' = goal
  BY DEF Ask, CacheStep, LookUp, ReadHit, ReadMiss, Remember, Store, Send, Model,
         ModelAnswers, ModelFails, instanceVars
<1>3. CASE Ask(a) \/ LookUp(a) \/ ReadHit(a) \/ ReadMiss(a) \/ Model(a)
  <2>1. UNCHANGED <<queue, stored, rows>> /\ pc[a] # "sending"
    BY <1>3 DEF Ask, LookUp, ReadHit, ReadMiss, Model, ModelAnswers, ModelFails,
                instanceVars, Busy
  <2>2. \A b \in Askers \ {a} : pc'[b] = pc[b] /\ at'[b] = at[b]
    BY <1>1, <1>3 DEF Ask, LookUp, ReadHit, ReadMiss, Model, ModelAnswers, ModelFails,
                      Hit, Goto, AskerTypes
  <2>3. \A h \in Instances : Unsent(h) \subseteq Unsent(h)'
    BY <2>1, <2>2 DEF Unsent
  <2> QED
    BY <1>2, <2>1, <2>3, OnItsWayFrame, FlushingFrame DEF Durable
<1>4. CASE Remember(a)
  <2> DEFINE known == stored[at[a]][Key(a)]
             kept == IF known = NoVerdict THEN seen[a] ELSE known
  <2>1. /\ UNCHANGED <<queue, rows, at>> /\ pc[a] = "remembering"
        /\ stored' = [stored EXCEPT ![at[a]][Key(a)] = kept]
        /\ \A b \in Askers \ {a} : pc'[b] = pc[b]
    BY <1>1, <1>4 DEF Remember, Hit, Goto, AskerTypes
  <2>2. \A h \in Instances : Unsent(h) \subseteq Unsent(h)'
    BY <2>1 DEF Unsent
  <2>3. disk[Key(a)] # NoVerdict
    BY <2>1 DEF IInv, Reading
  <2>4. \A h \in Instances, k \in Keys :
          stored'[h][k] = stored[h][k] \/ disk[k] # NoVerdict
    BY <1>1, <2>1, <2>3, KeyInUnit DEF InstanceTypes, AskerTypes
  <2>5. \A h \in Instances : OnItsWay(h)'
    BY <1>2, <2>1, <2>2, <2>4 DEF Durable, OnItsWay, InQueue
  <2> QED
    BY <1>2, <2>1, <2>5, FlushingFrame DEF Durable
<1>5. CASE Store(a)
  <2> DEFINE known == stored[at[a]]
             fresh == [k \in Keys |-> IF known[k] = NoVerdict THEN reply[a][k] ELSE NoVerdict]
             merged == [k \in Keys |-> IF known[k] = NoVerdict THEN reply[a][k] ELSE known[k]]
  <2>1. /\ UNCHANGED <<queue, at>> /\ pc[a] = "storing"
        /\ rows' = [rows EXCEPT ![a] = fresh]
        /\ stored' = [stored EXCEPT ![at[a]] = merged]
        /\ pc' = [pc EXCEPT ![a] = IF fresh = Empty THEN "told" ELSE "sending"]
    BY <1>5 DEF Store, Goto
  <2>2. ASSUME NEW k \in Keys, fresh[k] # NoVerdict PROVE k \in Unsent(at[a])'
    <3>1. fresh # Empty
      BY <2>2 DEF Empty
    <3>2. pc'[a] = "sending" /\ rows'[a] = fresh /\ at'[a] = at[a]
      BY <1>1, <2>1, <3>1 DEF AskerTypes
    <3> HIDE DEF fresh
    <3> QED
      BY <2>2, <3>2 DEF Unsent
  <2>3. \A h \in Instances : Unsent(h) \subseteq Unsent(h)'
    <3>1. \A b \in Askers \ {a} : pc'[b] = pc[b] /\ rows'[b] = rows[b]
      BY <1>1, <2>1 DEF AskerTypes
    <3> QED
      BY <2>1, <3>1 DEF Unsent
  <2>4. \A k \in Keys : merged[k] # NoVerdict => known[k] # NoVerdict \/ fresh[k] # NoVerdict
    OBVIOUS
  <2>5. stored'[at[a]] = merged /\ at[a] \in Instances
    BY <1>1, <2>1 DEF InstanceTypes, AskerTypes
  <2> HIDE DEF fresh, merged
  <2>6. OnItsWay(at[a])'
    BY <1>2, <2>1, <2>2, <2>3, <2>4, <2>5 DEF Durable, OnItsWay, InQueue
  <2>7. \A h \in Instances \ {at[a]} : stored'[h] = stored[h]
    BY <1>1, <2>1 DEF InstanceTypes
  <2>8. \A h \in Instances : OnItsWay(h)'
    BY <1>2, <2>1, <2>3, <2>6, <2>7, OnItsWayFrame DEF Durable
  <2> QED
    BY <1>2, <2>1, <2>8, FlushingFrame DEF Durable
<1>6. CASE Send(a)
  <2>0. PICK i \in Instances : i = at[a]
    BY <1>1 DEF AskerTypes
  <2> DEFINE e == RowsMessage(rows[a])
  <2>1. /\ queue' = [queue EXCEPT ![i] = Append(queue[i], e)]
        /\ UNCHANGED <<stored, at, rows>>
        /\ e \in Message /\ ~e.flush /\ e.rows = rows[a]
    BY <1>1, <1>6, <2>0 DEF Send, RowsMessage, Message, AskerTypes
  <2>2. \A b \in Askers \ {a} : pc'[b] = pc[b]
    BY <1>1, <1>6 DEF Send, Goto, AskerTypes
  <2>3. \A k \in Unsent(i) : k \in Unsent(i)' \/ e.rows[k] # NoVerdict
    BY <2>0, <2>1, <2>2 DEF Unsent
  <2>4. \A h \in Instances \ {i} : Unsent(h) \subseteq Unsent(h)'
    BY <2>0, <2>1, <2>2 DEF Unsent
  <2>5. queue'[i] = Append(queue[i], e) /\ \A h \in Instances \ {i} : queue'[h] = queue[h]
    BY <1>1, <2>1 DEF InstanceTypes
  <2> HIDE DEF e
  <2>6. OnItsWay(i)'
    BY <1>1, <1>2, <2>1, <2>3, <2>5, SentIsOnItsWay DEF Durable
  <2>7. queue[i] \in Seq(Message)
    BY <1>1, <2>1 DEF InstanceTypes
  <2>8. /\ Len(queue'[i]) = Len(queue[i]) + 1 /\ Len(queue[i]) \in Nat
        /\ \A m \in 1..Len(queue[i]) : queue'[i][m] = queue[i][m]
        /\ queue'[i][Len(queue[i]) + 1] = e
    <3> HIDE DEF Message
    <3> QED
      BY <2>1, <2>5, <2>7, AppendProperty
  <2>9. Flushing(i)'
    <3>1. \A n \in 1..Len(queue'[i]) : queue'[i][n].flush =>
            /\ n \in 1..Len(queue[i]) /\ queue[i][n].flush
            /\ \A k : InQueue(i, n - 1, k) => InQueue(i, n - 1, k)'
      BY <2>1, <2>8 DEF InQueue
    <3> QED
      BY <1>2, <2>1, <3>1 DEF Durable, Flushing, Held
  <2>10. \A h \in Instances \ {i} : OnItsWay(h)' /\ Flushing(h)'
    BY <1>2, <2>1, <2>4, <2>5, OnItsWayFrame, FlushingFrame DEF Durable
  <2> QED
    BY <2>6, <2>9, <2>10 DEF Durable
<1> QED
  BY <1>3, <1>4, <1>5, <1>6 DEF CacheStep

LEMMA DurableStep ==
  ASSUME MaxWriteFailures = 0, IInv, Durable, [Next]_vars
  PROVE  Durable'
<1>1. CASE UNCHANGED vars
  <2>1. UNCHANGED <<disk, queue, stored, flush, goal, pc, at, rows>>
    BY <1>1 DEF vars, instanceVars, askerVars
  <2>2. \A h \in Instances : Unsent(h)' = Unsent(h)
    BY <2>1 DEF Unsent
  <2> QED
    BY <2>1, <2>2, OnItsWayFrame, FlushingFrame DEF Durable
<1>2. ASSUME NEW i \in Instances, CommitFails(i) PROVE FALSE
  BY <1>2 DEF CommitFails, IInv, TypeOK, BoundTypes
<1> QED
  BY <1>1, <1>2, DurableInstance, DurableFlush, DurableCommit, DurableAsker DEF Next, Writer

THEOREM NothingLost == MaxWriteFailures = 0 /\ Spec => []Durable
<1>1. Init => Durable
  BY DurableInit
<1>2. ASSUME MaxWriteFailures = 0 PROVE Spec => []Durable
  <2>1. IInv /\ Durable /\ [Next]_vars => Durable'
    BY <1>2, DurableStep
  <2> QED
    BY <1>1, <2>1, Inductive, PTL DEF Spec
<1> QED
  BY <1>2

(* Closing an instance loses no verdict it held (Drop, write_loop).        *)
THEOREM CloseIsClean == MaxWriteFailures = 0 /\ Spec => []CloseLosesNothing
<1>1. IInv /\ Durable => CloseLosesNothing
  <2> SUFFICES ASSUME IInv, Durable, NEW i \in Instances, open[i] = "closed",
                      NEW k \in Keys, stored[i][k] # NoVerdict
               PROVE  disk[k] # NoVerdict
    BY DEF CloseLosesNothing, Held
  <2>1. queue[i] = <<>> /\ k \notin Unsent(i)
    BY DEF IInv, Channels, Sessions, Unsent
  <2> QED
    BY <2>1 DEF Durable, OnItsWay, InQueue
<1>2. CASE MaxWriteFailures = 0
  BY <1>1, <1>2, Inductive, NothingLost, PTL
<1> QED
  BY <1>2

(* A flush that returns has committed what was sent before it (flush).     *)
THEOREM FlushCommits == MaxWriteFailures = 0 /\ Spec => []FlushCommitsSent
<1>1. Durable => FlushCommitsSent
  BY DEF Durable, Flushing, FlushCommitsSent
<1>2. CASE MaxWriteFailures = 0
  BY <1>1, <1>2, NothingLost, PTL
<1> QED
  BY <1>2

(***************************************************************************)
(* Units are served whole.  With one instance and reads that succeed, the  *)
(* map and the file never disagree: a task that missed a key asks for the  *)
(* unit, and whatever reaches the file meanwhile was in the map first.     *)
(***************************************************************************)
Alone == MaxReadFailures = 0 /\ \A h, i \in Instances : h = i

Agree == \A i \in Instances, k \in Keys :
           stored[i][k] # NoVerdict /\ disk[k] # NoVerdict => stored[i][k] = disk[k]

Missed(a) ==
  pc[a] \in {"asking", "storing"} =>
    \A k \in KeysOf(unit[a]) : disk[k] # NoVerdict => stored[at[a]][k] = disk[k]

Collected(a) ==
  /\ pc[a] \in {"looking", "reading", "remembering"} =>
       \A n \in 1..(pos[a] - 1) : reply[a][unit[a][n]] # NoVerdict
  /\ pc[a] = "served" => \A k \in KeysOf(unit[a]) : reply[a][k] # NoVerdict

Whole == Agree /\ \A a \in Askers : Missed(a) /\ Collected(a)

LEMMA WholeInit == Init => Whole
BY DEF Init, Whole, Agree, Missed, Collected, Empty

(* An asker whose own state and whose map and file have not changed.       *)
LEMMA WholeFrame ==
  ASSUME NEW a \in Askers, Missed(a), Collected(a),
         UNCHANGED <<pc[a], at[a], unit[a], pos[a], reply[a]>>,
         UNCHANGED <<disk, stored[at[a]]>>
  PROVE  Missed(a)' /\ Collected(a)'
BY DEF Missed, Collected

(* A key that hits is collected.                                           *)
LEMMA HitCollects ==
  ASSUME TypeOK, NEW a \in Askers, NEW v, v # NoVerdict, Hit(a, v), Collected(a),
         pc[a] \in {"looking", "remembering"}, unit' = unit
  PROVE  Collected(a)' /\ pc'[a] \notin {"asking", "storing"}
<1>1. /\ AskerTypes /\ unit[a] \in Seq(Keys) /\ pos[a] \in 1..Len(unit[a])
      /\ Len(unit[a]) \in Nat
  <2>1. AskerTypes /\ unit[a] \in Units /\ pos[a] \in Nat \ {0} /\ pos[a] <= Len(unit[a])
    BY DEF TypeOK, AskerTypes
  <2>2. unit[a] \in Seq(Keys)
    BY <2>1, ConstantsAssumption
  <2> QED
    BY <2>1, <2>2
<1>2. /\ \A n \in 1..Len(unit[a]) : unit[a][n] \in Keys
      /\ Key(a) = unit[a][pos[a]]
  BY <1>1 DEF Key
<1>3. \A n \in 1..pos[a] : reply'[a][unit[a][n]] # NoVerdict
  <2>1. reply[a] \in [Keys -> Verdict] /\ reply'[a] = [reply[a] EXCEPT ![Key(a)] = v]
    BY <1>1 DEF Hit, AskerTypes
  <2>2. \A n \in 1..(pos[a] - 1) : reply[a][unit[a][n]] # NoVerdict
    BY DEF Collected
  <2>3. ASSUME NEW n \in 1..pos[a] PROVE reply'[a][unit[a][n]] # NoVerdict
    <3>1. unit[a][n] \in Keys /\ (n = pos[a] \/ n \in 1..(pos[a] - 1))
      BY <1>1, <1>2
    <3> QED
      BY <1>2, <2>1, <2>2, <3>1
  <2> QED
    BY <2>3
<1>4. CASE pos[a] < Len(unit[a])
  <2>1. pos'[a] = pos[a] + 1 /\ pc'[a] = "looking"
    BY <1>1, <1>4 DEF Hit, Goto, AskerTypes
  <2> QED
    BY <1>1, <1>3, <2>1 DEF Collected
<1>5. CASE pos[a] = Len(unit[a])
  <2>1. pc'[a] = "served"
    BY <1>1, <1>5 DEF Hit, Goto, AskerTypes
  <2> QED
    BY <1>3, <1>5, <2>1 DEF Collected, KeysOf
<1> QED
  BY <1>1, <1>4, <1>5

LEMMA WholeInstance ==
  ASSUME Alone, IInv, Whole, NEW i \in Instances,
         Open(i) \/ Close(i) \/ Closed(i) \/ Crash(i) \/ Flush(i)
  PROVE  Whole'
<1>1. InstanceTypes /\ AskerTypes
  BY DEF IInv, TypeOK
<1>2. UNCHANGED <<disk, at, unit, pos, reply>>
  BY DEF Open, Close, Closed, Crash, Flush, askerVars
<1>3. stored' = stored \/ stored' = [stored EXCEPT ![i] = Empty]
  BY DEF Open, Close, Closed, Crash, Flush
<1>4. Agree'
  <2>1. \A h \in Instances, k \in Keys :
          stored'[h][k] = stored[h][k] \/ stored'[h][k] = NoVerdict
    <3>1. \A k \in Keys : Empty[k] = NoVerdict
      BY DEF Empty
    <3>2. \A h \in Instances : stored'[h] = stored[h] \/ stored'[h] = Empty
      BY <1>1, <1>3 DEF InstanceTypes
    <3> QED
      BY <3>1, <3>2
  <2> QED
    BY <1>2, <2>1 DEF Whole, Agree
<1>5. ASSUME NEW a \in Askers
      PROVE  pc'[a] = "idle" \/ (pc'[a] = pc[a] /\ stored'[at[a]] = stored[at[a]])
  <2>1. CASE Open(i)
    <3>1. at[a] = i => pc[a] = "idle"
      BY <1>1, <2>1 DEF Open, IInv, Sessions, AskerTypes
    <3> QED
      BY <1>1, <2>1, <3>1 DEF Open, askerVars, InstanceTypes, AskerTypes
  <2>2. CASE Close(i) \/ Closed(i) \/ Flush(i)
    BY <1>1, <2>2 DEF Close, Closed, Flush, askerVars, AskerTypes
  <2>3. CASE Crash(i)
    BY <1>1, <2>3 DEF Crash, InstanceTypes, AskerTypes
  <2> QED
    BY <2>1, <2>2, <2>3
<1>6. ASSUME NEW a \in Askers PROVE Missed(a)' /\ Collected(a)'
  <2>1. CASE pc'[a] = "idle"
    BY <2>1 DEF Missed, Collected
  <2>2. CASE pc'[a] = pc[a] /\ stored'[at[a]] = stored[at[a]]
    BY <1>2, <2>2, WholeFrame DEF Whole
  <2> QED
    BY <1>5, <2>1, <2>2
<1> QED
  BY <1>4, <1>6 DEF Whole

(* What a transaction adds to the file is what the only map holds.         *)
LEMMA WholeWriter ==
  ASSUME Alone, IInv, Whole, NEW i \in Instances, Writer(i)
  PROVE  Whole'
<1>1. InstanceTypes /\ AskerTypes
  BY DEF IInv, TypeOK
<1>2. UNCHANGED <<stored, pc, at, unit, pos, reply>>
  BY DEF Writer, Commit, CommitFails, askerVars
<1>3. \A k \in Keys : disk'[k] = disk[k]
                      \/ (disk[k] = NoVerdict /\ disk'[k] = NoVerdict)
                      \/ disk'[k] = stored[i][k]
  <2>1. CASE disk' = disk
    BY <2>1
  <2>2. CASE \E n \in 1..Len(queue[i]) : WriteBatch(i, n)
    <3>1. PICK n \in 1..Len(queue[i]) : WriteBatch(i, n)
      BY <2>2
    <3>2. Backed(disk, stored[i], [k \in Keys |-> RowOf(queue[i], n, k)])
      BY BatchBacked DEF IInv
    <3> QED
      BY <3>1, <3>2 DEF WriteBatch, Backed
  <2> QED
    BY <2>1, <2>2 DEF Writer, Commit, CommitFails
<1>4. \A h \in Instances : h = i
  BY DEF Alone
<1>5. Agree'
  BY <1>2, <1>3, <1>4 DEF Whole, Agree
<1>6. ASSUME NEW a \in Askers PROVE Missed(a)' /\ Collected(a)'
  <2>1. at[a] = i /\ \A k \in KeysOf(unit[a]) : k \in Keys
    BY <1>1, <1>4, UnitKeys DEF AskerTypes
  <2>2. Missed(a)'
    BY <1>2, <1>3, <2>1 DEF Whole, Missed
  <2>3. Collected(a)'
    BY <1>2 DEF Whole, Collected
  <2> QED
    BY <2>2, <2>3
<1> QED
  BY <1>5, <1>6 DEF Whole

LEMMA WholeAsker ==
  ASSUME Alone, IInv, Whole, NEW a \in Askers, Ask(a) \/ CacheStep(a) \/ Model(a)
  PROVE  Whole'
<1>1. InstanceTypes /\ AskerTypes /\ TypeOK
  BY DEF IInv, TypeOK
<1>2. disk' = disk /\ \A b \in Askers \ {a} : UNCHANGED <<pc[b], at[b], unit[b], pos[b], reply[b]>>
  BY <1>1 DEF Ask, CacheStep, LookUp, ReadHit, ReadMiss, Remember, Store, Send, Model,
              ModelAnswers, ModelFails, Hit, Goto, instanceVars, AskerTypes
<1>3. ASSUME stored' = stored, Missed(a)', Collected(a)' PROVE Whole'
  <2>1. \A b \in Askers \ {a} : Missed(b)' /\ Collected(b)'
    BY <1>2, <1>3, WholeFrame DEF Whole
  <2> QED
    BY <1>2, <1>3, <2>1 DEF Whole, Agree
<1>4. CASE Ask(a)
  <2>1. pc'[a] = "looking" /\ pos'[a] = 1 /\ stored' = stored
    BY <1>1, <1>4 DEF Ask, Goto, instanceVars, AskerTypes
  <2> QED
    BY <1>3, <2>1 DEF Missed, Collected
<1>5. CASE LookUp(a)
  <2>1. stored' = stored /\ unit' = unit /\ pc[a] = "looking"
    BY <1>5 DEF LookUp, instanceVars
  <2>2. CASE stored[at[a]][Key(a)] # NoVerdict
    <3>1. Hit(a, stored[at[a]][Key(a)])
      BY <1>5, <2>2 DEF LookUp
    <3>2. Collected(a)' /\ pc'[a] \notin {"asking", "storing"}
      BY <1>1, <2>1, <2>2, <3>1, HitCollects DEF Whole
    <3> QED
      BY <1>3, <2>1, <3>2 DEF Missed
  <2>3. CASE stored[at[a]][Key(a)] = NoVerdict
    <3>1. pc'[a] = "reading" /\ UNCHANGED <<reply, pos, unit>>
      BY <1>1, <1>5, <2>3 DEF LookUp, Goto, AskerTypes
    <3> QED
      BY <1>3, <2>1, <3>1 DEF Whole, Missed, Collected
  <2> QED
    BY <2>2, <2>3
<1>6. CASE ReadHit(a)
  <2>1. /\ stored' = stored /\ pc[a] = "reading" /\ pc'[a] = "remembering"
        /\ UNCHANGED <<reply, pos, unit>>
    BY <1>1, <1>6 DEF ReadHit, Goto, instanceVars, AskerTypes
  <2> QED
    BY <1>3, <2>1 DEF Whole, Missed, Collected
<1>7. CASE ReadMiss(a)
  <2>1. /\ stored' = stored /\ pc'[a] = "asking" /\ UNCHANGED <<at, unit>>
    BY <1>1, <1>7 DEF ReadMiss, Goto, instanceVars, AskerTypes
  <2>2. disk[Key(a)] = NoVerdict
    BY <1>7 DEF ReadMiss, Alone, TypeOK, BoundTypes, IInv
  <2>3. \A k \in KeysOf(unit[a]) : disk[k] = NoVerdict
    <3>1. Key(a) \in KeysOf(unit[a]) /\ unit[a] \in Units
      BY <1>1, KeyInUnit DEF AskerTypes
    <3> QED
      BY <2>2, <3>1 DEF IInv, FileHoldsUnitsWhole
  <2> QED
    BY <1>2, <1>3, <2>1, <2>3 DEF Missed, Collected
<1>8. CASE ModelAnswers(a)
  <2>1. /\ stored' = stored /\ pc[a] = "asking" /\ pc'[a] = "storing"
        /\ UNCHANGED <<at, unit>>
    BY <1>1, <1>8 DEF ModelAnswers, Goto, instanceVars, AskerTypes
  <2> QED
    BY <1>2, <1>3, <2>1 DEF Whole, Missed, Collected
<1>9. CASE ModelFails(a)
  <2>1. stored' = stored /\ pc'[a] = "idle"
    BY <1>1, <1>9 DEF ModelFails, Goto, instanceVars, AskerTypes
  <2> QED
    BY <1>3, <2>1 DEF Missed, Collected
<1>10. CASE Send(a)
  <2>1. stored' = stored /\ pc'[a] = "told"
    BY <1>1, <1>10 DEF Send, Goto, AskerTypes
  <2> QED
    BY <1>3, <2>1 DEF Missed, Collected
<1>11. ASSUME Remember(a) \/ Store(a), Agree', Missed(a)', Collected(a)' PROVE Whole'
  <2>1. \A b \in Askers \ {a} : Collected(b)'
    BY <1>2 DEF Whole, Collected
  <2>2. ASSUME NEW b \in Askers \ {a} PROVE Missed(b)'
    <3>1. at[b] \in Instances /\ \A k \in KeysOf(unit[b]) : k \in Keys
      BY <1>1, UnitKeys DEF AskerTypes
    <3>2. Grows(stored[at[b]], stored'[at[b]])
      BY <1>11, <3>1, MapGrows
    <3> QED
      BY <1>2, <3>1, <3>2 DEF Whole, Missed, Grows
  <2> QED
    BY <1>11, <2>1, <2>2 DEF Whole
<1>12. CASE Remember(a)
  <2> DEFINE known == stored[at[a]][Key(a)]
             kept == IF known = NoVerdict THEN seen[a] ELSE known
  <2>1. /\ Hit(a, kept) /\ unit' = unit /\ pc[a] = "remembering"
        /\ stored' = [stored EXCEPT ![at[a]][Key(a)] = kept]
    BY <1>12 DEF Remember
  <2>2. seen[a] # NoVerdict /\ disk[Key(a)] = seen[a] /\ at[a] \in Instances /\ Key(a) \in Keys
    BY <1>1, <2>1, KeyInUnit DEF IInv, Reading, AskerTypes
  <2>3. kept = disk[Key(a)] /\ kept # NoVerdict
    BY <2>2 DEF Whole, Agree
  <2>4. Agree'
    BY <1>1, <1>2, <2>1, <2>2, <2>3 DEF Whole, Agree, InstanceTypes
  <2>5. Collected(a)' /\ pc'[a] \notin {"asking", "storing"}
    BY <1>1, <2>1, <2>3, HitCollects DEF Whole
  <2> QED
    BY <1>11, <1>12, <2>4, <2>5 DEF Missed
<1>13. CASE Store(a)
  <2> DEFINE known == stored[at[a]]
             merged == [k \in Keys |-> IF known[k] = NoVerdict THEN reply[a][k] ELSE known[k]]
  <2>1. pc[a] = "storing" /\ pc'[a] \in {"told", "sending"} /\ at[a] \in Instances
        /\ stored' = [stored EXCEPT ![at[a]] = merged]
    BY <1>1, <1>13 DEF Store, Goto, AskerTypes
  <2>2. ASSUME NEW k \in Keys, merged[k] # NoVerdict, disk[k] # NoVerdict
        PROVE  merged[k] = disk[k]
    <3>1. CASE known[k] # NoVerdict
      BY <2>1, <2>2, <3>1 DEF Whole, Agree
    <3>2. CASE known[k] = NoVerdict
      <4>1. k \in KeysOf(unit[a])
        BY <2>1, <2>2, <3>2 DEF IInv, Evaluated
      <4> QED
        BY <2>1, <2>2, <3>2, <4>1 DEF Whole, Missed
    <3> QED
      BY <3>1, <3>2
  <2> HIDE DEF merged
  <2>3. Agree'
    BY <1>1, <1>2, <2>1, <2>2 DEF Whole, Agree, InstanceTypes
  <2> QED
    BY <1>11, <1>13, <2>1, <2>3 DEF Missed, Collected
<1> QED
  BY <1>4, <1>5, <1>6, <1>7, <1>8, <1>9, <1>10, <1>12, <1>13 DEF CacheStep, Model

LEMMA WholeStep ==
  ASSUME Alone, IInv, Whole, [Next]_vars
  PROVE  Whole'
<1>1. CASE UNCHANGED vars
  BY <1>1 DEF vars, instanceVars, askerVars, Whole, Agree, Missed, Collected
<1> QED
  BY <1>1, WholeInstance, WholeWriter, WholeAsker DEF Next

(* A unit answered from the cache comes from one model call (extract.rs,   *)
(* SqliteCache::get).                                                      *)
THEOREM ServedWhole == Alone /\ Spec => []UnitServedWhole
<1>1. Init => Whole
  BY WholeInit
<1>2. IInv /\ Whole => UnitServedWhole
  <2> SUFFICES ASSUME IInv, Whole, NEW a \in Askers, pc[a] = "served",
                      NEW k \in KeysOf(unit[a]), NEW l \in KeysOf(unit[a])
               PROVE  reply[a][k] = reply[a][l]
    BY DEF UnitServedWhole
  <2>1. unit[a] \in Units /\ at[a] \in Instances /\ k \in Keys /\ l \in Keys
    BY UnitKeys DEF IInv, TypeOK, AskerTypes
  <2>2. \A m \in KeysOf(unit[a]) : reply[a][m] # NoVerdict /\ reply[a][m] = stored[at[a]][m]
    BY <2>1, UnitKeys DEF IInv, NeverAnswersTwoWays, Held, Whole, Collected
  <2>3. CASE Uniform(unit[a], stored[at[a]])
    BY <2>2, <2>3 DEF Uniform
  <2>4. CASE OnFile(disk, unit[a])
    <3>1. disk[k] = disk[l] /\ disk[k] # NoVerdict /\ disk[l] # NoVerdict
      BY <2>1, <2>4 DEF IInv, FileHoldsUnitsWhole, OnFile
    <3> QED
      BY <2>1, <2>2, <3>1 DEF Whole, Agree
  <2> QED
    BY <2>1, <2>3, <2>4 DEF IInv, Maps
<1>3. ASSUME Alone PROVE Spec => []UnitServedWhole
  <2>1. IInv /\ Whole /\ [Next]_vars => Whole'
    BY <1>3, WholeStep
  <2> QED
    BY <1>1, <1>2, <2>1, Inductive, PTL DEF Spec
<1> QED
  BY <1>3
=============================================================================
