--------------------------- MODULE VerdictContract --------------------------
(***************************************************************************)
(* What the verdict cache promises, without threads, channels or lookups   *)
(* (docs of cache/mod.rs and cache/sqlite.rs; the code is VerdictStore).   *)
(* Instances remember verdicts; a shared file keeps some of them.  An      *)
(* instance changes its mind about no key before it forgets everything;    *)
(* the file changes its mind never, and it takes units whole.              *)
(***************************************************************************)
EXTENDS Naturals, Sequences

CONSTANTS Instances, Keys, Units, Calls

VARIABLES
  file,    \* verdict per key, 0 if there is none
  memory   \* per instance: verdict per key, 0 if there is none

KeysIn(u) == {u[n] : n \in 1..Len(u)}

ContractInit ==
  /\ file = [k \in Keys |-> 0]
  /\ memory = [i \in Instances |-> [k \in Keys |-> 0]]

(* The instance adopts the verdict of the file for a key it has none for.  *)
Adopt(i, k) ==
  /\ memory[i][k] = 0
  /\ file[k] # 0
  /\ memory' = [memory EXCEPT ![i][k] = file[k]]
  /\ UNCHANGED file

(* The model evaluates a unit; keys that have a verdict keep it.           *)
Evaluate(i, u, call) ==
  /\ memory' = [memory EXCEPT ![i] =
                  [k \in Keys |-> IF k \in KeysIn(u) /\ @[k] = 0 THEN call ELSE @[k]]]
  /\ UNCHANGED file

(* Units the file has none of are written whole, as the instance holds     *)
(* them.                                                                   *)
Persist(i, written) ==
  /\ \A u \in written : \A k \in KeysIn(u) : file[k] = 0 /\ memory[i][k] # 0
  /\ file' = [k \in Keys |-> IF \E u \in written : k \in KeysIn(u)
                             THEN memory[i][k] ELSE file[k]]
  /\ UNCHANGED memory

(* The instance ends, cleanly or not, or a new one takes its place.        *)
Forget(i) ==
  /\ memory' = [memory EXCEPT ![i] = [k \in Keys |-> 0]]
  /\ UNCHANGED file

ContractNext ==
  \E i \in Instances :
    \/ \E k \in Keys : Adopt(i, k)
    \/ \E u \in Units, call \in Calls : Evaluate(i, u, call)
    \/ \E written \in SUBSET Units : Persist(i, written)
    \/ Forget(i)

ContractSpec == ContractInit /\ [][ContractNext]_<<file, memory>>
=============================================================================
