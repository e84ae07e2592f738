--------------------------- MODULE MCJobRegistry ---------------------------
(* Small instances of JobRegistry: the configurations MCJobs_*.cfg.        *)
EXTENDS JobRegistry, TLC
CONSTANTS j1, j2

(* Statements: a query that asks a model and a command that does not, or   *)
(* the other way round.                                                    *)
WholeOrBare == {[rows |-> TRUE, semantic |-> TRUE], [rows |-> FALSE, semantic |-> FALSE]}
Mixed == {[rows |-> TRUE, semantic |-> FALSE], [rows |-> FALSE, semantic |-> TRUE]}

(* Plan lines and ticks per job, besides the final totals.                 *)
None == [j \in Jobs |-> 0]
OneEach == [j \in Jobs |-> 1]
OneOfFirst == [j \in Jobs |-> IF j = j1 THEN 1 ELSE 0]

(* Job ids are interchangeable in the safety runs.                         *)
Symmetry == Permutations(Jobs)
=============================================================================
