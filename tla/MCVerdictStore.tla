--------------------------- MODULE MCVerdictStore ---------------------------
(* VerdictStore on a unit of two keys and a unit of one.                   *)
EXTENDS VerdictStore, TLC
CONSTANTS k1, k2, k3
PairAndSingle == {<<k1, k2>>, <<k3>>}
Pair == {<<k1, k2>>}
Symmetry == Permutations(Instances) \union Permutations(Askers)
=============================================================================
