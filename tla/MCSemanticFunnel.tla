-------------------------- MODULE MCSemanticFunnel --------------------------
EXTENDS SemanticFunnel, TLC
CONSTANTS near, far, blank, null, b1, b2, p1, p2

(* near has a chunk on either side of the floor, far none above it, blank is
   whitespace. *)
Scores == [d \in {near, far, blank} |->
             CASE d = near -> <<4, 9>> [] d = far -> <<3>> [] d = blank -> <<>>]
OneEmbedder == [e \in {1} |-> 4]
TwoEmbedders == [e \in {1, 2} |-> 4]
Interchangeable == Permutations({b1, b2}) \union Permutations({p1, p2})
============================================================================
