---------------------------- MODULE Subsequences -----------------------------
(***************************************************************************)
(* Parts of a sequence, in its order: at some positions, or of some        *)
(* elements. Rust's filter and collect, and sorting of a set of indices.   *)
(***************************************************************************)
EXTENDS Integers, Sequences, FiniteSets

(***************************************************************************)
(* The elements of a finite set of integers, least first.                  *)
(***************************************************************************)
Nth(S, n) == CHOOSE e \in S : Cardinality({x \in S : x <= e}) = n

InOrder(S) == [n \in 1 .. Cardinality(S) |-> Nth(S, n)]

(***************************************************************************)
(* The part of s at some of its positions.                                 *)
(***************************************************************************)
At(s, positions) == [n \in 1 .. Cardinality(positions) |-> s[Nth(positions, n)]]

(***************************************************************************)
(* The elements of s that are in S, and each element at its first place.   *)
(***************************************************************************)
Only(s, S) == At(s, {i \in DOMAIN s : s[i] \in S})

Firsts(s) == At(s, {i \in DOMAIN s : \A j \in 1 .. i - 1 : s[j] # s[i]})
=============================================================================
