--------------------------- MODULE SemanticTypes ---------------------------
(***************************************************************************)
(* Semantic types: what CREATE SEMANTIC TYPE accepts, the generation units *)
(* of a type, and the part of it that a query's fields reach. A field      *)
(* stands for its name, type and doc.                                      *)
(***************************************************************************)
EXTENDS Integers, Sequences, SequencesExt, FiniteSets, Subsequences

(***************************************************************************)
(* The entries of a CREATE SEMANTIC TYPE: plain fields, and TOGETHER       *)
(* groups of at least two. No name occurs twice.                           *)
(***************************************************************************)
DeclaredFields(entries) == FlattenSeq([i \in DOMAIN entries |-> entries[i].fields])

WellFormed(entries) ==
    /\ entries # <<>>
    /\ \A i \in DOMAIN entries : entries[i].together => Len(entries[i].fields) >= 2
    /\ IsInjective(DeclaredFields(entries))

TypeOf(entries) ==
    [fields   |-> DeclaredFields(entries),
     together |-> {ToSet(entries[i].fields) : i \in {j \in DOMAIN entries : entries[j].together}}]

(***************************************************************************)
(* One unit is one model call's share and one cache entry's: a group, in   *)
(* declaration order, or a field alone.                                    *)
(***************************************************************************)
UnitOf(type, field) ==
    LET group == UNION {g \in type.together : field \in g}
    IN  IF group = {} THEN <<field>> ELSE Only(type.fields, group)

GenerationUnits(type) ==
    Firsts([i \in DOMAIN type.fields |-> UnitOf(type, type.fields[i])])

(***************************************************************************)
(* Field pushdown: the fields a query names and their groups.              *)
(***************************************************************************)
Narrowed(type, kept) ==
    [fields   |-> Only(type.fields, kept),
     together |-> {g \in type.together : g \intersect kept # {}}]

\* Mutant: only the fields the query names.
PrunedAlone(type, fields) == Narrowed(type, fields)

Pruned(type, fields) ==
    Narrowed(type, fields \union UNION {g \in type.together : g \intersect fields # {}})
============================================================================
