------------------------------ MODULE Grouping ------------------------------
(***************************************************************************)
(* Two operators that group the documents of a whole relation by their     *)
(* vectors in the index: SEMANTIC DISTINCT ON keys each row by the first   *)
(* document it nearly repeats, CLUSTER BY labels it with the name a model  *)
(* gives its k-means cluster.                                              *)
(*                                                                         *)
(* A vector is a place on a line. Means of places are rationals, a sum     *)
(* over a count, compared by cross-multiplication.                         *)
(***************************************************************************)
EXTENDS Integers, Sequences, FiniteSets, FiniteSetsExt, Subsequences

CONSTANTS
    Documents,      \* naturals, in the order of their hashes
    Null,           \* a row without text
    Place,          \* Place[d]: where d's vector lies
    Near,           \* WITH SIMILARITY: the distance up to which texts repeat
    Relations,      \* the relations the operators are run on
    Ks,             \* the cluster counts INTO names
    AutoKs,         \* AUTO_K, the counts tried when it names none
    MaxIterations,  \* MAX_ITERATIONS
    Names,          \* what the labelling model may answer
    MaxGroupings    \* bound on statements

ASSUME TextsAssumption == Documents \subseteq Nat /\ Null \notin Documents
ASSUME PlaceAssumption == Place \in [Documents -> Int] /\ Near \in Nat
ASSUME GroupingAssumption ==
    /\ Relations \subseteq Seq(Documents \union {Null})
    /\ Ks \union AutoKs \subseteq Nat \ {0}
    /\ MaxIterations \in Nat \ {0}
    /\ MaxGroupings \in Nat

VARIABLES
    named,      \* the cached name of each set of documents that has one
    groupings,  \* statements begun
    grouping    \* the statement running

groupingVars == <<named, groupings, grouping>>

Idle == [pc |-> "idle", rows |-> <<>>, vectors |-> {}, docs |-> <<>>, k |-> 0,
         centroids |-> <<>>, assignments |-> <<>>, iterations |-> 0, names |-> <<>>,
         keys |-> <<>>]

GroupingInit ==
    /\ named = <<>>
    /\ groupings = 0
    /\ grouping = Idle

(***************************************************************************)
(* The index's vectors are read before the input. The documents are those  *)
(* of the input that have one, each once.                                  *)
(***************************************************************************)
ReadVectors ==
    /\ grouping.pc \in {"idle", "keyed", "labelled", "failed"}
    /\ groupings < MaxGroupings
    /\ groupings' = groupings + 1
    /\ \E vectors \in SUBSET Documents :
         grouping' = [Idle EXCEPT !.pc = "vectors", !.vectors = vectors]
    /\ UNCHANGED named

GroupingFails ==
    /\ grouping.pc = "vectors"
    /\ grouping' = [grouping EXCEPT !.pc = "failed"]
    /\ UNCHANGED <<named, groupings>>

Present(rows) == {rows[i] : i \in DOMAIN rows} \intersect grouping.vectors

FirstSeen(rows) == Only(Firsts(rows), grouping.vectors)

(***************************************************************************)
(* greedy_groups: in order, a document joins the nearest representative    *)
(* within reach, the latest of equally near ones, or represents itself.    *)
(***************************************************************************)
Apart(a, b) == IF Place[a] > Place[b] THEN Place[a] - Place[b] ELSE Place[b] - Place[a]

\* Mutant: a document is compared with the one before it.
RepresentativesByChain(docs) ==
    {i \in DOMAIN docs : i = 1 \/ Apart(docs[i], docs[i - 1]) > Near}

Representatives(docs) ==
    LET upTo[n \in 0 .. Len(docs)] ==
          IF n = 0 THEN {}
          ELSE IF \E r \in upTo[n - 1] : Apart(docs[n], docs[r]) <= Near
               THEN upTo[n - 1]
               ELSE upTo[n - 1] \union {n}
    IN  upTo[Len(docs)]

Representative(docs, i) ==
    LET reps == {r \in Representatives(docs) : r <= i}
        nearest == {r \in reps : \A s \in reps : Apart(docs[i], docs[r]) <= Apart(docs[i], docs[s])}
    IN  Max(nearest)

(***************************************************************************)
(* The key of a row is its representative; an unindexed document is its    *)
(* own; NULL has none.                                                     *)
(***************************************************************************)
KeyRows ==
    /\ grouping.pc = "vectors"
    /\ \E rows \in Relations :
         LET docs == FirstSeen(rows)
             key(d) == IF \E i \in DOMAIN docs : docs[i] = d
                       THEN docs[Representative(docs, CHOOSE i \in DOMAIN docs : docs[i] = d)]
                       ELSE d
         IN  grouping' = [grouping EXCEPT !.pc = "keyed", !.rows = rows, !.docs = docs,
                                          !.keys = [i \in DOMAIN rows |-> key(rows[i])]]
    /\ UNCHANGED <<named, groupings>>

(***************************************************************************)
(* k-means: k of the points seed the centroids; then each point goes to    *)
(* the first of the nearest centroids and each centroid to the mean of its *)
(* points, until no point moves. The fixed pseudo-random draw of seeds is  *)
(* any draw here, and of the counts the sweep tries any may score best.    *)
(***************************************************************************)
CountsFor(n) ==
    LET tried == {k \in AutoKs : k < n}
    IN  {Min({k, n}) : k \in Ks} \union (IF tried = {} THEN {n} ELSE tried)

CollectDocuments ==
    /\ grouping.pc = "vectors"
    /\ \E rows \in Relations :
         LET docs == InOrder(Present(rows))
         IN  \E k \in CountsFor(Len(docs)) :
               grouping' = [grouping EXCEPT
                              !.pc = IF docs = <<>> THEN "labelled" ELSE "seed",
                              !.rows = rows, !.docs = docs, !.k = k,
                              !.assignments = [i \in DOMAIN docs |-> 1],
                              !.keys = [i \in DOMAIN rows |-> Null]]
    /\ UNCHANGED <<named, groupings>>

Point(i) == Place[grouping.docs[i]]

Seed ==
    /\ grouping.pc = "seed"
    /\ \E chosen \in [1 .. grouping.k -> DOMAIN grouping.docs] :
         grouping' = [grouping EXCEPT !.pc = "assign",
                        !.centroids = [c \in 1 .. grouping.k |->
                                         [sum |-> Point(chosen[c]), count |-> 1]]]
    /\ UNCHANGED <<named, groupings>>

\* The distance of a point to c is strictly less than to d.
Closer(p, c, d) ==
    LET toC == p * c.count - c.sum
        toD == p * d.count - d.sum
    IN  toC * toC * d.count * d.count < toD * toD * c.count * c.count

NearestCentroid(p, centroids) ==
    Min({c \in DOMAIN centroids :
           \A d \in DOMAIN centroids : ~Closer(p, centroids[d], centroids[c])})

Total(docs, members) ==
    LET upTo[n \in 0 .. Len(docs)] ==
          IF n = 0 THEN 0 ELSE upTo[n - 1] + (IF n \in members THEN Place[docs[n]] ELSE 0)
    IN  upTo[Len(docs)]

Mean(docs, members, previous) ==
    IF members = {} THEN previous
    ELSE [sum |-> Total(docs, members), count |-> Cardinality(members)]

Members(c) == {i \in DOMAIN grouping.docs : grouping.assignments[i] = c}

\* Mutant: the first point alone says whether any has moved.
AssignWatchesFirst ==
    LET nearest == [i \in DOMAIN grouping.docs |-> NearestCentroid(Point(i), grouping.centroids)]
        moved == nearest[1] # grouping.assignments[1]
    IN  /\ grouping.pc = "assign"
        /\ grouping' = [grouping EXCEPT !.assignments = nearest, !.iterations = @ + 1,
                                        !.pc = IF moved THEN "recentre" ELSE "name"]
        /\ UNCHANGED <<named, groupings>>

Assign ==
    LET nearest == [i \in DOMAIN grouping.docs |-> NearestCentroid(Point(i), grouping.centroids)]
        moved == nearest # grouping.assignments
    IN  /\ grouping.pc = "assign"
        /\ grouping' = [grouping EXCEPT !.assignments = nearest, !.iterations = @ + 1,
                                        !.pc = IF moved THEN "recentre" ELSE "name"]
        /\ UNCHANGED <<named, groupings>>

Recentre ==
    /\ grouping.pc = "recentre"
    /\ grouping' = [grouping EXCEPT
                      !.pc = IF grouping.iterations = MaxIterations THEN "name" ELSE "assign",
                      !.centroids = [c \in DOMAIN @ |-> Mean(grouping.docs, Members(c), @[c])]]
    /\ UNCHANGED <<named, groupings>>

(***************************************************************************)
(* A name is a sequence: what the model said, and the numbers that told it *)
(* apart. "A (2)" is <<"A", 2>> whoever wrote it. Empty clusters and those *)
(* the model fails to name get their position; only the model's names are  *)
(* cached, by the set of documents they stand for.                         *)
(***************************************************************************)
FallbackName(c) == <<"group", c>>

Deduplicate(names) ==
    [c \in DOMAIN names |->
       LET count == Cardinality({b \in 1 .. c : names[b] = names[c]})
       IN  IF count = 1 THEN names[c] ELSE Append(names[c], count)]

NameClusters ==
    LET documents(c) == {grouping.docs[i] : i \in Members(c)}
        filled == {c \in 1 .. grouping.k : Members(c) # {}}
        asked == {c \in filled : documents(c) \notin DOMAIN named}
    IN  /\ grouping.pc = "name"
        /\ \E usable \in SUBSET asked : \E answer \in [usable -> Names] :
             LET names == [c \in 1 .. grouping.k |->
                             IF c \in usable THEN answer[c]
                             ELSE IF c \in filled \ asked THEN named[documents(c)]
                             ELSE FallbackName(c)]
                 label == Deduplicate(names)
                 fresh == {documents(c) : c \in usable}
             IN  /\ named' = [docs \in DOMAIN named \union fresh |->
                                IF docs \in DOMAIN named THEN named[docs]
                                ELSE answer[CHOOSE c \in usable : documents(c) = docs]]
                 /\ grouping' = [grouping EXCEPT !.pc = "labelled", !.names = label,
                      !.keys = [i \in DOMAIN grouping.rows |->
                                  IF \E j \in DOMAIN grouping.docs : grouping.docs[j] = grouping.rows[i]
                                  THEN label[grouping.assignments[CHOOSE j \in DOMAIN grouping.docs :
                                                grouping.docs[j] = grouping.rows[i]]]
                                  ELSE Null]]
        /\ UNCHANGED groupings

GroupingNext ==
    \/ ReadVectors \/ GroupingFails
    \/ KeyRows
    \/ CollectDocuments \/ Seed \/ Assign \/ Recentre \/ NameClusters

(***************************************************************************)
(* Properties                                                              *)
(***************************************************************************)

\* SEMANTIC DISTINCT ON keeps rows that differ and drops rows that repeat: a
\* dropped document lies within reach of the earlier one it is dropped for,
\* and no two kept ones lie within reach of each other. (greedy_groups.)
KeptRowsDiffer ==
    grouping.pc = "keyed" =>
      LET rows == {i \in DOMAIN grouping.rows : grouping.rows[i] \in grouping.vectors}
          kept == {i \in rows : grouping.keys[i] = grouping.rows[i]}
      IN  /\ \A i \in rows : \E j \in kept :
               /\ j <= i
               /\ grouping.keys[i] = grouping.rows[j]
               /\ Apart(grouping.rows[i], grouping.rows[j]) <= Near
          /\ \A i, j \in kept : grouping.rows[i] # grouping.rows[j] =>
               Apart(grouping.rows[i], grouping.rows[j]) > Near

\* When k-means ends before its cap, no document lies nearer to the mean of
\* another cluster than to the mean of its own, however it was seeded and
\* whichever clusters are empty. (kmeans.)
ClustersSettle ==
    grouping.pc = "name" /\ grouping.iterations < MaxIterations =>
      LET mean(c) == Mean(grouping.docs, Members(c), grouping.centroids[c])
      IN  \A i \in DOMAIN grouping.docs, c \in 1 .. grouping.k :
            Members(c) # {} => ~Closer(Point(i), mean(c), mean(grouping.assignments[i]))
============================================================================
