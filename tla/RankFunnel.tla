---------------------------- MODULE RankFunnel -----------------------------
(***************************************************************************)
(* ORDER BY ... RELEVANCE TO ... LIMIT k: one search picks candidate       *)
(* documents, a second read of the index tells losing documents from       *)
(* unindexed ones, and one batch of model calls scores the candidates      *)
(* among the rows. Builders change the index between the two reads.        *)
(***************************************************************************)
EXTENDS SemanticIndex

CONSTANTS
    Limits,          \* the LIMITs they carry
    OverFetch,       \* OVER_FETCH
    MinCandidates,   \* MIN_CANDIDATES
    UsizeMax         \* the greatest usize

ASSUME RankAssumption ==
    /\ Limits \subseteq Nat
    /\ {OverFetch, MinCandidates, UsizeMax} \subseteq Nat

VARIABLE rank   \* per query: its plan, its candidates and where each row went

RankTypeOK ==
    \A q \in Queries :
      /\ rank[q].pc \in {"idle", "search", "membership", "keep", "score", "done", "failed"}
      /\ rank[q].index \in 0 .. Len(indexes)
      /\ rank[q].limit \in Nat
      /\ rank[q].rows \subseteq Docs \union {Null}
      /\ rank[q].known \union rank[q].indexed \subseteq Docs
      /\ rank[q].scored \subseteq rank[q].kept
      /\ rank[q].kept \subseteq rank[q].rows \ {Null}
      /\ rank[q].pruned \union rank[q].unindexed \subseteq rank[q].rows

RankInit ==
    rank = [q \in Queries |->
              [pc |-> "idle", index |-> 0, limit |-> 0, rows |-> {}, evidence |-> <<>>,
               known |-> {}, indexed |-> {}, kept |-> {}, pruned |-> {}, unindexed |-> {},
               scored |-> {}]]

Larger(x, y) == IF x > y THEN x ELSE y
Smaller(x, y) == IF x < y THEN x ELSE y

(***************************************************************************)
(* The sizes of the candidate stage: the product of limit and over-fetch   *)
(* wraps, the one of candidates and excerpts saturates.                    *)
(***************************************************************************)
Candidates(limit) == Larger((limit * OverFetch) % (UsizeMax + 1), MinCandidates)
FetchK(limit) == Smaller(Candidates(limit) * Larger(ChunksPerDoc, 1), UsizeMax)

(***************************************************************************)
(* Planning fails without an index on the column.                          *)
(***************************************************************************)
PlanRank(q) ==
    /\ rank[q].pc = "idle"
    /\ \E limit \in Limits :
         rank' = [rank EXCEPT ![q] =
                    [@ EXCEPT !.pc = IF registered = 0 THEN "failed" ELSE "search",
                              !.index = registered, !.limit = limit, !.rows = table]]

(***************************************************************************)
(* Chunks of documents already among the candidates add to their evidence; *)
(* the chunk of a new document opens an entry while there is room.         *)
(***************************************************************************)
FirstDocs(hits, n) ==
    {d \in HitDocs(hits) :
        \E i \in DOMAIN hits :
          /\ hits[i].doc = d
          /\ Cardinality(HitDocs(SubSeq(hits, 1, i))) <= n}

BucketCandidates(hits, n) ==
    [d \in FirstDocs(hits, n) |-> BucketChunks(hits, ChunksPerDoc)[d]]

Search(q) ==
    /\ rank[q].pc = "search"
    /\ \E e \in Embedders :
         LET dataset == indexes[rank[q].index].dataset
             hits == Nearest(dataset, e, FetchK(rank[q].limit))
         IN  /\ Dim[e] = indexes[rank[q].index].dim
             /\ rank' = [rank EXCEPT ![q] =
                           [@ EXCEPT !.pc = "membership", !.known = DocHashes(dataset),
                                     !.evidence = BucketCandidates(hits, Candidates(rank[q].limit))]]

ReadMembership(q) ==
    /\ rank[q].pc = "membership"
    /\ rank' = [rank EXCEPT ![q] =
                  [@ EXCEPT !.pc = "keep", !.indexed = DocHashes(indexes[rank[q].index].dataset)]]

(***************************************************************************)
(* Every batch of the input, then one batch of calls for the distinct      *)
(* texts kept; a call without a usable number leaves the score NULL.       *)
(***************************************************************************)
KeepCandidates(q) ==
    LET texts == rank[q].rows \ {Null}
        kept == texts \intersect DOMAIN rank[q].evidence
        losing == (texts \intersect rank[q].indexed) \ kept
    IN  /\ rank[q].pc = "keep"
        /\ rank' = [rank EXCEPT ![q] =
                      [@ EXCEPT !.pc = "score", !.kept = kept,
                                !.pruned = losing \union ({Null} \intersect rank[q].rows),
                                !.unindexed = texts \ (kept \union losing)]]

ScoreCandidates(q) ==
    /\ rank[q].pc = "score"
    /\ \E usable \in SUBSET rank[q].kept :
         rank' = [rank EXCEPT ![q] = [@ EXCEPT !.pc = "done", !.scored = usable]]

RankFails(q) ==
    /\ rank[q].pc \in {"search", "membership"}
    /\ rank' = [rank EXCEPT ![q].pc = "failed"]

RankStep(q) ==
    \/ PlanRank(q) \/ Search(q) \/ ReadMembership(q)
    \/ KeepCandidates(q) \/ ScoreCandidates(q) \/ RankFails(q)
============================================================================
