--------------------------- MODULE SemanticFunnel ---------------------------
(***************************************************************************)
(* MEANS queries and rankings over one semantic index while tasks create   *)
(* and refresh it and the table changes.                                   *)
(***************************************************************************)
EXTENDS MeansFunnel, RankFunnel

vars == <<indexVars, meansVars, rank>>

TypeOK == IndexTypeOK /\ MeansTypeOK /\ RankTypeOK

Init == IndexInit /\ MeansInit /\ RankInit

(***************************************************************************)
(* A statement holds a MEANS or a ranking.                                 *)
(***************************************************************************)
Next ==
    \/ IndexNext /\ UNCHANGED <<meansVars, rank>>
    \/ \E q \in Queries :
         \/ rank[q].pc = "idle" /\ MeansStep(q) /\ UNCHANGED <<indexVars, rank>>
         \/ ~query[q].planned /\ RankStep(q) /\ UNCHANGED <<indexVars, meansVars>>

Spec == Init /\ [][Next]_vars

(***************************************************************************)
(* Properties                                                              *)
(***************************************************************************)

\* A row the index scan drops was scored by that same scan, below the floor:
\* however indexes are refreshed and replaced meanwhile, no row is lost for
\* being new. (IndexScanExec.scan_batch over LanceIndex.filter_scan.)
PrunedWasScored ==
    \A q \in Queries, p \in Partitions :
      \A d \in part[q][p].pruned \ {Null} :
        /\ d \in DocHashes(query[q].snapshot)
        /\ \A i \in DOMAIN query[q].snapshot : query[q].snapshot[i].doc = d =>
             \A c \in DOMAIN Score[d] :
               ChunkScore(query[q].snapshot[i], c, query[q].vector) < Floor

\* What the scan let through as a hit the model judges on its excerpts, what
\* it let through as unindexed on the full text: all partitions of a query and
\* both its stages go by one prefilter. (ChunkEvidence shared by the stages.)
ReadAsScanned ==
    \A q \in Queries, p \in Partitions :
      part[q][p].pc = "done" => part[q][p].excerpts = part[q][p].hits

\* The registry never offers an index that lacks a text its builder read: not
\* while it is being filled, not after a build failed halfway. (register_index
\* as the last step of create_semantic_index.)
RegisteredIsWhole ==
    registered # 0 =>
        indexes[registered].owed \subseteq DocHashes(indexes[registered].dataset)

\* A document the ranking drops as a loser, and that the search could see, is
\* no better than any document it keeps. (bucket_candidates.)
LosersAreWorse ==
    \A q \in Queries : rank[q].pc \in {"score", "done"} =>
      \A d \in rank[q].pruned \intersect rank[q].known, k \in DOMAIN rank[q].evidence :
        \E i \in DOMAIN Score[k] : \A j \in DOMAIN Score[d] : Score[k][i] >= Score[d][j]

\* An index and the queries over it keep to one vector space. (index/mod.rs:
\* "Searching with a different embedder is an error, never a silent mismatch".)
OneVectorSpace ==
    \A q \in Queries : query[q].vector # 0 =>
      \A i \in DOMAIN query[q].snapshot :
        \A c \in DOMAIN query[q].snapshot[i].embedders :
          query[q].snapshot[i].embedders[c] = query[q].vector
============================================================================
