---------------------------- MODULE MeansFunnel ----------------------------
(***************************************************************************)
(* One MEANS predicate per query, run in partitions. With an index, an     *)
(* IndexScanExec prunes the rows that scored below the floor and a         *)
(* VerifyExec asks the model about the others; the two share one evidence  *)
(* cell, filled by whichever partition polls first. Without an index the   *)
(* model reads every row. Builders change the index meanwhile.             *)
(***************************************************************************)
EXTENDS SemanticIndex

CONSTANTS
    Partitions,
    Floor        \* SearchParams.score_floor

ASSUME FloorAssumption == Floor \in Int /\ 0 \notin Partitions

VARIABLES
    query,   \* per query: its plan, the snapshot being scanned, the evidence cell
    part     \* per query and partition: its batch of rows and where each went

meansVars == <<query, part>>

Unset == [set |-> FALSE, chunks |-> <<>>, indexed |-> {}]
Batches == [pc : {"idle", "scan", "verify", "done", "failed"},
            rows : SUBSET (Docs \union {Null}),
            hits : SUBSET Docs, pruned : SUBSET (Docs \union {Null}),
            through : SUBSET Docs, excerpts : SUBSET Docs]
NoBatch == [pc |-> "idle", rows |-> {}, hits |-> {}, pruned |-> {}, through |-> {},
            excerpts |-> {}]

MeansTypeOK ==
    /\ \A q \in Queries, p \in Partitions : part[q][p] \in Batches
    /\ \A q \in Queries :
         /\ query[q].planned \in BOOLEAN
         /\ query[q].index \in 0 .. Len(indexes)
         /\ query[q].filler \in Partitions \union {0}
         /\ query[q].filler # 0 => query[q].vector \in Embedders
         /\ query[q].cell.set => query[q].index # 0
         /\ DOMAIN query[q].cell.chunks \subseteq query[q].cell.indexed

MeansInit ==
    /\ query = [q \in Queries |->
                  [planned |-> FALSE, index |-> 0, filler |-> 0,
                   snapshot |-> <<>>, vector |-> 0, cell |-> Unset]]
    /\ part = [q \in Queries |-> [p \in Partitions |-> NoBatch]]

(***************************************************************************)
(* Planning looks the column up in the registry and builds the funnel over *)
(* the index object it finds, or the verify stage alone. Each row goes to  *)
(* some partition.                                                         *)
(***************************************************************************)
Plan(q) ==
    /\ ~query[q].planned
    /\ query' = [query EXCEPT ![q].planned = TRUE, ![q].index = registered]
    /\ \E home \in [table -> Partitions] :
         part' = [part EXCEPT ![q] = [p \in Partitions |->
                    LET rows == {r \in table : home[r] = p}
                    IN  IF registered # 0
                        THEN [NoBatch EXCEPT !.pc = "scan", !.rows = rows]
                        ELSE [NoBatch EXCEPT !.pc = "verify", !.rows = rows]]]

(***************************************************************************)
(* ChunkEvidence.get_or_try_init: one partition runs the prefilter, the    *)
(* others wait; if it fails its partition fails, and the next runs it      *)
(* again. A scan embeds the condition, then clones the dataset under its   *)
(* lock and reads hits and membership from the clone.                      *)
(***************************************************************************)
\* Mutant: every partition prefilters for itself and overwrites the cell.
MayFillAgain(q, p) == part[q][p].pc = "scan" /\ query[q].filler # p

MayFill(q, p) ==
    /\ part[q][p].pc = "scan"
    /\ ~query[q].cell.set
    /\ query[q].filler = 0

TakeSnapshot(q, p) ==
    /\ MayFill(q, p)
    /\ \E e \in Embedders :
         /\ Dim[e] = indexes[query[q].index].dim
         /\ query' = [query EXCEPT ![q] =
                        [@ EXCEPT !.filler = p, !.vector = e,
                                  !.snapshot = indexes[query[q].index].dataset]]
    /\ UNCHANGED part

\* Mutant: the membership is read from the index, not from the clone.
FilterScanTwice(q) ==
    LET snapshot == query[q].snapshot
        e == query[q].vector
        hits == Hits(snapshot, e, Above(snapshot, e, Floor))
    IN  [set |-> TRUE, chunks |-> BucketChunks(hits, ChunksPerDoc),
         indexed |-> DocHashes(indexes[query[q].index].dataset)]

FilterScan(q) ==
    LET snapshot == query[q].snapshot
        e == query[q].vector
        hits == Hits(snapshot, e, Above(snapshot, e, Floor))
    IN  [set |-> TRUE, chunks |-> BucketChunks(hits, ChunksPerDoc), indexed |-> DocHashes(snapshot)]

FillCell(q, p) ==
    /\ query[q].filler = p
    /\ query' = [query EXCEPT ![q].filler = 0, ![q].cell = FilterScan(q)]
    /\ UNCHANGED part

PrefilterFails(q, p) ==
    /\ MayFill(q, p) \/ query[q].filler = p
    /\ query' = [query EXCEPT ![q].filler = 0]
    /\ part' = [part EXCEPT ![q][p].pc = "failed"]

(***************************************************************************)
(* Three ways for a row: scored at the floor or above, known but below it, *)
(* never indexed. Text that is NULL never matches.                         *)
(***************************************************************************)
ScanBatch(q, p) ==
    LET cell == query[q].cell
        texts == part[q][p].rows \ {Null}
        hits == texts \intersect DOMAIN cell.chunks
        known == texts \intersect cell.indexed
    IN  /\ part[q][p].pc = "scan"
        /\ cell.set
        /\ part' = [part EXCEPT ![q][p] =
                     [@ EXCEPT !.pc = "verify", !.hits = hits,
                               !.pruned = (known \ hits) \union ({Null} \intersect part[q][p].rows),
                               !.through = texts \ (hits \union known)]]
        /\ UNCHANGED query

(***************************************************************************)
(* The verify stage reads what the scan let through (all of it, without a  *)
(* scan). A row with evidence in the cell is judged on its excerpts, any   *)
(* other on its full text. The verdicts themselves are left out: no later  *)
(* step depends on them, and caching them is VerdictStore's business.      *)
(***************************************************************************)
Evidence(q, d) == query[q].cell.set /\ d \in DOMAIN query[q].cell.chunks

VerifyBatch(q, p) ==
    LET batch == part[q][p]
        read == IF query[q].index # 0 THEN batch.hits \union batch.through
                                      ELSE batch.rows \ {Null}
    IN  /\ batch.pc = "verify"
        /\ part' = [part EXCEPT ![q][p] =
                     [@ EXCEPT !.pc = "done", !.excerpts = {d \in read : Evidence(q, d)}]]
        /\ UNCHANGED query

PartitionStep(q, p) ==
    \/ TakeSnapshot(q, p) \/ FillCell(q, p) \/ PrefilterFails(q, p)
    \/ ScanBatch(q, p) \/ VerifyBatch(q, p)

MeansStep(q) == Plan(q) \/ \E p \in Partitions : PartitionStep(q, p)
============================================================================
