--------------------------- MODULE SemanticIndex ---------------------------
(***************************************************************************)
(* A semantic index over one text column: its Lance dataset behind a       *)
(* mutex, the session's registry of indexes, and the builders that create  *)
(* and refresh indexes while others read them.                             *)
(*                                                                         *)
(* A document is its text, a chunk its position in the text. Vectors are   *)
(* abstracted to what a query's similarity scan sees: the score of each    *)
(* chunk and the embedder of the chain that produced its vector.           *)
(*                                                                         *)
(* Every index of the column is written to the one directory named after   *)
(* it: creating one overwrites the dataset of the one before. Lance keeps  *)
(* the old versions, so whoever still holds the older index reads what it  *)
(* read before, and refuses to append to a version that was overwritten.   *)
(***************************************************************************)
EXTENDS Integers, Sequences, SequencesExt, FiniteSets

CONSTANTS
    Docs,       \* the texts the column may hold
    Null,       \* a row without text
    Score,      \* Score[d][c]: similarity of chunk c of d to the condition
    Embedders,  \* the links of the embedder chain, in order: 1 .. n
    Dim,        \* Dim[e]: the dimension of e's vectors
    EmbedBatch, \* chunks per embedding call, embed_batch_size
    Foreign,    \* what comparing vectors of two embedders yields
    Queries,    \* statements that read the index
    ChunksPerDoc,  \* SearchParams.chunks_per_doc
    Builders,   \* tasks that create or refresh indexes
    MaxBuilds,  \* bound on creations and refreshes
    MaxEdits    \* bound on changes of the table

ASSUME DocsAssumption == Null \notin Docs /\ IsFiniteSet(Docs)
ASSUME ScoreAssumption == Score \in [Docs -> Seq(Int)] /\ Foreign \in Int
ASSUME EmbeddersAssumption ==
    /\ Embedders \subseteq Nat
    /\ Embedders # {}
    /\ Dim \in [Embedders -> Nat]
    /\ EmbedBatch \in Nat \ {0}
ASSUME BoundsAssumption ==
    /\ ChunksPerDoc \in Nat
    /\ MaxBuilds \in Nat
    /\ MaxEdits \in Nat

VARIABLES
    table,       \* the rows of the column, without repetition
    edits,       \* changes made to it
    indexes,     \* the index objects ever built, oldest first
    registered,  \* the one the registry holds for the column, or 0
    builder,     \* what each builder is doing
    builds       \* builds begun

indexVars == <<table, edits, indexes, registered, builder, builds>>

(***************************************************************************)
(* A dataset is a sequence of rows, one per document appended; the row of  *)
(* a document stands for all its chunks. A text of whitespace has none.    *)
(***************************************************************************)
Blank(d) == Score[d] = <<>>
DocHashes(dataset) == {dataset[i].doc : i \in DOMAIN dataset}

Row == {row \in [doc : Docs, embedders : Seq(Embedders)] :
          DOMAIN row.embedders = DOMAIN Score[row.doc]}
Index == [dataset : Seq(Row), dim : Nat, owed : SUBSET Docs]
Builder == [pc : {"idle", "create", "filter", "add", "register"},
            fresh : BOOLEAN, index : Nat, texts : SUBSET Docs]
Idle == [pc |-> "idle", fresh |-> FALSE, index |-> 0, texts |-> {}]

IndexTypeOK ==
    /\ table \subseteq Docs \union {Null}
    /\ edits \in 0 .. MaxEdits
    /\ indexes \in Seq(Index)
    /\ registered \in 0 .. Len(indexes)
    /\ builder \in [Builders -> Builder]
    /\ \A b \in Builders :
         /\ builder[b].index <= Len(indexes)
         /\ builder[b].pc \in {"filter", "add", "register"} => builder[b].index # 0
    /\ builds \in 0 .. MaxBuilds

IndexInit ==
    /\ table \in {texts \union {Null} : texts \in SUBSET Docs}
    /\ edits = 0
    /\ indexes = <<>>
    /\ registered = 0
    /\ builder = [b \in Builders |-> Idle]
    /\ builds = 0

(***************************************************************************)
(* Whoever writes the table adds or removes a row at any time.             *)
(***************************************************************************)
EditTable(d) ==
    /\ edits < MaxEdits
    /\ edits' = edits + 1
    /\ table' = IF d \in table THEN table \ {d} ELSE table \union {d}
    /\ UNCHANGED <<indexes, registered, builder, builds>>

(***************************************************************************)
(* The non-null texts of the column, each once.                            *)
(***************************************************************************)
ColumnTexts == table \ {Null}

(***************************************************************************)
(* CREATE SEMANTIC INDEX: read the column, write an empty dataset whose    *)
(* dimension a probe call has shown, add the documents, register. A step   *)
(* that fails ends the build with nothing registered.                      *)
(***************************************************************************)
BeginCreate(b) ==
    /\ builder[b].pc = "idle"
    /\ builds < MaxBuilds
    /\ builds' = builds + 1
    /\ builder' = [builder EXCEPT ![b] =
                     [pc |-> "create", fresh |-> TRUE, index |-> 0, texts |-> ColumnTexts]]
    /\ UNCHANGED <<table, edits, indexes, registered>>

\* Mutant: the index is registered before its documents are in.
CreateRegistered(b) ==
    /\ builder[b].pc = "create"
    /\ \E e \in Embedders :
         /\ Dim[e] > 0
         /\ indexes' = Append(indexes, [dataset |-> <<>>, dim |-> Dim[e],
                                        owed |-> {d \in builder[b].texts : ~Blank(d)}])
    /\ builder' = [builder EXCEPT ![b] = [@ EXCEPT !.pc = "add", !.index = Len(indexes) + 1]]
    /\ registered' = Len(indexes) + 1
    /\ UNCHANGED <<table, edits, builds>>

Create(b) ==
    /\ builder[b].pc = "create"
    /\ \E e \in Embedders :
         /\ Dim[e] > 0
         /\ indexes' = Append(indexes, [dataset |-> <<>>, dim |-> Dim[e],
                                        owed |-> {d \in builder[b].texts : ~Blank(d)}])
    /\ builder' = [builder EXCEPT ![b] = [@ EXCEPT !.pc = "add", !.index = Len(indexes) + 1]]
    /\ UNCHANGED <<table, edits, registered, builds>>

Register(b) ==
    /\ builder[b].pc = "register"
    /\ registered' = builder[b].index
    /\ builder' = [builder EXCEPT ![b] = Idle]
    /\ UNCHANGED <<table, edits, indexes, builds>>

(***************************************************************************)
(* refresh_semantic_index: the registered index's documents, then the      *)
(* column; what the first read lacks is added.                             *)
(***************************************************************************)
BeginRefresh(b) ==
    /\ builder[b].pc = "idle"
    /\ builds < MaxBuilds
    /\ registered # 0
    /\ builds' = builds + 1
    /\ builder' = [builder EXCEPT ![b] =
                     [pc |-> "filter", fresh |-> FALSE, index |-> registered,
                      texts |-> DocHashes(indexes[registered].dataset)]]
    /\ UNCHANGED <<table, edits, indexes, registered>>

FilterNew(b) ==
    /\ builder[b].pc = "filter"
    /\ builder' = [builder EXCEPT ![b] = [@ EXCEPT !.pc = "add", !.texts = ColumnTexts \ builder[b].texts]]
    /\ UNCHANGED <<table, edits, indexes, registered, builds>>

(***************************************************************************)
(* Chunking, embedding and one append under the lock. The chunks of all    *)
(* documents are embedded EmbedBatch at a time; each call is answered by   *)
(* some link of the chain, and a vector of another dimension than the      *)
(* index's fails it. No chunk, no call and no append. An append fails when *)
(* a later creation has overwritten the dataset.                           *)
(***************************************************************************)
Added(b) == {d \in builder[b].texts : ~Blank(d)}

\* Chunk x[2] of document x[1] in the order the documents are embedded.
Places(order) == UNION {{<<i, c>> : c \in DOMAIN Score[order[i]]} : i \in DOMAIN order}

Before(x, y) == x[1] < y[1] \/ (x[1] = y[1] /\ x[2] < y[2])

\* The embedding call a chunk goes into.
Call(order, x) == Cardinality({y \in Places(order) : Before(y, x)}) \div EmbedBatch

Calls(order) == {Call(order, x) : x \in Places(order)}

Rows(order, link) ==
    [i \in DOMAIN order |->
       [doc |-> order[i],
        embedders |-> [c \in DOMAIN Score[order[i]] |-> link[Call(order, <<i, c>>)]]]]

AddDocuments(b) ==
    LET i == builder[b].index
        usable == {e \in Embedders : Dim[e] = indexes[i].dim}
        order == SetToSeq(Added(b))
    IN  /\ builder[b].pc = "add"
        /\ Added(b) # {} => i = Len(indexes)
        /\ \E link \in [Calls(order) -> usable] :
             indexes' = [indexes EXCEPT ![i].dataset = @ \o Rows(order, link)]
        /\ builder' = [builder EXCEPT ![b] =
                         IF builder[b].fresh THEN [@ EXCEPT !.pc = "register"] ELSE Idle]
        /\ UNCHANGED <<table, edits, registered, builds>>

(***************************************************************************)
(* Every `?` of the two functions: the column, an embedding call of the    *)
(* whole chain, a dimension, the dataset or an append to a version another *)
(* creation overwrote. Registering cannot fail.                            *)
(***************************************************************************)
BuildFails(b) ==
    /\ builder[b].pc \in {"create", "filter", "add"}
    /\ builder' = [builder EXCEPT ![b] = Idle]
    /\ UNCHANGED <<table, edits, indexes, registered, builds>>

BuildStep(b) ==
    \/ BeginCreate(b) \/ Create(b) \/ Register(b)
    \/ BeginRefresh(b) \/ FilterNew(b)
    \/ AddDocuments(b) \/ BuildFails(b)

IndexNext ==
    \/ \E d \in Docs : EditTable(d)
    \/ \E b \in Builders : BuildStep(b)

(***************************************************************************)
(* Reading a snapshot: its chunks, best first; ties keep dataset order. A  *)
(* query vector of embedder e meets a vector of another embedder with a    *)
(* score that means nothing.                                               *)
(***************************************************************************)
ChunkScore(row, c, e) == IF row.embedders[c] = e THEN Score[row.doc][c] ELSE Foreign

Chunks(dataset) ==
    UNION {{<<i, c>> : c \in DOMAIN Score[dataset[i].doc]} : i \in DOMAIN dataset}

ScoreAt(dataset, e, x) == ChunkScore(dataset[x[1]], x[2], e)

Above(dataset, e, floor) == {x \in Chunks(dataset) : ScoreAt(dataset, e, x) >= floor}

\* Mutant: distances are taken for scores.
Farther(dataset, e, x, y) == ScoreAt(dataset, e, x) < ScoreAt(dataset, e, y)

Better(dataset, e, x, y) ==
    \/ ScoreAt(dataset, e, x) > ScoreAt(dataset, e, y)
    \/ /\ ScoreAt(dataset, e, x) = ScoreAt(dataset, e, y)
       /\ Before(x, y)

Place(dataset, e, at, x) == Cardinality({y \in at : Better(dataset, e, y, x)}) + 1

Hits(dataset, e, at) ==
    LET order == [n \in 1 .. Cardinality(at) |->
                    CHOOSE x \in at : Place(dataset, e, at, x) = n]
    IN  [n \in DOMAIN order |-> [doc |-> dataset[order[n][1]].doc, chunk |-> order[n][2]]]

Nearest(dataset, e, k) ==
    LET hits == Hits(dataset, e, Chunks(dataset))
    IN  SubSeq(hits, 1, IF Len(hits) < k THEN Len(hits) ELSE k)

(***************************************************************************)
(* The hits of each document, best first, at most n of them.               *)
(***************************************************************************)
HitDocs(hits) == {hits[i].doc : i \in DOMAIN hits}

BucketChunks(hits, n) ==
    [d \in HitDocs(hits) |->
        LET own == SelectSeq(hits, LAMBDA h : h.doc = d)
        IN  [i \in 1 .. (IF Len(own) < n THEN Len(own) ELSE n) |-> own[i].chunk]]
============================================================================
