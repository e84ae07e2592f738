------------------------ MODULE SemanticFunnelProofs ------------------------
(***************************************************************************)
(* Proofs about SemanticFunnel, for any table, index, floor and LIMIT, and *)
(* any number of builders, queries and partitions.                         *)
(*                                                                         *)
(* What the arguments rest on: hits list every chunk asked for, once, best *)
(* first (Ordered); datasets only grow and an index is registered when its *)
(* documents are in (IndexInv); the evidence cell is filled once, from one *)
(* snapshot (QueryInv, PartitionInv); a candidate's first hit lies before  *)
(* every hit of a document that is none (Ahead).                           *)
(***************************************************************************)
EXTENDS SemanticFunnel, FiniteSetTheorems, TLAPS

-----------------------------------------------------------------------------
(* Finite sets of chunks.                                                  *)
LEMMA ListedFinite ==
  ASSUME NEW n \in Nat, NEW f, NEW S, S = {f[i] : i \in 1 .. n}
  PROVE  IsFiniteSet(S)
<1> DEFINE g == [i \in 1 .. n |-> f[i]]
<1>1. g \in Surjection(1 .. n, S)
  BY DEF Surjection
<1>2. IsFiniteSet(1 .. n)
  BY FS_Interval
<1> QED
  BY <1>1, <1>2, FS_Surjection

LEMMA RowTypes ==
  ASSUME NEW dataset \in Seq(Row), NEW i \in DOMAIN dataset
  PROVE  /\ dataset[i].doc \in Docs
         /\ Score[dataset[i].doc] \in Seq(Int)
         /\ DOMAIN Score[dataset[i].doc] \subseteq Nat \ {0}
<1>0. dataset[i] \in Row
  OBVIOUS
<1>1. dataset[i].doc \in Docs
  BY <1>0 DEF Row
<1>2. Score[dataset[i].doc] \in Seq(Int)
  BY <1>1, ScoreAssumption
<1> QED
  BY <1>1, <1>2

LEMMA ChunksFinite ==
  ASSUME NEW dataset \in Seq(Row)
  PROVE  IsFiniteSet(Chunks(dataset))
<1> DEFINE own == [i \in DOMAIN dataset |-> {<<i, c>> : c \in DOMAIN Score[dataset[i].doc]}]
           S == {own[i] : i \in DOMAIN dataset}
<1>1. DOMAIN dataset = 1 .. Len(dataset) /\ Len(dataset) \in Nat
  OBVIOUS
<1>2. IsFiniteSet(S)
  BY <1>1, ListedFinite
<1>3. ASSUME NEW i \in DOMAIN dataset PROVE IsFiniteSet(own[i])
  <2> DEFINE n == Len(Score[dataset[i].doc])
             f == [c \in 1 .. n |-> <<i, c>>]
  <2>1. n \in Nat /\ DOMAIN Score[dataset[i].doc] = 1 .. n
    BY RowTypes
  <2>2. own[i] = {f[c] : c \in 1 .. n}
    BY <2>1
  <2> HIDE DEF n, f, own
  <2> QED
    BY <2>1, <2>2, ListedFinite
<1>4. Chunks(dataset) = UNION S
  BY DEF Chunks
<1> HIDE DEF S, own
<1>5. \A T \in S : IsFiniteSet(T)
  BY <1>3 DEF S
<1> QED
  BY <1>2, <1>4, <1>5, FS_UNION

LEMMA ChunkTypes ==
  ASSUME NEW dataset \in Seq(Row), NEW e, NEW x \in Chunks(dataset)
  PROVE  /\ x = <<x[1], x[2]>>
         /\ x[1] \in DOMAIN dataset /\ x[1] \in Nat /\ x[2] \in Nat
         /\ x[2] \in DOMAIN Score[dataset[x[1]].doc]
         /\ ScoreAt(dataset, e, x) \in Int
<1>0. PICK i \in DOMAIN dataset : \E c \in DOMAIN Score[dataset[i].doc] : x = <<i, c>>
  <2> DEFINE own(i) == {<<i, c>> : c \in DOMAIN Score[dataset[i].doc]}
  <2>1. x \in UNION {own(i) : i \in DOMAIN dataset}
    BY DEF Chunks
  <2>2. \E i \in DOMAIN dataset : x \in own(i)
    BY <2>1
  <2> QED
    BY <2>2
<1>1. PICK c \in DOMAIN Score[dataset[i].doc] : x = <<i, c>>
  BY <1>0
<1>2. Score[dataset[i].doc] \in Seq(Int) /\ c \in Nat
  BY RowTypes
<1>3. Score[dataset[i].doc][c] \in Int /\ Foreign \in Int
  BY <1>2, ScoreAssumption
<1> QED
  BY <1>1, <1>2, <1>3 DEF ScoreAt, ChunkScore

-----------------------------------------------------------------------------
(* Better is a strict total order, so places number the chunks.            *)
LEMMA BetterOrders ==
  ASSUME NEW dataset \in Seq(Row), NEW e, NEW x \in Chunks(dataset),
         NEW y \in Chunks(dataset), NEW z \in Chunks(dataset)
  PROVE  /\ ~Better(dataset, e, x, x)
         /\ x # y => Better(dataset, e, x, y) \/ Better(dataset, e, y, x)
         /\ Better(dataset, e, x, y) /\ Better(dataset, e, y, z) => Better(dataset, e, x, z)
         /\ Better(dataset, e, x, y) => ScoreAt(dataset, e, x) >= ScoreAt(dataset, e, y)
<1> DEFINE a == ScoreAt(dataset, e, x)
           b == ScoreAt(dataset, e, y)
           d == ScoreAt(dataset, e, z)
<1>1. /\ a \in Int /\ b \in Int /\ d \in Int
      /\ x = <<x[1], x[2]>> /\ y = <<y[1], y[2]>>
      /\ x[1] \in Nat /\ x[2] \in Nat /\ y[1] \in Nat /\ y[2] \in Nat
      /\ z[1] \in Nat /\ z[2] \in Nat
  BY ChunkTypes
<1> HIDE DEF a, b, d
<1>2. x # y => x[1] # y[1] \/ x[2] # y[2]
  BY <1>1
<1> QED
  BY <1>1, <1>2 DEF Better, Before, a, b, d

LEMMA PlaceBounds ==
  ASSUME NEW dataset \in Seq(Row), NEW e, NEW at \in SUBSET Chunks(dataset), NEW x \in at
  PROVE  Place(dataset, e, at, x) \in 1 .. Cardinality(at)
<1> DEFINE before == {y \in at : Better(dataset, e, y, x)}
<1>1. IsFiniteSet(at)
  BY ChunksFinite, FS_Subset
<1>2. before \subseteq at \ {x}
  BY BetterOrders
<1>3. IsFiniteSet(at \ {x}) /\ Cardinality(at \ {x}) = Cardinality(at) - 1
  BY <1>1, FS_RemoveElement
<1>4. IsFiniteSet(before) /\ Cardinality(before) <= Cardinality(at) - 1
  BY <1>2, <1>3, FS_Subset
<1>5. Cardinality(before) \in Nat /\ Cardinality(at) \in Nat
  BY <1>1, <1>4, FS_CardinalityType
<1> QED
  BY <1>4, <1>5 DEF Place

LEMMA PlaceOrders ==
  ASSUME NEW dataset \in Seq(Row), NEW e, NEW at \in SUBSET Chunks(dataset),
         NEW x \in at, NEW y \in at, Better(dataset, e, x, y)
  PROVE  Place(dataset, e, at, x) < Place(dataset, e, at, y)
<1> DEFINE before(v) == {u \in at : Better(dataset, e, u, v)}
<1>1. before(x) \subseteq before(y)
  BY BetterOrders
<1>2. x \in before(y) /\ x \notin before(x)
  BY BetterOrders
<1>3. IsFiniteSet(at)
  BY ChunksFinite, FS_Subset
<1>4. IsFiniteSet(before(y)) /\ IsFiniteSet(before(x))
  BY <1>3, FS_Subset
<1>5. Cardinality(before(x)) <= Cardinality(before(y)) /\ Cardinality(before(x)) # Cardinality(before(y))
  BY <1>1, <1>2, <1>4, FS_Subset
<1>6. Cardinality(before(x)) \in Nat /\ Cardinality(before(y)) \in Nat
  BY <1>4, FS_CardinalityType
<1> HIDE DEF before
<1>7. Cardinality(before(x)) + 1 < Cardinality(before(y)) + 1
  BY <1>5, <1>6
<1> QED
  BY <1>7 DEF Place, before

Order(dataset, e, at) ==
    [n \in 1 .. Cardinality(at) |-> CHOOSE x \in at : Place(dataset, e, at, x) = n]

(* Every chunk has its place in the hits, and better ones come first.      *)
LEMMA Ordered ==
  ASSUME NEW dataset \in Seq(Row), NEW e, NEW at \in SUBSET Chunks(dataset)
  PROVE  /\ Cardinality(at) \in Nat
         /\ \A x \in at : /\ Place(dataset, e, at, x) \in 1 .. Cardinality(at)
                          /\ Order(dataset, e, at)[Place(dataset, e, at, x)] = x
         /\ \A n \in 1 .. Cardinality(at) : /\ Order(dataset, e, at)[n] \in at
                                            /\ Place(dataset, e, at, Order(dataset, e, at)[n]) = n
         /\ \A x, y \in at :
              Place(dataset, e, at, x) < Place(dataset, e, at, y) =>
                ScoreAt(dataset, e, x) >= ScoreAt(dataset, e, y)
<1> DEFINE N == Cardinality(at)
           P(x) == Place(dataset, e, at, x)
           place == [x \in at |-> P(x)]
<1>1. IsFiniteSet(at) /\ N \in Nat
  BY ChunksFinite, FS_Subset, FS_CardinalityType
<1>2. \A x \in at : P(x) \in 1 .. N
  BY PlaceBounds
<1>3. \A x, y \in at : Better(dataset, e, x, y) => P(x) < P(y)
  BY PlaceOrders
<1> HIDE DEF P
<1>4. \A x, y \in at : x # y => P(x) # P(y)
  <2> SUFFICES ASSUME NEW x \in at, NEW y \in at, x # y PROVE P(x) # P(y)
    OBVIOUS
  <2>1. Better(dataset, e, x, y) \/ Better(dataset, e, y, x)
    BY BetterOrders
  <2>2. P(x) \in Int /\ P(y) \in Int
    BY <1>1, <1>2
  <2> QED
    BY <2>1, <2>2, <1>3
<1>5. place \in Injection(at, 1 .. N)
  BY <1>2, <1>4 DEF Injection, IsInjective
<1>6. IsFiniteSet(1 .. N) /\ Cardinality(1 .. N) = N
  BY <1>1, FS_Interval
<1>7. place \in Surjection(at, 1 .. N)
  BY <1>5, <1>6, FS_Injection
<1>8. \A n \in 1 .. N : \E x \in at : P(x) = n
  BY <1>7 DEF Surjection
<1>9. \A n \in 1 .. N : /\ Order(dataset, e, at)[n] \in at
                        /\ P(Order(dataset, e, at)[n]) = n
  BY <1>8 DEF Order, P
<1>10. \A x \in at : Order(dataset, e, at)[P(x)] = x
  BY <1>2, <1>4, <1>9
<1>11. \A x, y \in at : P(x) < P(y) => ScoreAt(dataset, e, x) >= ScoreAt(dataset, e, y)
  <2> SUFFICES ASSUME NEW x \in at, NEW y \in at, P(x) < P(y)
               PROVE  ScoreAt(dataset, e, x) >= ScoreAt(dataset, e, y)
    OBVIOUS
  <2>1. P(x) \in Int /\ P(y) \in Int
    BY <1>1, <1>2
  <2>2. x # y /\ ~(P(y) < P(x))
    BY <2>1
  <2>3. ~Better(dataset, e, y, x)
    BY <2>2, <1>3
  <2> QED
    BY <2>2, <2>3, BetterOrders
<1> QED
  BY <1>1, <1>2, <1>9, <1>10, <1>11 DEF P

LEMMA HitsOrdered ==
  ASSUME NEW dataset \in Seq(Row), NEW e, NEW at \in SUBSET Chunks(dataset)
  PROVE  /\ DOMAIN Hits(dataset, e, at) = 1 .. Cardinality(at)
         /\ \A n \in 1 .. Cardinality(at) :
              Hits(dataset, e, at)[n].doc = dataset[Order(dataset, e, at)[n][1]].doc
  BY DEF Hits, Order

LEMMA HitDocsOf ==
  ASSUME NEW dataset \in Seq(Row), NEW e, NEW at \in SUBSET Chunks(dataset)
  PROVE  HitDocs(Hits(dataset, e, at)) = {dataset[x[1]].doc : x \in at}
<1> DEFINE N == Cardinality(at)
           O == Order(dataset, e, at)
           P(x) == Place(dataset, e, at, x)
           H == Hits(dataset, e, at)
<1>1. DOMAIN H = 1 .. N /\ \A n \in 1 .. N : H[n].doc = dataset[O[n][1]].doc /\ O[n] \in at
  BY HitsOrdered, Ordered
<1>2. \A x \in at : P(x) \in 1 .. N /\ O[P(x)] = x
  BY Ordered
<1> HIDE DEF N, O, P, H
<1>3. HitDocs(H) = {H[n].doc : n \in 1 .. N}
  BY <1>1 DEF HitDocs
<1>4. \A x \in at : H[P(x)].doc = dataset[x[1]].doc
  BY <1>1, <1>2
<1>5. {H[n].doc : n \in 1 .. N} = {dataset[x[1]].doc : x \in at}
  BY <1>1, <1>2, <1>4
<1> QED
  BY <1>3, <1>5 DEF H

-----------------------------------------------------------------------------
(* Datasets only grow, and a build adds every document it owes.            *)
LEMMA SetToSeqLists ==
  ASSUME NEW S, IsFiniteSet(S)
  PROVE  /\ SetToSeq(S) \in Seq(S)
         /\ {SetToSeq(S)[i] : i \in DOMAIN SetToSeq(S)} = S
<1> DEFINE n == Cardinality(S)
           f == SetToSeq(S)
<1>1. n \in Nat /\ Injection(1 .. n, S) # {}
  BY FS_CardinalityType DEF ExistsBijection, Bijection
<1>2. f \in [1 .. n -> S] /\ IsInjective(f)
  BY <1>1 DEF SetToSeq, Injection
<1>3. IsFiniteSet(1 .. n) /\ Cardinality(1 .. n) = n
  BY <1>1, FS_Interval
<1>4. f \in Surjection(1 .. n, S)
  BY <1>2, <1>3, FS_Injection DEF Injection
<1> HIDE DEF f
<1>5. f \in Seq(S)
  BY <1>1, <1>2
<1>6. {f[i] : i \in DOMAIN f} = S
  BY <1>2, <1>4 DEF Surjection
<1> QED
  BY <1>5, <1>6 DEF f

(* The rows of an append: one per document, one embedder per chunk.        *)
LEMMA RowsDocs ==
  ASSUME NEW docs \in SUBSET Docs, NEW link \in [Calls(SetToSeq(docs)) -> Embedders]
  PROVE  LET rows == Rows(SetToSeq(docs), link)
         IN  rows \in Seq(Row) /\ DocHashes(rows) = docs
<1> DEFINE order == SetToSeq(docs)
<1>1. order \in Seq(docs) /\ {order[i] : i \in DOMAIN order} = docs
  BY DocsAssumption, FS_Subset, SetToSeqLists
<1>0. link \in [Calls(order) -> Embedders]
  OBVIOUS
<1> HIDE DEF order
<1> DEFINE links(i) == [c \in DOMAIN Score[order[i]] |-> link[Call(order, <<i, c>>)]]
           rows == [i \in DOMAIN order |-> [doc |-> order[i], embedders |-> links(i)]]
<1>2. DOMAIN order = 1 .. Len(order) /\ Len(order) \in Nat /\ \A i \in DOMAIN order : order[i] \in docs
  BY <1>1
<1>3. ASSUME NEW i \in DOMAIN order PROVE rows[i] \in Row /\ rows[i].doc = order[i]
  <2>1. order[i] \in Docs /\ Score[order[i]] \in Seq(Int)
    BY <1>2, ScoreAssumption
  <2>2. ASSUME NEW c \in DOMAIN Score[order[i]] PROVE link[Call(order, <<i, c>>)] \in Embedders
    <3> DEFINE own(k) == {<<k, x>> : x \in DOMAIN Score[order[k]]}
    <3>1. <<i, c>> \in own(i) /\ own(i) \in {own(k) : k \in DOMAIN order}
      OBVIOUS
    <3>2. <<i, c>> \in UNION {own(k) : k \in DOMAIN order}
      BY <3>1
    <3>3. <<i, c>> \in Places(order)
      BY <3>2 DEF Places
    <3>4. Call(order, <<i, c>>) \in Calls(order)
      BY <3>3 DEF Calls
    <3> QED
      BY <1>0, <3>4
  <2>3. links(i) \in Seq(Embedders) /\ DOMAIN links(i) = DOMAIN Score[order[i]]
    <3>1. links(i) = [c \in 1 .. Len(Score[order[i]]) |-> link[Call(order, <<i, c>>)]]
      BY <2>1
    <3>2. DOMAIN Score[order[i]] = 1 .. Len(Score[order[i]]) /\ Len(Score[order[i]]) \in Nat
      BY <2>1
    <3> QED
      BY <2>2, <3>1, <3>2
  <2> HIDE DEF links
  <2>4. [doc |-> order[i], embedders |-> links(i)] \in [doc : Docs, embedders : Seq(Embedders)]
    BY <2>1, <2>3
  <2> QED
    BY <2>3, <2>4 DEF Row
<1>4. DOMAIN rows = DOMAIN order
  OBVIOUS
<1>7. Rows(order, link) = rows
  BY DEF Rows
<1> HIDE DEF rows, links
<1>5. rows \in Seq(Row)
  <2>1. rows = [i \in 1 .. Len(order) |-> rows[i]]
    BY <1>2 DEF rows
  <2> QED
    BY <2>1, <1>2, <1>3
<1>6. DocHashes(rows) = docs
  BY <1>1, <1>3, <1>4 DEF DocHashes
<1> QED
  BY <1>5, <1>6, <1>7 DEF order

LEMMA DocHashesConcat ==
  ASSUME NEW a \in Seq(Row), NEW b \in Seq(Row)
  PROVE  a \o b \in Seq(Row) /\ DocHashes(a \o b) = DocHashes(a) \union DocHashes(b)
<1> DEFINE l == a \o b
<1>1. l \in Seq(Row) /\ DOMAIN l = 1 .. Len(a) + Len(b) /\ Len(a) \in Nat /\ Len(b) \in Nat
  OBVIOUS
<1>2. \A i \in 1 .. Len(a) : l[i] = a[i]
  OBVIOUS
<1>3. \A i \in 1 .. Len(b) : l[i + Len(a)] = b[i]
  OBVIOUS
<1>4. \A i \in DOMAIN l : i \in 1 .. Len(a) \/ (i - Len(a) \in 1 .. Len(b) /\ l[i] = b[i - Len(a)])
  BY <1>1
<1>5. DOMAIN a = 1 .. Len(a) /\ DOMAIN b = 1 .. Len(b)
  OBVIOUS
<1> HIDE DEF l
<1>6. \A i \in 1 .. Len(a) : i \in DOMAIN l
  BY <1>1
<1>7. \A i \in 1 .. Len(b) : i + Len(a) \in DOMAIN l
  BY <1>1
<1>8. DocHashes(l) \subseteq DocHashes(a) \union DocHashes(b)
  BY <1>2, <1>4, <1>5 DEF DocHashes
<1>9. DocHashes(a) \subseteq DocHashes(l) /\ DocHashes(b) \subseteq DocHashes(l)
  BY <1>2, <1>3, <1>5, <1>6, <1>7 DEF DocHashes
<1>10. DocHashes(l) = DocHashes(a) \union DocHashes(b)
  BY <1>8, <1>9
<1> QED
  BY <1>1, <1>10 DEF l

LEMMA DocHashesType ==
  ASSUME NEW dataset \in Seq(Row)
  PROVE  DocHashes(dataset) \subseteq Docs
  BY RowTypes DEF DocHashes

Whole(i) == indexes[i].owed \subseteq DocHashes(indexes[i].dataset)

IndexInv ==
    /\ IndexTypeOK
    /\ registered # 0 => Whole(registered)
    /\ \A b \in Builders :
         /\ builder[b].pc = "create" => builder[b].fresh
         /\ builder[b].pc = "filter" => ~builder[b].fresh
         /\ builder[b].pc = "register" => Whole(builder[b].index)
         /\ builder[b].pc = "add" /\ builder[b].fresh =>
              indexes[builder[b].index].owed = Added(b)

(* What a step of a builder may do to the indexes.                         *)
Grown ==
    /\ Len(indexes) <= Len(indexes')
    /\ \A i \in 1 .. Len(indexes) :
         /\ indexes'[i].owed = indexes[i].owed
         /\ DocHashes(indexes[i].dataset) \subseteq DocHashes(indexes'[i].dataset)

LEMMA IndexInitInv == IndexInit => IndexInv
<1> SUFFICES ASSUME IndexInit PROVE IndexInv
  OBVIOUS
<1>1. indexes = <<>> /\ indexes \in Seq(Index) /\ Len(indexes) = 0
  BY DEF IndexInit
<1>2. Idle \in Builder /\ Idle.pc = "idle" /\ Idle.index = 0
  BY DEF Idle, Builder
<1>3. builder \in [Builders -> Builder] /\ \A b \in Builders : builder[b] = Idle
  BY <1>2 DEF IndexInit
<1>4. IndexTypeOK
  BY <1>1, <1>2, <1>3, BoundsAssumption DEF IndexInit, IndexTypeOK
<1> QED
  BY <1>2, <1>3, <1>4 DEF IndexInv, IndexInit

(* Steps that leave the indexes alone.                                     *)
LEMMA SameIndexes ==
  ASSUME IndexInv, IndexTypeOK', indexes' = indexes, NEW b,
         registered' # registered => registered' # 0 /\ Whole(registered'),
         \A d \in Builders \ {b} : builder'[d] = builder[d],
         b \in Builders =>
           /\ builder'[b].pc = "create" => builder'[b].fresh
           /\ builder'[b].pc = "filter" => ~builder'[b].fresh
           /\ builder'[b].pc # "register"
           /\ builder'[b].pc = "add" => ~builder'[b].fresh
  PROVE  IndexInv' /\ Grown
<1>1. \A i : Whole(i)' <=> indexes[i].owed \subseteq DocHashes(indexes[i].dataset)
  BY DEF Whole, DocHashes
<1>2. Len(indexes) \in Nat
  BY DEF IndexInv, IndexTypeOK
<1>3. Grown
  BY <1>2 DEF Grown
<1>4. registered' # 0 => Whole(registered)'
  BY <1>1 DEF IndexInv, Whole
<1>5. ASSUME NEW d \in Builders
      PROVE  /\ builder'[d].pc = "create" => builder'[d].fresh
             /\ builder'[d].pc = "filter" => ~builder'[d].fresh
             /\ builder'[d].pc = "register" => Whole(builder[d].index)'
             /\ builder'[d].pc = "add" /\ builder'[d].fresh =>
                  indexes'[builder'[d].index].owed = Added(d)'
  <2>1. CASE d = b
    BY <2>1
  <2>2. CASE d # b
    BY <2>2, <1>1 DEF IndexInv, Whole, Added
  <2> QED
    BY <2>1, <2>2
<1> QED
  BY <1>3, <1>4, <1>5 DEF IndexInv

LEMMA BuilderIdle ==
  ASSUME IndexInv
  PROVE  Idle \in Builder /\ Idle.pc = "idle" /\ Idle.index = 0 /\ Len(indexes) \in Nat
  BY DEF IndexInv, IndexTypeOK, Idle, Builder

LEMMA EditTableInv ==
  ASSUME IndexInv, NEW d \in Docs, EditTable(d)
  PROVE  IndexInv' /\ Grown
<1>1. IndexTypeOK'
  BY BoundsAssumption DEF IndexInv, IndexTypeOK, EditTable
<1>2. indexes' = indexes /\ registered' = registered /\ builder' = builder
  BY DEF EditTable
<1>3. Grown
  BY <1>2 DEF Grown, IndexInv, IndexTypeOK
<1> QED
  BY <1>1, <1>2, <1>3 DEF IndexInv, Whole, DocHashes, Added

LEMMA BeginCreateInv ==
  ASSUME IndexInv, NEW b \in Builders, BeginCreate(b)
  PROVE  IndexInv' /\ Grown
<1> DEFINE nb == [pc |-> "create", fresh |-> TRUE, index |-> 0, texts |-> ColumnTexts]
<1>1. ColumnTexts \subseteq Docs
  BY DEF IndexInv, IndexTypeOK, ColumnTexts
<1>2. nb \in Builder
  BY <1>1 DEF Builder
<1>3. /\ builder' = [builder EXCEPT ![b] = nb] /\ indexes' = indexes /\ registered' = registered
      /\ table' = table /\ edits' = edits /\ builds' \in 0 .. MaxBuilds
  BY BoundsAssumption DEF BeginCreate, IndexInv, IndexTypeOK
<1>4. IndexTypeOK'
  BY <1>2, <1>3 DEF IndexInv, IndexTypeOK
<1> QED
  BY <1>3, <1>4, SameIndexes DEF IndexInv, IndexTypeOK

LEMMA BeginRefreshInv ==
  ASSUME IndexInv, NEW b \in Builders, BeginRefresh(b)
  PROVE  IndexInv' /\ Grown
<1> DEFINE nb == [pc |-> "filter", fresh |-> FALSE, index |-> registered,
                  texts |-> DocHashes(indexes[registered].dataset)]
<1>1. registered \in 1 .. Len(indexes) /\ indexes \in Seq(Index)
  BY DEF IndexInv, IndexTypeOK, BeginRefresh
<1>2. indexes[registered] \in Index
  BY <1>1
<1>3. DocHashes(indexes[registered].dataset) \subseteq Docs
  BY <1>2, DocHashesType DEF Index
<1>4. nb \in Builder
  BY <1>1, <1>3 DEF Builder
<1>5. /\ builder' = [builder EXCEPT ![b] = nb] /\ indexes' = indexes /\ registered' = registered
      /\ table' = table /\ edits' = edits /\ builds' \in 0 .. MaxBuilds
  BY BoundsAssumption DEF BeginRefresh, IndexInv, IndexTypeOK
<1>6. IndexTypeOK'
  BY <1>1, <1>4, <1>5 DEF IndexInv, IndexTypeOK
<1> QED
  BY <1>5, <1>6, SameIndexes DEF IndexInv, IndexTypeOK

LEMMA FilterNewInv ==
  ASSUME IndexInv, NEW b \in Builders, FilterNew(b)
  PROVE  IndexInv' /\ Grown
<1> DEFINE nb == [builder[b] EXCEPT !.pc = "add", !.texts = ColumnTexts \ builder[b].texts]
<1>1. ColumnTexts \subseteq Docs /\ builder[b] \in Builder
  BY DEF IndexInv, IndexTypeOK, ColumnTexts
<1>2. nb \in Builder /\ nb.index = builder[b].index /\ nb.pc = "add" /\ nb.fresh = builder[b].fresh
  BY <1>1 DEF Builder
<1>3. /\ builder' = [builder EXCEPT ![b] = nb] /\ indexes' = indexes /\ registered' = registered
      /\ table' = table /\ edits' = edits /\ builds' = builds
  BY DEF FilterNew
<1>4. builder[b].pc = "filter"
  BY DEF FilterNew
<1> HIDE DEF nb
<1>5. IndexTypeOK'
  BY <1>2, <1>3, <1>4 DEF IndexInv, IndexTypeOK
<1> QED
  BY <1>2, <1>3, <1>4, <1>5, SameIndexes DEF IndexInv, IndexTypeOK

LEMMA BuildFailsInv ==
  ASSUME IndexInv, NEW b \in Builders, BuildFails(b)
  PROVE  IndexInv' /\ Grown
<1>1. /\ builder' = [builder EXCEPT ![b] = Idle] /\ indexes' = indexes /\ registered' = registered
      /\ table' = table /\ edits' = edits /\ builds' = builds
  BY DEF BuildFails
<1>2. IndexTypeOK'
  BY <1>1, BuilderIdle DEF IndexInv, IndexTypeOK
<1> QED
  BY <1>1, <1>2, BuilderIdle, SameIndexes DEF IndexInv, IndexTypeOK

LEMMA RegisterInv ==
  ASSUME IndexInv, NEW b \in Builders, Register(b)
  PROVE  IndexInv' /\ Grown
<1>1. /\ builder' = [builder EXCEPT ![b] = Idle] /\ indexes' = indexes
      /\ registered' = builder[b].index
      /\ table' = table /\ edits' = edits /\ builds' = builds /\ builder[b].pc = "register"
  BY DEF Register
<1>2. builder[b] \in Builder /\ registered' \in 1 .. Len(indexes) /\ Whole(registered')
  BY <1>1 DEF IndexInv, IndexTypeOK, Builder
<1>3. IndexTypeOK'
  BY <1>1, <1>2, BuilderIdle DEF IndexInv, IndexTypeOK
<1>4. registered' # 0
  BY <1>2
<1> QED
  BY <1>1, <1>2, <1>3, <1>4, BuilderIdle, SameIndexes DEF IndexInv, IndexTypeOK

(* Steps that change the indexes keep the other builders' facts.           *)
LEMMA OtherBuilders ==
  ASSUME IndexInv, Grown, NEW b \in Builders, NEW d \in Builders \ {b},
         builder'[d] = builder[d], indexes' \in Seq(Index)
  PROVE  /\ builder'[d].index <= Len(indexes')
         /\ builder'[d].pc \in {"filter", "add", "register"} => builder'[d].index # 0
         /\ builder'[d].pc = "create" => builder'[d].fresh
         /\ builder'[d].pc = "filter" => ~builder'[d].fresh
         /\ builder'[d].pc = "register" => Whole(builder[d].index)'
         /\ builder'[d].pc = "add" /\ builder'[d].fresh =>
              indexes'[builder'[d].index].owed = Added(d)'
<1>1. builder[d] \in Builder /\ builder[d].index \in Nat
  BY DEF IndexInv, IndexTypeOK, Builder
<1>2. Len(indexes) \in Nat /\ Len(indexes') \in Nat /\ builder[d].index <= Len(indexes)
      /\ Len(indexes) <= Len(indexes')
  BY DEF IndexInv, IndexTypeOK, Grown
<1>3. builder[d].pc \in {"add", "register"} => builder[d].index \in 1 .. Len(indexes)
  BY <1>1, <1>2 DEF IndexInv, IndexTypeOK
<1>4. Added(d)' = Added(d)
  BY DEF Added
<1>5. builder[d].pc = "register" => Whole(builder[d].index)'
  BY <1>3 DEF IndexInv, Whole, Grown
<1>6. builder'[d].index <= Len(indexes')
  BY <1>1, <1>2
<1>7. builder[d].pc = "add" /\ builder[d].fresh => indexes'[builder[d].index].owed = Added(d)
  BY <1>3 DEF IndexInv, Grown
<1> QED
  BY <1>4, <1>5, <1>6, <1>7 DEF IndexInv, IndexTypeOK

LEMMA RegisteredStays ==
  ASSUME IndexInv, Grown, registered' = registered, indexes' \in Seq(Index)
  PROVE  registered' \in 0 .. Len(indexes') /\ (registered' # 0 => Whole(registered)')
<1>1. registered \in 0 .. Len(indexes) /\ Len(indexes) \in Nat /\ Len(indexes') \in Nat
      /\ Len(indexes) <= Len(indexes')
  BY DEF IndexInv, IndexTypeOK, Grown
<1> QED
  BY <1>1 DEF IndexInv, Whole, Grown

LEMMA CreateInv ==
  ASSUME IndexInv, NEW b \in Builders, Create(b)
  PROVE  IndexInv' /\ Grown
<1> DEFINE owed == {d \in builder[b].texts : ~Blank(d)}
           nb == [builder[b] EXCEPT !.pc = "add", !.index = Len(indexes) + 1]
           n == Len(indexes)
<1>1. builder[b] \in Builder /\ builder[b].pc = "create" /\ builder[b].fresh /\ builder[b].texts \subseteq Docs
      /\ indexes \in Seq(Index) /\ n \in Nat
  BY DEF Create, IndexInv, IndexTypeOK, Builder
<1>2. PICK e \in Embedders :
        indexes' = Append(indexes, [dataset |-> <<>>, dim |-> Dim[e], owed |-> owed])
  BY DEF Create
<1> DEFINE r == [dataset |-> <<>>, dim |-> Dim[e], owed |-> owed]
<1>3. r \in Index
  <2>1. Dim[e] \in Nat
    BY EmbeddersAssumption
  <2>2. owed \subseteq Docs
    BY <1>1
  <2> QED
    BY <2>1, <2>2 DEF Index
<1> HIDE DEF r
<1>4. /\ indexes' \in Seq(Index) /\ Len(indexes') = n + 1
      /\ \A i \in 1 .. n : indexes'[i] = indexes[i]
      /\ indexes'[n + 1] = r
  BY <1>1, <1>2, <1>3 DEF r
<1>5. Grown
  BY <1>1, <1>4 DEF Grown
<1>6. nb \in Builder /\ nb.pc = "add" /\ nb.fresh /\ nb.index = n + 1 /\ nb.texts = builder[b].texts
  <2> DEFINE m == n + 1
  <2>1. m \in Nat
    BY <1>1
  <2> HIDE DEF m
  <2>2. [builder[b] EXCEPT !.pc = "add", !.index = m] \in Builder
    BY <1>1, <2>1 DEF Builder
  <2>3. nb = [builder[b] EXCEPT !.pc = "add", !.index = m]
    BY DEF m
  <2> QED
    BY <1>1, <2>1, <2>2, <2>3 DEF Builder, m
<1>7. builder' = [builder EXCEPT ![b] = nb]
  BY DEF Create
<1>8. table' = table /\ edits' = edits /\ builds' = builds /\ registered' = registered
  BY DEF Create
<1> HIDE DEF nb
<1>9. builder' \in [Builders -> Builder] /\ builder'[b] = nb
      /\ \A d \in Builders \ {b} : builder'[d] = builder[d]
  BY <1>6, <1>7 DEF IndexInv, IndexTypeOK
<1>10. indexes'[builder'[b].index].owed = Added(b)'
  BY <1>4, <1>6, <1>9 DEF Added, r, Blank
<1>11. \A d \in Builders \ {b} :
         /\ builder'[d].index <= Len(indexes')
         /\ builder'[d].pc \in {"filter", "add", "register"} => builder'[d].index # 0
         /\ builder'[d].pc = "create" => builder'[d].fresh
         /\ builder'[d].pc = "filter" => ~builder'[d].fresh
         /\ builder'[d].pc = "register" => Whole(builder[d].index)'
         /\ builder'[d].pc = "add" /\ builder'[d].fresh =>
              indexes'[builder'[d].index].owed = Added(d)'
  BY <1>4, <1>5, <1>9, OtherBuilders
<1>12. registered' \in 0 .. Len(indexes') /\ (registered' # 0 => Whole(registered)')
  BY <1>4, <1>5, <1>8, RegisteredStays
<1>13. builder'[b].index <= Len(indexes') /\ builder'[b].index # 0
  BY <1>1, <1>4, <1>6, <1>9
<1>14. IndexTypeOK'
  BY <1>4, <1>8, <1>9, <1>11, <1>12, <1>13 DEF IndexInv, IndexTypeOK
<1> QED
  BY <1>5, <1>6, <1>9, <1>10, <1>11, <1>12, <1>14 DEF IndexInv

LEMMA AddDocumentsInv ==
  ASSUME IndexInv, NEW b \in Builders, AddDocuments(b)
  PROVE  IndexInv' /\ Grown
<1> DEFINE i == builder[b].index
           n == Len(indexes)
           nb == IF builder[b].fresh THEN [builder[b] EXCEPT !.pc = "register"] ELSE Idle
<1>1. /\ builder[b] \in Builder /\ builder[b].pc = "add" /\ Added(b) \subseteq Docs
      /\ indexes \in Seq(Index) /\ n \in Nat /\ i \in 1 .. n
  <2>1. builder[b] \in Builder /\ builder[b].pc = "add" /\ indexes \in Seq(Index)
    BY DEF AddDocuments, IndexInv, IndexTypeOK
  <2>2. i \in Nat /\ i # 0 /\ i <= n
    BY <2>1 DEF IndexInv, IndexTypeOK, Builder
  <2> QED
    BY <2>1, <2>2 DEF Builder, Added
<1> DEFINE order == SetToSeq(Added(b))
<1>2. PICK link \in [Calls(order) -> Embedders] :
        indexes' = [indexes EXCEPT ![i].dataset = @ \o Rows(order, link)]
  BY DEF AddDocuments
<1>3. indexes[i] \in Index /\ indexes[i].dataset \in Seq(Row)
  <2>1. indexes[i] \in Index
    BY <1>1
  <2> QED
    BY <2>1 DEF Index
<1> DEFINE ds == indexes[i].dataset \o Rows(order, link)
<1>4. Rows(order, link) \in Seq(Row) /\ DocHashes(Rows(order, link)) = Added(b)
  BY <1>1, RowsDocs
<1> HIDE DEF order
<1>5. ds \in Seq(Row) /\ DocHashes(ds) = DocHashes(indexes[i].dataset) \union Added(b)
  BY <1>3, <1>4, DocHashesConcat
<1> DEFINE r == [indexes[i] EXCEPT !.dataset = ds]
<1>6. indexes' = [indexes EXCEPT ![i] = r]
  BY <1>2
<1> HIDE DEF ds
<1>7. r \in Index /\ r.dataset = ds /\ r.owed = indexes[i].owed
  BY <1>3, <1>5 DEF Index
<1> HIDE DEF r
<1>8. /\ indexes' \in Seq(Index) /\ Len(indexes') = n /\ indexes'[i] = r
      /\ \A j \in 1 .. n : j # i => indexes'[j] = indexes[j]
  BY <1>1, <1>6, <1>7
<1>9. Grown
  BY <1>1, <1>5, <1>7, <1>8 DEF Grown
<1>10. nb \in Builder /\ nb.pc \in {"register", "idle"} /\ nb.index \in 0 .. n
       /\ (nb.pc = "register" => nb.index = i /\ builder[b].fresh)
  BY <1>1, BuilderIdle DEF Builder
<1>11. builder' = [builder EXCEPT ![b] = nb]
  BY DEF AddDocuments
<1>12. table' = table /\ edits' = edits /\ builds' = builds /\ registered' = registered
  BY DEF AddDocuments
<1> HIDE DEF nb
<1>13. builder' \in [Builders -> Builder] /\ builder'[b] = nb
       /\ \A d \in Builders \ {b} : builder'[d] = builder[d]
  BY <1>10, <1>11 DEF IndexInv, IndexTypeOK
<1>14. builder'[b].pc = "register" => Whole(builder[b].index)'
  <2> SUFFICES ASSUME nb.pc = "register" PROVE Whole(builder[b].index)'
    BY <1>13
  <2>1. indexes[i].owed = Added(b)
    BY <1>1, <1>10 DEF IndexInv
  <2>2. builder'[b].index = i
    BY <1>10, <1>13
  <2> QED
    BY <2>1, <2>2, <1>5, <1>7, <1>8 DEF Whole
<1>15. \A d \in Builders \ {b} :
         /\ builder'[d].index <= Len(indexes')
         /\ builder'[d].pc \in {"filter", "add", "register"} => builder'[d].index # 0
         /\ builder'[d].pc = "create" => builder'[d].fresh
         /\ builder'[d].pc = "filter" => ~builder'[d].fresh
         /\ builder'[d].pc = "register" => Whole(builder[d].index)'
         /\ builder'[d].pc = "add" /\ builder'[d].fresh =>
              indexes'[builder'[d].index].owed = Added(d)'
  BY <1>8, <1>9, <1>13, OtherBuilders
<1>16. registered' \in 0 .. Len(indexes') /\ (registered' # 0 => Whole(registered)')
  BY <1>8, <1>9, <1>12, RegisteredStays
<1>17. builder'[b].index <= Len(indexes') /\ (builder'[b].pc = "register" => builder'[b].index # 0)
  BY <1>1, <1>8, <1>10, <1>13
<1>18. IndexTypeOK'
  BY <1>8, <1>10, <1>12, <1>13, <1>15, <1>16, <1>17 DEF IndexInv, IndexTypeOK
<1> QED
  BY <1>9, <1>10, <1>13, <1>14, <1>15, <1>16, <1>18 DEF IndexInv

LEMMA IndexNextInv == IndexInv /\ IndexNext => IndexInv' /\ Grown
  BY EditTableInv, BeginCreateInv, CreateInv, RegisterInv, BeginRefreshInv, FilterNewInv,
     AddDocumentsInv, BuildFailsInv DEF IndexNext, BuildStep

LEMMA IndexStutterInv == IndexInv /\ UNCHANGED indexVars => IndexInv' /\ Grown
<1> SUFFICES ASSUME IndexInv, UNCHANGED indexVars PROVE IndexInv' /\ Grown
  OBVIOUS
<1>1. /\ table' = table /\ edits' = edits /\ indexes' = indexes
      /\ registered' = registered /\ builder' = builder /\ builds' = builds
  BY DEF indexVars
<1>2. Len(indexes) \in Nat
  BY DEF IndexInv, IndexTypeOK
<1> QED
  BY <1>1, <1>2 DEF IndexInv, IndexTypeOK, Whole, Grown, DocHashes, Added

-----------------------------------------------------------------------------
(* MEANS queries: the cell is filled once, from the snapshot, and every    *)
(* batch is split by it.                                                   *)
Scanned(y) ==
    [set |-> TRUE,
     chunks |-> BucketChunks(Hits(y.snapshot, y.vector, Above(y.snapshot, y.vector, Floor)), ChunksPerDoc),
     indexed |-> DocHashes(y.snapshot)]

QueryGood(y, n) ==
    /\ DOMAIN y = {"planned", "index", "filler", "snapshot", "vector", "cell"}
    /\ y.index \in 0 .. n
    /\ y.cell = Unset \/ y.cell = Scanned(y)
    /\ y.planned \in BOOLEAN
    /\ y.filler \in Partitions \union {0}
    /\ y.filler # 0 => y.vector \in Embedders
    /\ y.cell # Unset \/ y.filler # 0 => y.planned /\ y.index # 0 /\ y.snapshot \in Seq(Row)
    /\ y.filler # 0 => y.cell = Unset

BatchGood(y, b) ==
    /\ b \in Batches
    /\ ~y.planned => b.pc = "idle"
    /\ b.pc = "scan" => y.index # 0
    /\ b.pc \in {"idle", "scan", "failed"} \/ y.index = 0 => b.pruned = {} /\ b.hits = {}
    /\ b.pc \in {"verify", "done"} /\ y.index # 0 =>
         /\ y.cell.set
         /\ b.hits \subseteq DOMAIN y.cell.chunks
         /\ b.through \intersect DOMAIN y.cell.chunks = {}
         /\ b.pruned \ {Null} \subseteq y.cell.indexed \ DOMAIN y.cell.chunks
    /\ b.pc = "done" => b.excerpts = b.hits

MeansInv ==
    /\ DOMAIN query = Queries /\ DOMAIN part = Queries
    /\ \A q \in Queries :
         /\ QueryGood(query[q], Len(indexes))
         /\ DOMAIN part[q] = Partitions
         /\ \A p \in Partitions : BatchGood(query[q], part[q][p])

LEMMA CellSet ==
  ASSUME NEW y, NEW n, QueryGood(y, n)
  PROVE  y.cell.set <=> y.cell # Unset
<1>1. Unset.set = FALSE /\ Scanned(y).set = TRUE
  BY DEF Unset, Scanned
<1> QED
  BY <1>1 DEF QueryGood

LEMMA BatchTypes ==
  /\ NoBatch \in Batches
  /\ \A b \in Batches :
       /\ DOMAIN b = DOMAIN NoBatch
       /\ b.pc \in {"idle", "scan", "verify", "done", "failed"}
       /\ b.rows \subseteq Docs \union {Null} /\ b.hits \subseteq Docs /\ b.through \subseteq Docs
  BY DEF Batches, NoBatch

LEMMA MeansInitInv == MeansInit /\ IndexInit => MeansInv
<1> SUFFICES ASSUME MeansInit, IndexInit PROVE MeansInv
  OBVIOUS
<1>1. Len(indexes) = 0
  BY DEF IndexInit
<1>2. \A q \in Queries : QueryGood(query[q], 0) /\ ~query[q].planned
  <2> SUFFICES ASSUME NEW q \in Queries PROVE QueryGood(query[q], 0) /\ ~query[q].planned
    OBVIOUS
  <2>1. query[q] = [planned |-> FALSE, index |-> 0, filler |-> 0,
                    snapshot |-> <<>>, vector |-> 0, cell |-> Unset]
    BY DEF MeansInit
  <2> QED
    BY <2>1 DEF QueryGood
<1>3. \A y : ~y.planned => BatchGood(y, NoBatch)
  BY BatchTypes DEF BatchGood, NoBatch
<1>4. ASSUME NEW q \in Queries
      PROVE  /\ DOMAIN part[q] = Partitions
             /\ \A p \in Partitions : BatchGood(query[q], part[q][p])
  BY <1>2, <1>3 DEF MeansInit
<1> QED
  BY <1>1, <1>2, <1>4 DEF MeansInv, MeansInit

(* A change of the indexes leaves the queries good.                        *)
LEMMA MeansAcrossIndex ==
  ASSUME IndexInv, IndexInv', Grown, MeansInv, UNCHANGED meansVars
  PROVE  MeansInv'
<1>1. query' = query /\ part' = part
  BY DEF meansVars
<1>2. Len(indexes) \in Nat /\ Len(indexes') \in Nat /\ Len(indexes) <= Len(indexes')
  BY DEF IndexInv, IndexTypeOK, Grown
<1>3. \A q \in Queries : QueryGood(query[q], Len(indexes'))
  BY <1>2 DEF MeansInv, QueryGood
<1>4. \A q \in Queries : query'[q] = query[q] /\ part'[q] = part[q]
  BY <1>1
<1> QED
  BY <1>1, <1>3, <1>4 DEF MeansInv

(* A step of one query.                                                    *)
LEMMA OneQuery ==
  ASSUME MeansInv, indexes' = indexes, NEW q \in Queries,
         DOMAIN query' = Queries, DOMAIN part' = Queries,
         \A r \in Queries \ {q} : query'[r] = query[r] /\ part'[r] = part[r],
         QueryGood(query'[q], Len(indexes)), DOMAIN part'[q] = Partitions,
         \A p \in Partitions : BatchGood(query'[q], part'[q][p])
  PROVE  MeansInv'
<1>1. ASSUME NEW r \in Queries
      PROVE  /\ QueryGood(query'[r], Len(indexes'))
             /\ DOMAIN part'[r] = Partitions
             /\ \A p \in Partitions : BatchGood(query'[r], part'[r][p])
  <2>1. CASE r = q
    BY <2>1
  <2>2. CASE r # q
    BY <2>2 DEF MeansInv
  <2> QED
    BY <2>1, <2>2
<1> QED
  BY <1>1 DEF MeansInv

LEMMA PlanInv ==
  ASSUME MeansInv, IndexInv, indexes' = indexes, NEW q \in Queries, Plan(q)
  PROVE  MeansInv'
<1> DEFINE y == query[q]
           z == query'[q]
<1>1. DOMAIN query = Queries /\ DOMAIN part = Queries /\ QueryGood(y, Len(indexes)) /\ ~y.planned
  BY DEF MeansInv, Plan
<1>2. y.cell = Unset /\ y.filler = 0
  BY <1>1 DEF QueryGood
<1>3. /\ DOMAIN query' = Queries /\ \A r \in Queries \ {q} : query'[r] = query[r]
      /\ DOMAIN z = DOMAIN y /\ z.planned /\ z.index = registered /\ z.cell = y.cell
      /\ z.filler = y.filler
  BY <1>1 DEF Plan, QueryGood
<1>4. QueryGood(z, Len(indexes))
  BY <1>1, <1>2, <1>3 DEF QueryGood, IndexInv, IndexTypeOK
<1>5. /\ DOMAIN part' = Queries /\ \A r \in Queries \ {q} : part'[r] = part[r]
      /\ DOMAIN part'[q] = Partitions
  BY <1>1 DEF Plan
<1>6. ASSUME NEW p \in Partitions
      PROVE  BatchGood(z, part'[q][p])
  <2>0. table \subseteq Docs \union {Null}
    BY DEF IndexInv, IndexTypeOK
  <2>1. PICK rows \in SUBSET table : part'[q][p] = IF registered # 0
                                  THEN [NoBatch EXCEPT !.pc = "scan", !.rows = rows]
                                  ELSE [NoBatch EXCEPT !.pc = "verify", !.rows = rows]
    <3>1. PICK home : part' = [part EXCEPT ![q] = [x \in Partitions |->
                    LET rows == {r \in table : home[r] = x}
                    IN  IF registered # 0
                        THEN [NoBatch EXCEPT !.pc = "scan", !.rows = rows]
                        ELSE [NoBatch EXCEPT !.pc = "verify", !.rows = rows]]]
      BY Zenon DEF Plan
    <3>2. part'[q] = [x \in Partitions |->
                    LET rows == {r \in table : home[r] = x}
                    IN  IF registered # 0
                        THEN [NoBatch EXCEPT !.pc = "scan", !.rows = rows]
                        ELSE [NoBatch EXCEPT !.pc = "verify", !.rows = rows]]
      BY <1>1, <3>1
    <3> QED
      BY <3>2
  <2>2. CASE registered # 0
    <3>1. part'[q][p] = [NoBatch EXCEPT !.pc = "scan", !.rows = rows]
      BY <2>1, <2>2
    <3>2. part'[q][p] \in Batches
      BY <3>1, <2>0 DEF Batches, NoBatch
    <3> QED
      BY <3>1, <3>2, <2>2, <1>3 DEF BatchGood, NoBatch
  <2>3. CASE registered = 0
    <3>1. part'[q][p] = [NoBatch EXCEPT !.pc = "verify", !.rows = rows]
      BY <2>1, <2>3
    <3>2. part'[q][p] \in Batches
      BY <3>1, <2>0 DEF Batches, NoBatch
    <3> QED
      BY <3>1, <3>2, <2>3, <1>3 DEF BatchGood, NoBatch
  <2> QED
    BY <2>2, <2>3
<1> QED
  BY <1>3, <1>4, <1>5, <1>6, OneQuery

(* The steps that fill the cell change the query, and no batch relies on   *)
(* the cell before it is set.                                              *)
LEMMA BatchesCarryOver ==
  ASSUME NEW y, NEW z, NEW b, BatchGood(y, b), z.planned = y.planned, z.index = y.index,
         y.cell.set => z.cell = y.cell
  PROVE  BatchGood(z, b)
  BY DEF BatchGood

LEMMA FillSteps ==
  ASSUME MeansInv, IndexInv, indexes' = indexes, NEW q \in Queries, NEW p \in Partitions,
         TakeSnapshot(q, p) \/ FillCell(q, p)
  PROVE  MeansInv'
<1> DEFINE y == query[q]
           z == query'[q]
           n == Len(indexes)
<1>1. /\ DOMAIN query = Queries /\ DOMAIN part = Queries /\ DOMAIN part[q] = Partitions
      /\ QueryGood(y, n) /\ \A r \in Partitions : BatchGood(y, part[q][r])
  BY DEF MeansInv
<1>2. part' = part /\ DOMAIN query' = Queries /\ \A r \in Queries \ {q} : query'[r] = query[r]
  BY <1>1 DEF TakeSnapshot, FillCell
<1>3. /\ DOMAIN z = DOMAIN y /\ z.planned = y.planned /\ z.index = y.index
      /\ ~y.cell.set /\ QueryGood(z, n)
  <2>1. CASE TakeSnapshot(q, p)
    <3>1. /\ DOMAIN z = DOMAIN y /\ z.planned = y.planned /\ z.index = y.index /\ z.cell = y.cell
          /\ z.snapshot = indexes[y.index].dataset /\ ~y.cell.set
          /\ z.filler = p /\ z.vector \in Embedders
      <4>1. PICK e \in Embedders : query' = [query EXCEPT ![q] =
                        [@ EXCEPT !.filler = p, !.vector = e,
                                  !.snapshot = indexes[query[q].index].dataset]]
        BY <2>1 DEF TakeSnapshot
      <4> QED
        BY <2>1, <4>1, <1>1 DEF TakeSnapshot, MayFill, QueryGood
    <3>2. y.index # 0 /\ y.planned
      BY <2>1, <1>1 DEF TakeSnapshot, MayFill, BatchGood
    <3>3. indexes[y.index] \in Index
      <4>1. indexes \in Seq(Index) /\ n \in Nat
        BY DEF IndexInv, IndexTypeOK
      <4>2. y.index \in 1 .. n
        BY <3>2, <4>1, <1>1 DEF QueryGood
      <4> QED
        BY <4>1, <4>2
    <3>4. z.snapshot \in Seq(Row)
      BY <3>1, <3>3 DEF Index
    <3>5. y.cell = Unset
      BY <1>1, <3>1, CellSet
    <3> QED
      BY <1>1, <3>1, <3>2, <3>4, <3>5 DEF QueryGood
  <2>2. CASE FillCell(q, p)
    <3>1. /\ DOMAIN z = DOMAIN y /\ z.planned = y.planned /\ z.index = y.index
          /\ z.cell = FilterScan(q) /\ z.filler = 0 /\ z.snapshot = y.snapshot /\ z.vector = y.vector
      BY <2>2, <1>1 DEF FillCell, QueryGood
    <3>2. y.filler # 0
      BY <2>2, FloorAssumption DEF FillCell
    <3>3. FilterScan(q) = Scanned(z)
      BY <3>1 DEF FilterScan, Scanned
    <3>4. y.cell = Unset
      BY <1>1, <3>2 DEF QueryGood
    <3> QED
      BY <1>1, <3>1, <3>2, <3>3, <3>4, CellSet DEF QueryGood
  <2> QED
    BY <2>1, <2>2
<1> HIDE DEF y, z
<1>4. \A r \in Partitions : BatchGood(z, part[q][r])
  BY <1>1, <1>3, BatchesCarryOver
<1> QED
  BY <1>1, <1>2, <1>3, <1>4, OneQuery DEF z, n

(* A step of one batch, its query's cell being what it was.                *)
LEMMA OneBatch ==
  ASSUME MeansInv, indexes' = indexes, NEW q \in Queries, NEW p \in Partitions,
         DOMAIN query' = Queries, \A r \in Queries \ {q} : query'[r] = query[r],
         QueryGood(query'[q], Len(indexes)),
         query'[q].planned = query[q].planned, query'[q].index = query[q].index,
         query'[q].cell = query[q].cell,
         NEW b, part' = [part EXCEPT ![q][p] = b], BatchGood(query[q], b)
  PROVE  MeansInv'
<1> DEFINE y == query[q]
           z == query'[q]
<1>1. /\ DOMAIN part = Queries /\ DOMAIN part[q] = Partitions
      /\ \A r \in Partitions : BatchGood(y, part[q][r])
  BY DEF MeansInv
<1>2. /\ DOMAIN part' = Queries /\ \A r \in Queries \ {q} : part'[r] = part[r]
      /\ DOMAIN part'[q] = Partitions /\ part'[q][p] = b
      /\ \A r \in Partitions \ {p} : part'[q][r] = part[q][r]
  BY <1>1
<1>3. \A r \in Partitions : BatchGood(y, part'[q][r])
  BY <1>1, <1>2
<1> HIDE DEF y, z
<1>4. \A r \in Partitions : BatchGood(z, part'[q][r])
  BY <1>3, BatchesCarryOver DEF y, z
<1> QED
  BY <1>2, <1>4, OneQuery DEF z

LEMMA PrefilterFailsInv ==
  ASSUME MeansInv, indexes' = indexes, NEW q \in Queries, NEW p \in Partitions,
         PrefilterFails(q, p)
  PROVE  MeansInv'
<1> DEFINE y == query[q]
           z == query'[q]
           b == [part[q][p] EXCEPT !.pc = "failed"]
<1>1. /\ DOMAIN query = Queries /\ QueryGood(y, Len(indexes)) /\ BatchGood(y, part[q][p])
      /\ DOMAIN part = Queries /\ DOMAIN part[q] = Partitions
  BY DEF MeansInv
<1>2. /\ DOMAIN query' = Queries /\ \A r \in Queries \ {q} : query'[r] = query[r]
      /\ z.filler = 0 /\ z.planned = y.planned /\ z.index = y.index /\ z.cell = y.cell
      /\ z.snapshot = y.snapshot /\ z.vector = y.vector /\ DOMAIN z = DOMAIN y
  BY <1>1 DEF PrefilterFails, QueryGood
<1>3. QueryGood(z, Len(indexes))
  BY <1>1, <1>2 DEF QueryGood, Scanned
<1>4. y.cell = Unset /\ y.planned
  <2>1. CASE MayFill(q, p)
    BY <2>1, <1>1, CellSet DEF MayFill, BatchGood
  <2>2. CASE y.filler = p
    BY <2>2, <1>1, FloorAssumption DEF QueryGood
  <2> QED
    BY <2>1, <2>2 DEF PrefilterFails
<1>5. part[q][p].pruned = {} /\ part[q][p].hits = {}
  <2>1. ~y.cell.set
    BY <1>4 DEF Unset
  <2>2. part[q][p].pc \in {"idle", "scan", "verify", "done", "failed"}
    BY <1>1, BatchTypes DEF BatchGood
  <2> QED
    BY <1>1, <2>1, <2>2 DEF BatchGood
<1>6. BatchGood(y, b)
  <2>1. b \in Batches /\ b.pc = "failed" /\ b.pruned = {} /\ b.hits = {}
    BY <1>1, <1>5 DEF BatchGood, Batches
  <2> HIDE DEF b
  <2> QED
    BY <2>1, <1>4 DEF BatchGood
<1>7. part' = [part EXCEPT ![q][p] = b]
  BY DEF PrefilterFails
<1> HIDE DEF b
<1> QED
  BY <1>2, <1>3, <1>6, <1>7, OneBatch

LEMMA ScanBatchInv ==
  ASSUME MeansInv, indexes' = indexes, NEW q \in Queries, NEW p \in Partitions,
         ScanBatch(q, p)
  PROVE  MeansInv'
<1> DEFINE y == query[q]
           cell == y.cell
           texts == part[q][p].rows \ {Null}
           hits == texts \intersect DOMAIN cell.chunks
           known == texts \intersect cell.indexed
           pruned == (known \ hits) \union ({Null} \intersect part[q][p].rows)
           through == texts \ (hits \union known)
           b == [part[q][p] EXCEPT !.pc = "verify", !.hits = hits, !.pruned = pruned,
                                   !.through = through]
<1>1. /\ DOMAIN query = Queries /\ QueryGood(y, Len(indexes)) /\ BatchGood(y, part[q][p])
  BY DEF MeansInv
<1>2. /\ part[q][p].pc = "scan" /\ cell.set /\ query' = query
      /\ part' = [part EXCEPT ![q][p] = b]
  BY DEF ScanBatch
<1>3. /\ hits \subseteq DOMAIN cell.chunks /\ through \intersect DOMAIN cell.chunks = {}
      /\ pruned \ {Null} \subseteq cell.indexed \ DOMAIN cell.chunks
  OBVIOUS
<1>4. hits \subseteq Docs /\ through \subseteq Docs /\ pruned \subseteq Docs \union {Null}
  BY <1>1, BatchTypes DEF BatchGood
<1>5. y.planned /\ y.index # 0
  BY <1>1, <1>2 DEF BatchGood
<1> HIDE DEF hits, through, pruned, known, texts
<1>6. BatchGood(y, b)
  <2>1. /\ b \in Batches /\ b.pc = "verify" /\ b.hits = hits /\ b.pruned = pruned
        /\ b.through = through
    BY <1>1, <1>4 DEF BatchGood, Batches
  <2> HIDE DEF b
  <2> QED
    BY <2>1, <1>2, <1>3, <1>5 DEF BatchGood
<1> HIDE DEF b
<1> QED
  BY <1>1, <1>2, <1>6, OneBatch

LEMMA VerifyBatchInv ==
  ASSUME MeansInv, indexes' = indexes, NEW q \in Queries, NEW p \in Partitions,
         VerifyBatch(q, p)
  PROVE  MeansInv'
<1> DEFINE y == query[q]
           batch == part[q][p]
           read == IF y.index # 0 THEN batch.hits \union batch.through ELSE batch.rows \ {Null}
           excerpts == {d \in read : Evidence(q, d)}
<1>1. DOMAIN query = Queries /\ QueryGood(y, Len(indexes)) /\ BatchGood(y, batch)
  BY DEF MeansInv
<1>2. batch.pc = "verify" /\ query' = query
  BY DEF VerifyBatch
<1>3. part' = [part EXCEPT ![q][p] = [batch EXCEPT !.pc = "done", !.excerpts = excerpts]]
  BY DEF VerifyBatch
<1>4. excerpts = batch.hits
  <2>1. CASE y.index # 0
    BY <2>1, <1>1, <1>2 DEF BatchGood, Evidence
  <2>2. CASE y.index = 0
    <3>1. y.cell = Unset /\ batch.hits = {}
      BY <2>2, <1>1 DEF QueryGood, BatchGood
    <3> QED
      BY <3>1 DEF Evidence, Unset
  <2> QED
    BY <2>1, <2>2
<1> DEFINE b == [batch EXCEPT !.pc = "done", !.excerpts = excerpts]
<1>5. part' = [part EXCEPT ![q][p] = b]
  BY <1>3
<1>6. read \subseteq Docs
  BY <1>1, BatchTypes DEF BatchGood
<1>7. excerpts \subseteq Docs
  BY <1>6
<1> HIDE DEF excerpts, read
<1>8. BatchGood(y, b)
  <2>1. /\ b \in Batches /\ b.pc = "done" /\ b.hits = batch.hits /\ b.pruned = batch.pruned
        /\ b.through = batch.through /\ b.excerpts = excerpts
    BY <1>1, <1>7 DEF BatchGood, Batches
  <2> HIDE DEF b, batch
  <2> QED
    BY <2>1, <1>1, <1>2, <1>4 DEF BatchGood
<1> HIDE DEF b
<1> QED
  BY <1>1, <1>2, <1>5, <1>8, OneBatch

LEMMA MeansNextInv ==
  ASSUME MeansInv, IndexInv, UNCHANGED indexVars, NEW q \in Queries, MeansStep(q)
  PROVE  MeansInv'
<1>1. indexes' = indexes
  BY DEF indexVars
<1> QED
  BY <1>1, PlanInv, FillSteps, PrefilterFailsInv, ScanBatchInv, VerifyBatchInv
     DEF MeansStep, PartitionStep

LEMMA MeansImplies == MeansInv => PrunedWasScored /\ ReadAsScanned
<1> SUFFICES ASSUME MeansInv PROVE PrunedWasScored /\ ReadAsScanned
  OBVIOUS
<1>1. ReadAsScanned
  BY DEF MeansInv, BatchGood, ReadAsScanned
<1>2. PrunedWasScored
  <2> SUFFICES ASSUME NEW q \in Queries, NEW p \in Partitions, NEW d \in part[q][p].pruned \ {Null}
               PROVE  /\ d \in DocHashes(query[q].snapshot)
                      /\ \A i \in DOMAIN query[q].snapshot : query[q].snapshot[i].doc = d =>
                           \A c \in DOMAIN Score[d] :
                             ChunkScore(query[q].snapshot[i], c, query[q].vector) < Floor
    BY DEF PrunedWasScored
  <2> DEFINE y == query[q]
             ds == y.snapshot
             e == y.vector
             at == Above(ds, e, Floor)
  <2>1. QueryGood(y, Len(indexes)) /\ BatchGood(y, part[q][p])
    BY DEF MeansInv
  <2>0. part[q][p].pc \in {"idle", "scan", "verify", "done", "failed"}
    BY <2>1, BatchTypes DEF BatchGood
  <2>2. y.cell.set /\ d \in y.cell.indexed /\ d \notin DOMAIN y.cell.chunks
    BY <2>0, <2>1 DEF BatchGood
  <2>3. y.cell # Unset
    BY <2>1, <2>2, CellSet
  <2>4. y.cell = Scanned(y) /\ ds \in Seq(Row)
    BY <2>1, <2>3 DEF QueryGood
  <2>5. d \in DocHashes(ds)
    BY <2>2, <2>4 DEF Scanned
  <2>6. d \notin HitDocs(Hits(ds, e, at))
    BY <2>2, <2>4 DEF Scanned, BucketChunks
  <2>7. at \in SUBSET Chunks(ds)
    BY DEF Above
  <2> HIDE DEF at, e, ds
  <2>8. d \notin {ds[x[1]].doc : x \in at}
    BY <2>4, <2>6, <2>7, HitDocsOf
  <2>9. ASSUME NEW i \in DOMAIN ds, ds[i].doc = d, NEW c \in DOMAIN Score[d]
        PROVE  ChunkScore(ds[i], c, e) < Floor
    <3>1. <<i, c>> \in Chunks(ds)
      BY <2>9 DEF Chunks
    <3>2. <<i, c>> \notin at
      BY <2>8, <2>9
    <3>3. ~(ScoreAt(ds, e, <<i, c>>) >= Floor)
      BY <3>1, <3>2 DEF at, Above
    <3>4. ScoreAt(ds, e, <<i, c>>) \in Int
      BY <3>1, <2>4, ChunkTypes
    <3> QED
      BY <3>3, <3>4, FloorAssumption DEF ScoreAt
  <2> QED
    BY <2>5, <2>9 DEF ds, e
<1> QED
  BY <1>1, <1>2

-----------------------------------------------------------------------------
(* Rankings: the first hit of a candidate lies before every hit of a       *)
(* document that is none, found or beyond the search's reach.              *)
Leads(known, evidence) ==
    \A d \in known \ DOMAIN evidence, k \in DOMAIN evidence :
      \E i \in DOMAIN Score[k] : \A j \in DOMAIN Score[d] : Score[k][i] >= Score[d][j]

SingleEmbedder == \A e, f \in Embedders : e = f

LEMMA PrefixDocs ==
  ASSUME NEW dataset \in Seq(Row), NEW hits \in Seq([doc : Docs, chunk : Nat]),
         NEW i \in 1 .. Len(hits), NEW p \in 1 .. i
  PROVE  /\ Cardinality(HitDocs(SubSeq(hits, 1, p))) \in Nat
         /\ Cardinality(HitDocs(SubSeq(hits, 1, i))) \in Nat
         /\ Cardinality(HitDocs(SubSeq(hits, 1, p))) <= Cardinality(HitDocs(SubSeq(hits, 1, i)))
<1> DEFINE A == HitDocs(SubSeq(hits, 1, p))
           B == HitDocs(SubSeq(hits, 1, i))
<1>1. i \in Nat /\ p \in Nat /\ p <= i /\ Len(hits) \in Nat
  OBVIOUS
<1>2. /\ DOMAIN SubSeq(hits, 1, p) = 1 .. p /\ \A m \in 1 .. p : SubSeq(hits, 1, p)[m] = hits[m]
      /\ DOMAIN SubSeq(hits, 1, i) = 1 .. i /\ \A m \in 1 .. i : SubSeq(hits, 1, i)[m] = hits[m]
  BY <1>1
<1>3. A = {hits[m].doc : m \in 1 .. p} /\ B = {hits[m].doc : m \in 1 .. i}
  BY <1>2 DEF HitDocs
<1>4. \A m \in 1 .. i : hits[m].doc \in Docs
  <2> SUFFICES ASSUME NEW m \in 1 .. i PROVE hits[m].doc \in Docs
    OBVIOUS
  <2>1. m \in 1 .. Len(hits)
    BY <1>1
  <2> DEFINE T == [doc : Docs, chunk : Nat]
  <2>2. hits \in Seq(T)
    OBVIOUS
  <2> HIDE DEF T
  <2>3. hits[m] \in T
    BY <2>1, <2>2
  <2> QED
    BY <2>3 DEF T
<1>5. \A m \in 1 .. p : m \in 1 .. i
  BY <1>1
<1> HIDE DEF A, B
<1>6. A \subseteq B /\ B \subseteq Docs
  BY <1>3, <1>4, <1>5
<1>7. IsFiniteSet(B) /\ IsFiniteSet(A)
  BY <1>6, DocsAssumption, FS_Subset
<1> QED
  BY <1>6, <1>7, FS_Subset, FS_CardinalityType DEF A, B

LEMMA SearchLeads ==
  ASSUME NEW dataset \in Seq(Row), NEW e \in Embedders, \A f \in Embedders : f = e,
         NEW k \in Nat, NEW n \in Nat
  PROVE  Leads(DocHashes(dataset), BucketCandidates(Nearest(dataset, e, k), n))
<1> DEFINE at == Chunks(dataset)
           N == Cardinality(at)
           O == Order(dataset, e, at)
           P(x) == Place(dataset, e, at, x)
           all == Hits(dataset, e, at)
           hits == Nearest(dataset, e, k)
           C(i) == Cardinality(HitDocs(SubSeq(hits, 1, i)))
<1>1. /\ N \in Nat
      /\ \A x \in at : P(x) \in 1 .. N /\ O[P(x)] = x
      /\ \A i \in 1 .. N : O[i] \in at /\ P(O[i]) = i
      /\ \A x, y \in at : P(x) < P(y) => ScoreAt(dataset, e, x) >= ScoreAt(dataset, e, y)
  BY Ordered
<1>2. DOMAIN all = 1 .. N /\ \A i \in 1 .. N : all[i].doc = dataset[O[i][1]].doc
  BY HitsOrdered
<1>3. all \in Seq([doc : Docs, chunk : Nat])
  <2>1. all = [i \in 1 .. N |-> [doc |-> dataset[O[i][1]].doc, chunk |-> O[i][2]]]
    BY DEF Hits, Order
  <2>2. ASSUME NEW i \in 1 .. N
        PROVE  dataset[O[i][1]].doc \in Docs /\ O[i][2] \in Nat
    <3>1. O[i][1] \in DOMAIN dataset /\ O[i][2] \in Nat
      BY <1>1, ChunkTypes
    <3> QED
      BY <3>1, RowTypes
  <2> HIDE DEF all, O, N
  <2>3. \A i \in 1 .. N : all[i] \in [doc : Docs, chunk : Nat]
    BY <2>1, <2>2
  <2>4. DOMAIN all = 1 .. N /\ all = [i \in 1 .. N |-> all[i]]
    BY <2>1
  <2>5. N \in Nat
    BY <1>1
  <2> DEFINE T == [doc : Docs, chunk : Nat]
  <2> HIDE DEF T
  <2>6. \A i \in 1 .. N : all[i] \in T
    BY <2>3 DEF T
  <2>7. all \in Seq(T)
    BY <2>4, <2>5, <2>6
  <2> QED
    BY <2>7 DEF T
<1> DEFINE m == IF N < k THEN N ELSE k
<1>4. Len(all) = N /\ hits = SubSeq(all, 1, m) /\ m \in 0 .. N
  BY <1>1, <1>2, <1>3 DEF Nearest
<1> HIDE DEF at, N, O, P, all, m, hits
<1>5. /\ hits \in Seq([doc : Docs, chunk : Nat]) /\ Len(hits) = m /\ DOMAIN hits = 1 .. m
      /\ \A i \in 1 .. m : hits[i] = all[i]
  <2>1. m \in Nat /\ m <= Len(all)
    BY <1>1, <1>4
  <2>2. /\ SubSeq(all, 1, m) \in Seq([doc : Docs, chunk : Nat])
        /\ Len(SubSeq(all, 1, m)) = m
        /\ \A i \in 1 .. m : SubSeq(all, 1, m)[i] = all[i]
    <3> DEFINE T == [doc : Docs, chunk : Nat]
    <3>1. all \in Seq(T)
      BY <1>3
    <3> HIDE DEF T
    <3>2. Len(all) \in Nat /\ 1 .. m \subseteq 1 .. Len(all)
      BY <2>1, <3>1
    <3>3. /\ Len(SubSeq(all, 1, m)) = m
          /\ \A i \in 1 .. m : SubSeq(all, 1, m)[i] = all[i]
      BY <2>1, <3>1, <3>2
    <3>4. SubSeq(all, 1, m) \in Seq(T)
      BY <2>1, <3>1, <3>2
    <3> QED
      BY <3>3, <3>4 DEF T
  <2> QED
    BY <2>1, <2>2, <1>4
<1>6. DOMAIN BucketCandidates(hits, n) = FirstDocs(hits, n)
  BY DEF BucketCandidates
<1> SUFFICES ASSUME NEW d \in DocHashes(dataset) \ FirstDocs(hits, n), NEW w \in FirstDocs(hits, n)
             PROVE  \E c \in DOMAIN Score[w] : \A j \in DOMAIN Score[d] : Score[w][c] >= Score[d][j]
  BY <1>6 DEF Leads, hits
<1>7. PICK i \in DOMAIN hits : hits[i].doc = w /\ C(i) <= n
  BY DEF FirstDocs
<1> DEFINE x == O[i]
<1>8. i \in 1 .. N /\ i \in 1 .. m /\ i \in Nat
  BY <1>1, <1>4, <1>5
<1>9. x \in at /\ P(x) = i /\ dataset[x[1]].doc = w
  BY <1>1, <1>2, <1>5, <1>7, <1>8
<1>10. /\ x[1] \in DOMAIN dataset /\ x[2] \in DOMAIN Score[w]
  BY <1>9, ChunkTypes DEF at
<1>11. \A y \in at : ScoreAt(dataset, e, y) = Score[dataset[y[1]].doc][y[2]]
  <2> SUFFICES ASSUME NEW y \in at
               PROVE  ScoreAt(dataset, e, y) = Score[dataset[y[1]].doc][y[2]]
    OBVIOUS
  <2>1. dataset[y[1]] \in Row
    <3>1. y[1] \in DOMAIN dataset
      BY ChunkTypes DEF at
    <3> QED
      BY <3>1
  <2>2. dataset[y[1]].embedders[y[2]] = e
    <3>1. y[2] \in DOMAIN Score[dataset[y[1]].doc]
      BY ChunkTypes DEF at
    <3>2. /\ dataset[y[1]].embedders \in Seq(Embedders)
          /\ y[2] \in DOMAIN dataset[y[1]].embedders
      BY <2>1, <3>1 DEF Row
    <3> HIDE DEF at
    <3> QED
      BY <3>2
  <2> QED
    BY <2>2 DEF ScoreAt, ChunkScore
<1>12. ASSUME NEW j \in DOMAIN Score[d]
       PROVE  Score[w][x[2]] >= Score[d][j]
  <2>1. PICK r \in DOMAIN dataset : dataset[r].doc = d
    BY DEF DocHashes
  <2> DEFINE y == <<r, j>>
  <2>2. y \in at /\ y[1] = r /\ y[2] = j
    BY <2>1 DEF at, Chunks
  <2> HIDE DEF y
  <2>3. P(y) \in 1 .. N /\ O[P(y)] = y
    BY <2>2, <1>1
  <2>4. i < P(y)
    <3> SUFFICES ASSUME P(y) \in 1 .. i PROVE FALSE
      BY <2>3, <1>1, <1>8
    <3>1. P(y) \in 1 .. m
      BY <1>1, <1>4, <1>8
    <3>2. hits[P(y)].doc = d
      BY <3>1, <2>1, <2>2, <2>3, <1>2, <1>5
    <3>3. C(P(y)) \in Nat /\ C(i) \in Nat /\ C(P(y)) <= C(i)
      BY <1>5, <1>8, PrefixDocs
    <3>4. C(P(y)) <= n
      BY <3>3, <1>7
    <3>5. P(y) \in DOMAIN hits
      BY <3>1, <1>5
    <3> QED
      BY <3>2, <3>4, <3>5 DEF FirstDocs, HitDocs
  <2>5. ScoreAt(dataset, e, x) >= ScoreAt(dataset, e, y)
    BY <2>2, <2>4, <1>1, <1>9
  <2> QED
    BY <2>1, <2>2, <2>5, <1>9, <1>11
<1> QED
  BY <1>10, <1>12

LEMMA Sizes ==
  ASSUME NEW limit \in Nat
  PROVE  Candidates(limit) \in Nat /\ FetchK(limit) \in Nat
<1>1. limit * OverFetch \in Nat /\ UsizeMax + 1 \in Nat \ {0} /\ MinCandidates \in Nat /\ UsizeMax \in Nat
  BY RankAssumption
<1>2. (limit * OverFetch) % (UsizeMax + 1) \in Nat
  BY <1>1
<1>3. Candidates(limit) \in Nat
  BY <1>1, <1>2 DEF Candidates, Larger
<1>4. Larger(ChunksPerDoc, 1) \in Nat
  BY BoundsAssumption DEF Larger
<1>5. Candidates(limit) * Larger(ChunksPerDoc, 1) \in Nat
  BY <1>3, <1>4
<1> QED
  BY <1>1, <1>3, <1>5 DEF FetchK, Smaller

RankFields == {"pc", "index", "limit", "rows", "evidence", "known", "indexed", "kept",
               "pruned", "unindexed", "scored"}

RankGood(r, n) ==
    /\ DOMAIN r = RankFields
    /\ r.pc \in {"idle", "search", "membership", "keep", "score", "done", "failed"}
    /\ r.index \in 0 .. n /\ r.limit \in Nat
    /\ r.rows \subseteq Docs \union {Null}
    /\ r.known \union r.indexed \subseteq Docs
    /\ r.scored \subseteq r.kept
    /\ r.kept \subseteq r.rows \ {Null}
    /\ r.pruned \union r.unindexed \subseteq r.rows
    /\ r.pc \notin {"score", "done"} => r.kept = {} /\ r.pruned = {} /\ r.unindexed = {}
    /\ r.pc # "done" => r.scored = {}
    /\ r.pc \in {"search", "membership"} => r.index # 0
    /\ r.pc \in {"membership", "keep", "score", "done"} =>
         (SingleEmbedder => Leads(r.known, r.evidence))
    /\ r.pc \in {"score", "done"} => r.pruned \intersect r.known \intersect DOMAIN r.evidence = {}

RankInv == DOMAIN rank = Queries /\ \A q \in Queries : RankGood(rank[q], Len(indexes))

LEMMA RankInitInv == RankInit /\ IndexInit => RankInv
  BY DEF RankInit, IndexInit, RankInv, RankGood, RankFields

LEMMA RankAcrossIndex ==
  ASSUME IndexInv, IndexInv', Grown, RankInv, rank' = rank
  PROVE  RankInv'
<1>1. Len(indexes) \in Nat /\ Len(indexes') \in Nat /\ Len(indexes) <= Len(indexes')
  BY DEF IndexInv, IndexTypeOK, Grown
<1>2. \A q \in Queries : RankGood(rank[q], Len(indexes'))
  BY <1>1 DEF RankInv, RankGood
<1> QED
  BY <1>2 DEF RankInv

LEMMA OneRank ==
  ASSUME RankInv, indexes' = indexes, NEW q \in Queries, NEW r,
         rank' = [rank EXCEPT ![q] = r], RankGood(r, Len(indexes))
  PROVE  RankInv'
<1>1. \A p \in Queries : RankGood(rank'[p], Len(indexes))
  BY DEF RankInv
<1>2. \A p \in Queries : RankGood(rank[p], Len(indexes))'
  BY <1>1
<1> QED
  BY <1>2 DEF RankInv

LEMMA RankNextInv ==
  ASSUME RankInv, IndexInv, UNCHANGED indexVars, NEW q \in Queries, RankStep(q)
  PROVE  RankInv'
<1> DEFINE r == rank[q]
           n == Len(indexes)
<1>1. /\ indexes' = indexes /\ RankGood(r, n) /\ n \in Nat /\ registered \in 0 .. n
      /\ indexes \in Seq(Index) /\ table \subseteq Docs \union {Null}
  BY DEF indexVars, RankInv, IndexInv, IndexTypeOK
<1>2. ASSUME NEW z, rank' = [rank EXCEPT ![q] = z], RankGood(z, n)
      PROVE  RankInv'
  BY <1>1, <1>2, OneRank
<1>3. CASE PlanRank(q)
  <2>1. PICK limit \in Limits :
          rank' = [rank EXCEPT ![q] =
                    [@ EXCEPT !.pc = IF registered = 0 THEN "failed" ELSE "search",
                              !.index = registered, !.limit = limit, !.rows = table]]
    BY <1>3 DEF PlanRank
  <2> DEFINE z == [r EXCEPT !.pc = IF registered = 0 THEN "failed" ELSE "search",
                            !.index = registered, !.limit = limit, !.rows = table]
  <2>2. limit \in Nat
    BY RankAssumption
  <2>3. rank' = [rank EXCEPT ![q] = z]
    BY <2>1
  <2>4. r.pc = "idle"
    BY <1>3 DEF PlanRank
  <2>5. RankGood(z, n)
    BY <1>1, <2>2, <2>4 DEF RankGood, RankFields
  <2> QED
    BY <2>3, <2>5, <1>2
<1>4. CASE Search(q)
  <2> DEFINE dataset == indexes[r.index].dataset
             k == FetchK(r.limit)
             m == Candidates(r.limit)
  <2>1. PICK e \in Embedders :
          rank' = [rank EXCEPT ![q] =
                    [@ EXCEPT !.pc = "membership", !.known = DocHashes(dataset),
                              !.evidence = BucketCandidates(Nearest(dataset, e, k), m)]]
    BY <1>4 DEF Search
  <2> DEFINE evidence == BucketCandidates(Nearest(dataset, e, k), m)
             known == DocHashes(dataset)
             z == [r EXCEPT !.pc = "membership", !.known = known, !.evidence = evidence]
  <2>2. r.pc = "search" /\ r.limit \in Nat /\ r.index \in 1 .. n
    BY <1>1, <1>4 DEF Search, RankGood
  <2>3. dataset \in Seq(Row)
    <3>1. indexes[r.index] \in Index
      BY <1>1, <2>2
    <3> QED
      BY <3>1 DEF Index
  <2>4. k \in Nat /\ m \in Nat
    BY <2>2, Sizes
  <2> HIDE DEF dataset, k, m
  <2>5. (SingleEmbedder => Leads(known, evidence)) /\ known \subseteq Docs
    BY <2>3, <2>4, SearchLeads, DocHashesType DEF SingleEmbedder
  <2>6. rank' = [rank EXCEPT ![q] = z]
    BY <2>1
  <2> HIDE DEF evidence, known
  <2>7. RankGood(z, n)
    BY <1>1, <2>2, <2>5 DEF RankGood, RankFields
  <2> QED
    BY <2>6, <2>7, <1>2
<1>5. CASE ReadMembership(q)
  <2> DEFINE z == [r EXCEPT !.pc = "keep", !.indexed = DocHashes(indexes[r.index].dataset)]
  <2>1. rank' = [rank EXCEPT ![q] = z] /\ r.pc = "membership"
    BY <1>5 DEF ReadMembership
  <2>2. DocHashes(indexes[r.index].dataset) \subseteq Docs
    <3>1. r.index \in 1 .. n
      BY <1>1, <2>1 DEF RankGood
    <3>2. indexes[r.index] \in Index
      BY <1>1, <3>1
    <3> QED
      BY <3>2, DocHashesType DEF Index
  <2>3. RankGood(z, n)
    BY <1>1, <2>1, <2>2 DEF RankGood, RankFields
  <2> QED
    BY <2>1, <2>3, <1>2
<1>6. CASE KeepCandidates(q)
  <2> DEFINE texts == r.rows \ {Null}
             kept == texts \intersect DOMAIN r.evidence
             losing == (texts \intersect r.indexed) \ kept
             pruned == losing \union ({Null} \intersect r.rows)
             unindexed == texts \ (kept \union losing)
             z == [r EXCEPT !.pc = "score", !.kept = kept, !.pruned = pruned,
                            !.unindexed = unindexed]
  <2>1. rank' = [rank EXCEPT ![q] = z] /\ r.pc = "keep"
    BY <1>6 DEF KeepCandidates
  <2>2. pruned \intersect r.known \intersect DOMAIN r.evidence = {}
    BY <1>1, <2>1, DocsAssumption DEF RankGood
  <2>3. kept \subseteq r.rows \ {Null} /\ pruned \union unindexed \subseteq r.rows /\ r.scored = {}
    BY <1>1, <2>1 DEF RankGood
  <2> HIDE DEF pruned, kept, unindexed
  <2>4. RankGood(z, n)
    BY <1>1, <2>1, <2>2, <2>3 DEF RankGood, RankFields
  <2> QED
    BY <2>1, <2>4, <1>2
<1>7. CASE ScoreCandidates(q)
  <2>1. PICK usable \in SUBSET rank[q].kept : rank' = [rank EXCEPT ![q] = [@ EXCEPT !.pc = "done", !.scored = usable]]
    BY <1>7 DEF ScoreCandidates
  <2> DEFINE z == [r EXCEPT !.pc = "done", !.scored = usable]
  <2>2. rank' = [rank EXCEPT ![q] = z] /\ r.pc = "score"
    BY <2>1, <1>7 DEF ScoreCandidates
  <2>3. RankGood(z, n)
    BY <1>1, <2>2 DEF RankGood, RankFields
  <2> QED
    BY <2>2, <2>3, <1>2
<1>8. CASE RankFails(q)
  <2> DEFINE z == [r EXCEPT !.pc = "failed"]
  <2>1. rank' = [rank EXCEPT ![q] = z]
    BY <1>8 DEF RankFails
  <2>2. RankGood(z, n)
    BY <1>1, <1>8 DEF RankGood, RankFields, RankFails
  <2> QED
    BY <2>1, <2>2, <1>2
<1> QED
  BY <1>3, <1>4, <1>5, <1>6, <1>7, <1>8 DEF RankStep

LEMMA RankImplies == SingleEmbedder /\ RankInv => LosersAreWorse
<1> SUFFICES ASSUME SingleEmbedder, RankInv, NEW q \in Queries, rank[q].pc \in {"score", "done"},
                    NEW d \in rank[q].pruned \intersect rank[q].known,
                    NEW k \in DOMAIN rank[q].evidence
             PROVE  \E i \in DOMAIN Score[k] : \A j \in DOMAIN Score[d] : Score[k][i] >= Score[d][j]
  BY DEF LosersAreWorse
<1>1. RankGood(rank[q], Len(indexes))
  BY DEF RankInv
<1> QED
  BY <1>1 DEF RankGood, Leads

-----------------------------------------------------------------------------
FunnelInv == IndexInv /\ MeansInv /\ RankInv

LEMMA FunnelNextInv == FunnelInv /\ [Next]_vars => FunnelInv'
<1> SUFFICES ASSUME FunnelInv, [Next]_vars PROVE FunnelInv'
  OBVIOUS
<1>1. IndexInv' /\ Grown
  BY IndexNextInv, IndexStutterInv DEF FunnelInv, Next, vars
<1>2. MeansInv'
  <2>1. CASE UNCHANGED meansVars
    BY <1>1, <2>1, MeansAcrossIndex DEF FunnelInv
  <2>2. CASE UNCHANGED indexVars /\ \E q \in Queries : MeansStep(q)
    BY <1>1, <2>2, MeansNextInv DEF FunnelInv
  <2> QED
    BY <2>1, <2>2 DEF Next, vars
<1>3. RankInv'
  <2>1. CASE rank' = rank
    BY <1>1, <2>1, RankAcrossIndex DEF FunnelInv
  <2>2. CASE UNCHANGED indexVars /\ \E q \in Queries : RankStep(q)
    BY <1>1, <2>2, RankNextInv DEF FunnelInv
  <2> QED
    BY <2>1, <2>2 DEF Next, vars
<1> QED
  BY <1>1, <1>2, <1>3 DEF FunnelInv

LEMMA FunnelInitInv == Init => FunnelInv
  BY IndexInitInv, MeansInitInv, RankInitInv DEF Init, FunnelInv

LEMMA ChunksAreIndexed ==
  ASSUME NEW y, y.snapshot \in Seq(Row)
  PROVE  DOMAIN Scanned(y).chunks \subseteq Scanned(y).indexed
<1> DEFINE ds == y.snapshot
           at == Above(ds, y.vector, Floor)
<1>1. at \in SUBSET Chunks(ds)
  BY DEF Above
<1>2. DOMAIN Scanned(y).chunks = {ds[x[1]].doc : x \in at}
  BY <1>1, HitDocsOf DEF Scanned, BucketChunks
<1>3. \A x \in at : x[1] \in DOMAIN ds
  BY <1>1, ChunkTypes
<1> HIDE DEF ds, at
<1>4. DOMAIN Scanned(y).chunks \subseteq DocHashes(ds)
  BY <1>2, <1>3 DEF DocHashes
<1> QED
  BY <1>4 DEF Scanned, ds

(***************************************************************************)
(* The types of the index, the queries and the rankings over it, whatever  *)
(* builders do meanwhile.                                                  *)
(***************************************************************************)
THEOREM FunnelTyped == Spec => []TypeOK
<1>1. FunnelInv => TypeOK
  <2> SUFFICES ASSUME FunnelInv PROVE TypeOK
    OBVIOUS
  <2>1. IndexTypeOK
    BY DEF FunnelInv, IndexInv
  <2>2. MeansTypeOK
    <3>1. \A q \in Queries, p \in Partitions : part[q][p] \in Batches
      BY DEF FunnelInv, MeansInv, BatchGood
    <3>2. ASSUME NEW q \in Queries
          PROVE  /\ query[q].planned \in BOOLEAN
                 /\ query[q].index \in 0 .. Len(indexes)
                 /\ query[q].filler \in Partitions \union {0}
                 /\ query[q].filler # 0 => query[q].vector \in Embedders
                 /\ query[q].cell.set => query[q].index # 0
                 /\ DOMAIN query[q].cell.chunks \subseteq query[q].cell.indexed
      <4> DEFINE y == query[q]
      <4>1. QueryGood(y, Len(indexes))
        BY DEF FunnelInv, MeansInv
      <4> HIDE DEF y
      <4>2. y.cell.set => y.index # 0
        BY <4>1, CellSet DEF QueryGood
      <4>3. DOMAIN y.cell.chunks \subseteq y.cell.indexed
        <5>1. CASE y.cell = Unset
          BY <5>1 DEF Unset
        <5>2. CASE y.cell # Unset
          BY <5>2, <4>1, ChunksAreIndexed DEF QueryGood
        <5> QED
          BY <5>1, <5>2
      <4> QED
        BY <4>1, <4>2, <4>3 DEF QueryGood, y
    <3> QED
      BY <3>1, <3>2 DEF MeansTypeOK
  <2>3. RankTypeOK
    BY DEF FunnelInv, RankInv, RankGood, RankTypeOK
  <2> QED
    BY <2>1, <2>2, <2>3 DEF TypeOK
<1> QED
  BY FunnelInitInv, FunnelNextInv, <1>1, PTL DEF Spec

(***************************************************************************)
(* A registered index holds every text its builder read, whichever builds  *)
(* and refreshes run at once and whichever fail. (create_semantic_index.)  *)
(***************************************************************************)
THEOREM IndexWhole == Spec => []RegisteredIsWhole
<1>1. FunnelInv => RegisteredIsWhole
  BY DEF FunnelInv, IndexInv, Whole, RegisteredIsWhole
<1> QED
  BY FunnelInitInv, FunnelNextInv, <1>1, PTL DEF Spec

(***************************************************************************)
(* A row the scan drops was scored by that scan, all its chunks below the  *)
(* floor: for any scores, floor and interleaving with builders.            *)
(* (IndexScanExec.scan_batch, LanceIndex.filter_scan.)                     *)
(***************************************************************************)
THEOREM NoneLostForBeingNew == Spec => []PrunedWasScored
<1>1. FunnelInv => PrunedWasScored
  BY MeansImplies DEF FunnelInv
<1> QED
  BY FunnelInitInv, FunnelNextInv, <1>1, PTL DEF Spec

(***************************************************************************)
(* Verification reads exactly the hits of the scan on their excerpts, for  *)
(* any number of partitions. (ChunkEvidence.)                              *)
(***************************************************************************)
THEOREM StagesAgree == Spec => []ReadAsScanned
<1>1. FunnelInv => ReadAsScanned
  BY MeansImplies DEF FunnelInv
<1> QED
  BY FunnelInitInv, FunnelNextInv, <1>1, PTL DEF Spec

(***************************************************************************)
(* A ranking over vectors of one embedder drops no document that beats one *)
(* it keeps, for any scores, LIMIT and candidate sizes, wrapped ones       *)
(* included. (bucket_candidates, Ranker::keep_candidates.)                 *)
(***************************************************************************)
THEOREM BestAreKept ==
  ASSUME \A e, f \in Embedders : e = f
  PROVE  Spec => []LosersAreWorse
<1>1. FunnelInv => LosersAreWorse
  BY RankImplies DEF FunnelInv, SingleEmbedder
<1> QED
  BY FunnelInitInv, FunnelNextInv, <1>1, PTL DEF Spec
============================================================================
