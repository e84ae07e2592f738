----------------------- MODULE SemanticOperatorsProofs -----------------------
(***************************************************************************)
(* Proofs about the operators, one after another, and of all of them side  *)
(* by side: a step of one leaves the others alone. What is shown of the    *)
(* calibrated scan is CalibrationProofs'.                                  *)
(***************************************************************************)
EXTENDS SemanticOperators, CalibrationProofs

(***************************************************************************)
(* Chunking: proofs for every length and every configuration. The          *)
(* argument: while words are left, the next window starts the overlap      *)
(* before the end of the last one, which is full and ends inside the text. *)
(***************************************************************************)

Windows == [from : Nat, to : Nat]

ChunkTypeOK ==
    /\ words \in Nat
    /\ config \in [max : Nat, overlap : Nat]
    /\ start \in Int
    /\ windows \in Seq(Windows)

Sized ==
    \A i \in 1 .. Len(windows) :
      windows[i].to - windows[i].from \in 1 .. WordsPerChunk(config)

Linked ==
    \A i \in 2 .. Len(windows) :
      /\ windows[i].from > windows[i - 1].from
      /\ windows[i - 1].to - windows[i].from = OverlapWords(config)

First == windows # <<>> => windows[1].from = 0

Ahead ==
    start >= 0 =>
      /\ start < words
      /\ windows = <<>> => start = 0
      /\ windows # <<>> =>
           /\ start > windows[Len(windows)].from
           /\ windows[Len(windows)].to - start = OverlapWords(config)

Over ==
    start < 0 => start = -1 /\ (words > 0 =>
      windows # <<>> /\ windows[Len(windows)].to = words)

ChunkInv == ChunkTypeOK /\ Sized /\ Linked /\ First /\ Ahead /\ Over

-----------------------------------------------------------------------------
(* A window holds a word at least, and its overlap leaves one to advance.  *)
LEMMA Sizes ==
  ASSUME NEW c \in [max : Nat, overlap : Nat]
  PROVE  /\ WordsPerChunk(c) \in Nat \ {0}
         /\ OverlapWords(c) \in Nat
         /\ OverlapWords(c) < WordsPerChunk(c)
         /\ Stride(c) = WordsPerChunk(c) - OverlapWords(c)
<1>1. c.max \in Nat /\ c.overlap \in Nat
  OBVIOUS
<1>2. (c.max * 3) \div 4 \in Nat /\ (c.overlap * 3) \div 4 \in Nat
  BY <1>1
<1>3. WordsPerChunk(c) \in Nat \ {0}
  BY <1>2 DEF WordsPerChunk
<1> QED
  BY <1>2, <1>3 DEF OverlapWords, Lesser, Stride

LEMMA ChunkInitInv == ChunkInit => ChunkInv
<1> SUFFICES ASSUME ChunkInit PROVE ChunkInv
  OBVIOUS
<1>1. words \in Nat /\ config \in [max : Nat, overlap : Nat]
  BY ChunkAssumption DEF ChunkInit
<1>2. windows = <<>> /\ Len(windows) = 0 /\ start \in Int
  BY DEF ChunkInit
<1>3. ChunkTypeOK
  BY <1>1, <1>2 DEF ChunkTypeOK
<1>4. Sized /\ Linked /\ First
  BY <1>2 DEF Sized, Linked, First
<1>5. Ahead /\ Over
  BY <1>1, <1>2 DEF Ahead, Over, ChunkInit
<1> QED
  BY <1>3, <1>4, <1>5 DEF ChunkInv

(* One more window keeps the invariant.                                    *)
LEMMA PushInv == ChunkInv /\ PushWindow => ChunkInv'
<1> SUFFICES ASSUME ChunkInv, PushWindow PROVE ChunkInv'
  OBVIOUS
<1> DEFINE W == WordsPerChunk(config)
           O == OverlapWords(config)
           end == Lesser(start + W, words)
           n == Len(windows)
<1>1. /\ words \in Nat /\ config \in [max : Nat, overlap : Nat]
      /\ start \in Nat /\ start < words /\ windows \in Seq(Windows) /\ n \in Nat
  BY DEF ChunkInv, ChunkTypeOK, PushWindow, Ahead
<1>2. W \in Nat \ {0} /\ O \in Nat /\ O < W /\ Stride(config) = W - O
  BY <1>1, Sizes
<1>3. /\ windows' = Append(windows, [from |-> start, to |-> end])
      /\ start' = IF end = words THEN -1 ELSE start + Stride(config)
      /\ words' = words /\ config' = config
  BY DEF PushWindow
<1>4. end \in Nat /\ end > start /\ end <= words /\ end - start <= W
      /\ (end # words => end = start + W)
  BY <1>1, <1>2 DEF Lesser
<1> HIDE DEF W, O, end, n
<1>5. [from |-> start, to |-> end] \in Windows
  BY <1>1, <1>4 DEF Windows
<1>6. /\ windows' \in Seq(Windows) /\ Len(windows') = n + 1
      /\ windows'[n + 1] = [from |-> start, to |-> end]
      /\ \A i \in 1 .. n : windows'[i] = windows[i]
  BY <1>1, <1>3, <1>5 DEF n
<1>7. WordsPerChunk(config)' = W /\ OverlapWords(config)' = O
  BY <1>3 DEF W, O, WordsPerChunk, OverlapWords, Lesser
<1>8. start' \in Int
  BY <1>1, <1>2, <1>3
<1>9. ChunkTypeOK'
  BY <1>1, <1>3, <1>6, <1>8 DEF ChunkTypeOK
<1>10. Sized'
  <2> SUFFICES ASSUME NEW i \in 1 .. n + 1
               PROVE  windows'[i].to - windows'[i].from \in 1 .. W
    BY <1>6, <1>7 DEF Sized
  <2>1. CASE i \in 1 .. n
    BY <2>1, <1>6 DEF ChunkInv, Sized, n, W
  <2>2. CASE i = n + 1
    <3>1. windows'[i].to = end /\ windows'[i].from = start
      BY <2>2, <1>6
    <3> QED
      BY <3>1, <1>1, <1>2, <1>4
  <2> QED
    BY <2>1, <2>2, <1>1
<1>11. Linked'
  <2> SUFFICES ASSUME NEW i \in 2 .. n + 1
               PROVE  /\ windows'[i].from > windows'[i - 1].from
                      /\ windows'[i - 1].to - windows'[i].from = O
    BY <1>6, <1>7 DEF Linked
  <2>1. i - 1 \in 1 .. n /\ windows'[i - 1] = windows[i - 1]
    BY <1>1, <1>6
  <2>2. CASE i \in 1 .. n
    <3>1. i \in 2 .. n /\ windows'[i] = windows[i]
      BY <2>2, <1>6
    <3> QED
      BY <3>1, <2>1 DEF ChunkInv, Linked, n, O
  <2>3. CASE i = n + 1
    <3>1. windows # <<>> /\ i - 1 = n
      BY <2>1, <2>3, <1>1 DEF n
    <3>2. start > windows[n].from /\ windows[n].to - start = O
      BY <3>1, <1>1 DEF ChunkInv, Ahead, n, O
    <3>3. windows'[i].from = start
      BY <2>3, <1>6
    <3> QED
      BY <2>1, <3>1, <3>2, <3>3
  <2> QED
    BY <2>2, <2>3, <1>1
<1>12. First'
  <2>1. CASE n = 0
    <3>1. windows = <<>> /\ start = 0
      BY <2>1, <1>1 DEF ChunkInv, Ahead, n
    <3> QED
      BY <3>1, <2>1, <1>6 DEF First
  <2>2. CASE n # 0
    <3>1. 1 \in 1 .. n /\ windows # <<>>
      BY <2>2, <1>1 DEF n
    <3> QED
      BY <3>1, <1>6 DEF ChunkInv, First
  <2> QED
    BY <2>1, <2>2
<1>13. windows' # <<>> /\ windows'[Len(windows')].from = start /\ windows'[Len(windows')].to = end
  BY <1>1, <1>6
<1>14. Ahead'
  <2> SUFFICES ASSUME start' >= 0
               PROVE  start' < words /\ start' > start /\ end - start' = O
    BY <1>3, <1>7, <1>13 DEF Ahead
  <2>1. end # words /\ start' = start + (W - O) /\ end = start + W
    BY <1>1, <1>2, <1>3, <1>4
  <2> QED
    BY <2>1, <1>1, <1>2, <1>4
<1>15. Over'
  <2> SUFFICES ASSUME start' < 0 PROVE start' = -1 /\ end = words
    BY <1>3, <1>13 DEF Over
  <2> QED
    BY <1>1, <1>2, <1>3
<1> QED
  BY <1>9, <1>10, <1>11, <1>12, <1>14, <1>15 DEF ChunkInv

(* A step that pushes a window or stutters keeps the invariant.            *)
LEMMA ChunkNextInv == ChunkInv /\ [PushWindow]_chunkVars => ChunkInv'
<1>1. ChunkInv /\ UNCHANGED chunkVars => ChunkInv'
  <2> SUFFICES ASSUME ChunkInv, UNCHANGED chunkVars PROVE ChunkInv'
    OBVIOUS
  <2>1. words' = words /\ config' = config /\ start' = start /\ windows' = windows
    BY DEF chunkVars
  <2> QED
    BY <2>1 DEF ChunkInv, ChunkTypeOK, Sized, Linked, First, Ahead, Over,
                WordsPerChunk, OverlapWords, Lesser
<1> QED
  BY <1>1, PushInv

LEMMA ChunkInvImplies == ChunkInv => WindowsCoverText
<1> SUFFICES ASSUME ChunkInv PROVE WindowsCoverText
  OBVIOUS
<1>1. DOMAIN windows = 1 .. Len(windows)
  BY DEF ChunkInv, ChunkTypeOK
<1> QED
  BY <1>1 DEF ChunkInv, ChunkTypeOK, Sized, Linked, First, Over, WindowsCoverText

-----------------------------------------------------------------------------
(***************************************************************************)
(* Classification: proofs for every CASE, table and set of answers.        *)
(*                                                                         *)
(* The guard: a row it refuses has a leading ordinary branch that is true, *)
(* and no MEANS comes before it, so the first branch that matches does not *)
(* depend on any verdict. The cache: whatever a model has answered is in   *)
(* it under one of the two prompts, and a CASE of several conditions looks *)
(* under both.                                                             *)
(***************************************************************************)

GatedByBranch ==
    label.pc = "done" \/ label.pc = "label" =>
      /\ label.case \in Cases
      /\ \A r \in label.gated : ~Admitted(label.case, r)

AnsweredIsKept ==
    \A t, c : <<t, c>> \in answered =>
      \/ <<t, c, "means">> \in DOMAIN answers
      \/ <<t, c, "classify">> \in DOMAIN answers

LabelInv ==
    /\ GatedByBranch
    /\ AnsweredIsKept
    /\ AnswersStayWarm

-----------------------------------------------------------------------------
(* The branch a row takes is settled before the first MEANS.               *)
LEMMA BranchSettled ==
  ASSUME NEW case \in Cases, NEW r, ~Admitted(case, r), NEW v, NEW w
  PROVE  CaseOver(case, r, v) = CaseOver(case, r, w)
<1> DEFINE holds(b, x) == IF b \in Conditions THEN b \in DOMAIN x /\ x[b] = "yes"
                          ELSE Outcomes[r][b] = "true"
           matching(x) == {i \in DOMAIN case : holds(case[i], x)}
           first(x) == {i \in matching(x) : \A j \in matching(x) : i <= j}
<1>1. DOMAIN case \subseteq Nat \ {0}
  BY CasesAssumption
<1>2. PICK g \in Leading(case) : Outcomes[r][case[g]] = "true"
  BY DEF Admitted
<1>3. g \in DOMAIN case /\ \A j \in 1 .. g : case[j] \notin Conditions
  BY DEF Leading
<1>4. ASSUME NEW x, NEW y, NEW i \in first(x)
      PROVE  i \in first(y)
  <2>1. g \in matching(x) /\ i \in matching(x) /\ i <= g
    BY <1>1, <1>2, <1>3
  <2>2. i \in 1 .. g /\ i \in matching(y)
    BY <2>1, <1>1, <1>3
  <2>3. ASSUME NEW j \in matching(y)
        PROVE  i <= j
    <3>1. CASE j <= g
      <4>1. j \in 1 .. g
        BY <3>1, <1>1, <1>3
      <4>2. j \in matching(x)
        BY <4>1, <1>3
      <4> QED
        BY <4>2
    <3>2. CASE ~(j <= g)
      BY <3>2, <2>1, <1>1, <1>3
    <3> QED
      BY <3>1, <3>2
  <2> QED
    BY <2>2, <2>3
<1>5. first(v) = first(w)
  BY <1>4
<1>6. \A x : CaseOver(case, r, x) = IF first(x) = {} THEN 0 ELSE CHOOSE i \in first(x) : TRUE
  BY DEF CaseOver
<1> HIDE DEF first
<1> QED
  BY <1>5, <1>6

(* A lookup under both prompts misses only what is cached under neither.   *)
LEMMA MissMeansAbsent ==
  ASSUME NEW t, NEW c, NEW n, n # 1, Cached(t, c, n) = {}
  PROVE  /\ <<t, c, "means">> \notin DOMAIN answers
         /\ <<t, c, "classify">> \notin DOMAIN answers
<1>1. Prompt(n) = "classify"
  BY DEF Prompt
<1> QED
  BY <1>1 DEF Cached

LEMMA LabelInitInv == ClassificationInit => LabelInv
  BY DEF ClassificationInit, LabelInv, GatedByBranch, AnsweredIsKept, AnswersStayWarm

LEMMA BeginLabelInv ==
  ASSUME NEW case \in Cases, LabelInv, BeginLabel(case)
  PROVE  LabelInv'
<1> DEFINE asked == Asked(case)
           n == Cardinality(asked)
           refused == {r \in Rows : ~Admitted(case, r) \/ r \notin DOMAIN Text}
           known(r) == {c \in asked : Cached(Text[r], c, n) # {}}
<1>1. /\ label'.pc = "label" /\ label'.case = case
      /\ label'.gated = {r \in Rows : ~Admitted(case, r)}
      /\ label'.pending = [r \in Rows |-> IF r \in refused THEN {} ELSE asked \ known(r)]
      /\ answers' = answers /\ answered' = answered
  BY DEF BeginLabel
<1>2. GatedByBranch'
  BY <1>1 DEF GatedByBranch, Admitted, Leading
<1>3. AnsweredIsKept'
  BY <1>1 DEF LabelInv, AnsweredIsKept
<1>4. AnswersStayWarm'
  <2>0. Asked(label.case)' = asked
    BY <1>1 DEF Asked
  <2> SUFFICES ASSUME n > 1, NEW r \in Rows, NEW c \in label'.pending[r]
               PROVE  <<Text[r], c>> \notin answered
    BY <1>1, <2>0 DEF AnswersStayWarm
  <2>1. c \in asked \ known(r)
    BY <1>1
  <2>2. Cached(Text[r], c, n) = {}
    BY <2>1
  <2> HIDE DEF n
  <2>3. n # 1
    OBVIOUS
  <2> QED
    BY <2>2, <2>3, MissMeansAbsent DEF LabelInv, AnsweredIsKept
<1> QED
  BY <1>2, <1>3, <1>4 DEF LabelInv

LEMMA ApplyInv == LabelInv /\ Apply => LabelInv'
<1> SUFFICES ASSUME LabelInv, Apply PROVE LabelInv'
  OBVIOUS
<1>1. PICK some \in SUBSET Pending : \E decoded \in [some -> Verdicts] :
        /\ answers' = Later(answers, Entries(decoded))
        /\ answered' = answered \union {<<Text[x[1]], x[2]>> : x \in some}
  BY DEF Apply
<1>2. PICK decoded \in [some -> Verdicts] :
        /\ answers' = Later(answers, Entries(decoded))
        /\ answered' = answered \union {<<Text[x[1]], x[2]>> : x \in some}
  BY <1>1
<1>3. /\ label'.pc = "done" /\ label.pc = "label" /\ label'.case = label.case
      /\ label'.gated = label.gated
  BY DEF Apply
<1>4. GatedByBranch'
  BY <1>3 DEF LabelInv, GatedByBranch, Admitted, Leading
<1>5. DOMAIN answers' = DOMAIN answers \union DOMAIN Entries(decoded)
  BY <1>2 DEF Later
<1>6. ASSUME NEW x \in some
      PROVE  \/ <<Text[x[1]], x[2], "means">> \in DOMAIN answers'
             \/ <<Text[x[1]], x[2], "classify">> \in DOMAIN answers'
  <2>1. <<Text[x[1]], x[2], Prompt(Cardinality(label.pending[x[1]]))>> \in DOMAIN Entries(decoded)
    BY DEF Entries
  <2> QED
    BY <2>1, <1>5 DEF Prompt
<1>7. AnsweredIsKept'
  BY <1>2, <1>5, <1>6 DEF LabelInv, AnsweredIsKept
<1>8. AnswersStayWarm'
  BY <1>3 DEF AnswersStayWarm
<1> QED
  BY <1>4, <1>7, <1>8 DEF LabelInv

LEMMA FilterInv ==
  ASSUME NEW c, LabelInv, Filter(c)
  PROVE  LabelInv'
<1>1. PICK some : \E verdict \in [some -> Verdicts] :
        /\ answers' = Later(answers, [key \in {<<t, c, "means">> : t \in some} |->
                                        verdict[key[1]]])
        /\ answered' = answered \union {<<t, c>> : t \in some}
  BY DEF Filter
<1>2. label' = label /\ label.pc # "label"
  BY DEF Filter
<1>3. DOMAIN answers' = DOMAIN answers \union {<<t, c, "means">> : t \in some}
  BY <1>1 DEF Later
<1>4. GatedByBranch' /\ AnswersStayWarm'
  BY <1>2 DEF LabelInv, GatedByBranch, AnswersStayWarm, Admitted, Leading
<1>5. AnsweredIsKept'
  BY <1>1, <1>3 DEF LabelInv, AnsweredIsKept
<1> QED
  BY <1>4, <1>5 DEF LabelInv

LEMMA LabelNextInv == LabelInv /\ [ClassificationNext]_classificationVars => LabelInv'
<1>1. LabelInv /\ UNCHANGED classificationVars => LabelInv'
  BY DEF classificationVars, LabelInv, GatedByBranch, AnsweredIsKept, AnswersStayWarm,
         Admitted, Leading, Asked
<1> QED
  BY <1>1, BeginLabelInv, ApplyInv, FilterInv DEF ClassificationNext

LEMMA LabelInvImplies == LabelInv => GuardSkipsNothingNeeded /\ AnswersStayWarm
<1> SUFFICES ASSUME LabelInv, label.pc = "done",
                    NEW r \in label.gated, NEW truth \in [Asked(label.case) -> Verdicts]
             PROVE  CaseOver(label.case, r, truth) = CaseOver(label.case, r, label.verdicts[r])
  BY DEF LabelInv, GuardSkipsNothingNeeded
<1>1. label.case \in Cases /\ ~Admitted(label.case, r)
  BY DEF LabelInv, GatedByBranch
<1> QED
  BY <1>1, BranchSettled

-----------------------------------------------------------------------------
(***************************************************************************)
(* DISTINCT ON and CLUSTER BY.  The representatives of a sequence are the  *)
(* documents out of reach of every representative before them.             *)
(***************************************************************************)
RepsUpTo(docs, n, f) ==
  f = [m \in 0 .. n |->
         IF m = 0 THEN {}
         ELSE IF \E r \in f[m - 1] : Apart(docs[m], docs[r]) <= Near THEN f[m - 1]
         ELSE f[m - 1] \union {m}]

LEMMA RepsUpToExist ==
  ASSUME NEW docs, NEW n \in Nat
  PROVE  \E f : RepsUpTo(docs, n, f)
<1>. DEFINE N == {k \in Nat : \E f : RepsUpTo(docs, k, f)}
            Body(m, before) == IF \E r \in before : Apart(docs[m], docs[r]) <= Near THEN before
                               ELSE before \union {m}
<1>1. 0 \in N
  <2>. DEFINE f == [m \in 0 .. 0 |-> {}]
  <2>1. \A m \in 0 .. 0 : m = 0
    OBVIOUS
  <2>2. f = [m \in 0 .. 0 |-> IF m = 0 THEN {} ELSE Body(m, f[m - 1])]
    <3>. HIDE DEF Body
    <3>. QED BY <2>1
  <2>. HIDE DEF f
  <2>3. RepsUpTo(docs, 0, f)
    BY <2>2 DEF RepsUpTo
  <2>. QED BY <2>3
<1>2. ASSUME NEW k \in N PROVE k + 1 \in N
  <2>1. PICK f : RepsUpTo(docs, k, f)
    OBVIOUS
  <2>2. \A m \in 0 .. k : f[m] = IF m = 0 THEN {} ELSE Body(m, f[m - 1])
    BY <2>1, Zenon DEF RepsUpTo
  <2>. DEFINE g == [m \in 0 .. k + 1 |-> IF m = k + 1 THEN Body(m, f[k]) ELSE f[m]]
  <2>3. \A m \in 0 .. k + 1 : g[m] = IF m = 0 THEN {} ELSE Body(m, g[m - 1])
    <3>. HIDE DEF Body
    <3>1. ASSUME NEW m \in 0 .. k + 1 PROVE g[m] = IF m = 0 THEN {} ELSE Body(m, g[m - 1])
      <4>1. CASE m = k + 1
        <5>1. g[m - 1] = f[k] /\ m # 0
          BY <4>1
        <5>. QED BY <4>1, <5>1
      <4>2. CASE m # k + 1
        <5>1. m \in 0 .. k /\ g[m] = f[m] /\ (m # 0 => g[m - 1] = f[m - 1])
          BY <4>2
        <5>. QED BY <5>1, <2>2
      <4>. QED BY <4>1, <4>2
    <3>. QED BY <3>1
  <2>4. g = [m \in 0 .. k + 1 |-> g[m]]
    OBVIOUS
  <2>. HIDE DEF g
  <2>5. g = [m \in 0 .. k + 1 |-> IF m = 0 THEN {} ELSE Body(m, g[m - 1])]
    <3>. HIDE DEF Body
    <3>. QED BY <2>3, <2>4
  <2>6. RepsUpTo(docs, k + 1, g)
    BY <2>5, Zenon DEF RepsUpTo
  <2>. QED BY <2>6
<1>3. N = Nat
  <2>. HIDE DEF N
  <2>1. N \in SUBSET Nat
    BY DEF N
  <2>. QED BY <1>1, <1>2, <2>1, AllNat
<1>4. n \in N
  <2>. HIDE DEF N
  <2>. QED BY <1>3
<1>. QED BY <1>4

LEMMA RepsSteps ==
  ASSUME NEW docs, Len(docs) \in Nat
  PROVE  \E f : RepsUpTo(docs, Len(docs), f) /\ Representatives(docs) = f[Len(docs)]
<1>. DEFINE F == CHOOSE f : f = [m \in 0 .. Len(docs) |->
                   IF m = 0 THEN {}
                   ELSE IF \E r \in f[m - 1] : Apart(docs[m], docs[r]) <= Near THEN f[m - 1]
                   ELSE f[m - 1] \union {m}]
<1>1. Representatives(docs) = F[Len(docs)]
  BY Zenon DEF Representatives
<1>2. \E f : RepsUpTo(docs, Len(docs), f)
  BY RepsUpToExist
<1>3. RepsUpTo(docs, Len(docs), F)
  BY <1>2, Zenon DEF RepsUpTo
<1>. HIDE DEF F
<1>. QED BY <1>1, <1>3

LEMMA RepsOf ==
  ASSUME NEW docs, Len(docs) \in Nat
  PROVE  LET R == Representatives(docs)
         IN  /\ R \in SUBSET (1 .. Len(docs))
             /\ \A i \in 1 .. Len(docs) :
                  i \in R <=> \A r \in R : r < i => ~ (Apart(docs[i], docs[r]) <= Near)
<1>1. PICK f : RepsUpTo(docs, Len(docs), f) /\ Representatives(docs) = f[Len(docs)]
  BY RepsSteps
<1>. DEFINE Close(i, r) == Apart(docs[i], docs[r]) <= Near
            Greedy(n, R) == /\ R \in SUBSET (1 .. n)
                            /\ \A i \in 1 .. n : i \in R <=> \A r \in R : r < i => ~ Close(i, r)
            N == {n \in Nat : n <= Len(docs) => Greedy(n, f[n])}
<1>2. \A m \in 0 .. Len(docs) :
        f[m] = IF m = 0 THEN {}
               ELSE IF \E r \in f[m - 1] : Close(m, r) THEN f[m - 1] ELSE f[m - 1] \union {m}
  BY <1>1, Zenon DEF RepsUpTo
<1>. HIDE DEF Close
<1>3. 0 \in N
  <2>0. 0 \in 0 .. Len(docs)
    OBVIOUS
  <2>1. f[0] = {}
    BY <1>2, <2>0, Zenon
  <2>2. Greedy(0, {})
    BY <2>1
  <2>. HIDE DEF Greedy
  <2>. QED BY <2>1, <2>2
<1>4. ASSUME NEW n \in N, n < Len(docs) PROVE n + 1 \in N
  <2>1. Greedy(n, f[n])
    BY <1>4
  <2>2. n + 1 \in 0 .. Len(docs) /\ n + 1 # 0 /\ (n + 1) - 1 = n
    BY <1>4
  <2>3. f[n + 1] = IF \E r \in f[n] : Close(n + 1, r) THEN f[n] ELSE f[n] \union {n + 1}
    BY <1>2, <2>2
  <2>4. \A i : i \in 1 .. n + 1 <=> i \in 1 .. n \/ i = n + 1
    OBVIOUS
  <2>5. \A i \in 1 .. n : i < n + 1 /\ ~ (n + 1 < i)
    OBVIOUS
  <2>6. ~ (n + 1 < n + 1) /\ n + 1 \notin 1 .. n
    OBVIOUS
  <2>7. f[n + 1] \in SUBSET (1 .. n + 1)
    BY <2>1, <2>3, <2>4
  <2>8. ASSUME NEW i \in 1 .. n + 1
        PROVE  i \in f[n + 1] <=> \A r \in f[n + 1] : r < i => ~ Close(i, r)
    <3>1. CASE i \in 1 .. n
      BY <3>1, <2>1, <2>3, <2>5, <2>6
    <3>2. CASE i = n + 1
      <4>1. i \notin f[n]
        BY <3>2, <2>1, <2>6
      <4>2. \A r \in f[n] : r < i
        BY <3>2, <2>1, <2>5
      <4>. QED BY <3>2, <4>1, <4>2, <2>3, <2>6
    <3>. QED BY <3>1, <3>2, <2>4
  <2>9. Greedy(n + 1, f[n + 1])
    BY <2>7, <2>8
  <2>. HIDE DEF Greedy
  <2>. QED BY <2>9
<1>5. Greedy(Len(docs), f[Len(docs)])
  <2>. HIDE DEF Greedy
  <2>1. N \in SUBSET Nat
    OBVIOUS
  <2>2. 0 .. Len(docs) \subseteq N
    <3>. HIDE DEF N
    <3>. QED BY <1>3, <1>4, <2>1, UpTo
  <2>. QED BY <2>2
<1>. QED BY <1>1, <1>5 DEF Close

LEMMA ApartOf ==
  ASSUME NEW a \in Documents, NEW b \in Documents
  PROVE  /\ Apart(a, b) \in Nat
         /\ Apart(a, b) = Apart(b, a)
         /\ Apart(a, a) = 0
<1>1. Place[a] \in Int /\ Place[b] \in Int
  BY PlaceAssumption
<1>. QED BY <1>1 DEF Apart

(***************************************************************************)
(* A document is keyed by a representative at or before it that it lies    *)
(* within reach of, and a representative by itself.                        *)
(***************************************************************************)
LEMMA RepresentativeOf ==
  ASSUME NEW docs \in Seq(Documents), NEW i \in DOMAIN docs
  PROVE  LET m == Representative(docs, i)
         IN  /\ m \in Representatives(docs) /\ m <= i
             /\ m \in DOMAIN docs
             /\ Apart(docs[i], docs[m]) <= Near
             /\ i \in Representatives(docs) <=> m = i
<1>. DEFINE R == Representatives(docs)
            Far(j, r) == Apart(docs[j], docs[r])
            reps == {r \in R : r <= i}
            nearest == {r \in reps : \A s \in reps : Far(i, r) <= Far(i, s)}
            m == Max(nearest)
<1>0. /\ Len(docs) \in Nat /\ DOMAIN docs = 1 .. Len(docs) /\ Near \in Nat
      /\ \A j \in DOMAIN docs : docs[j] \in Documents
  BY PlaceAssumption
<1>1. /\ R \in SUBSET (1 .. Len(docs))
      /\ \A j \in 1 .. Len(docs) : j \in R <=> \A r \in R : r < j => ~ (Far(j, r) <= Near)
  BY <1>0, RepsOf
<1>. HIDE DEF R
<1>2. \A j, r \in DOMAIN docs : Far(j, r) \in Nat /\ Far(j, r) = Far(r, j) /\ Far(j, j) = 0
  BY <1>0, ApartOf
<1>. HIDE DEF Far
<1>3. \E r \in reps : Far(i, r) <= Near
  <2>1. CASE i \in R
    BY <2>1, <1>0, <1>2
  <2>2. CASE i \notin R
    <3>1. PICK r \in R : r < i /\ Far(i, r) <= Near
      BY <2>2, <1>1, <1>0
    <3>2. r <= i
      BY <3>1, <1>1, <1>0
    <3>. QED BY <3>1, <3>2
  <2>. QED BY <2>1, <2>2
<1>4. reps \in SUBSET DOMAIN docs
  BY <1>1, <1>0
<1>5. PICK b \in reps : \A s \in reps : Far(i, b) <= Far(i, s)
  <2>. DEFINE D == {Far(i, r) : r \in reps}
  <2>1. D \in SUBSET Nat /\ D # {}
    BY <1>2, <1>3, <1>4
  <2>2. PICK d \in D : \A e \in D : d <= e
    <3>. HIDE DEF D
    <3>. QED BY <2>1, LeastNat
  <2>. QED BY <2>2
<1>6. /\ nearest \in SUBSET Int /\ IsFiniteSet(nearest) /\ nearest # {}
  <2>1. nearest \in SUBSET (1 .. Len(docs))
    BY <1>4, <1>0
  <2>2. IsFiniteSet(1 .. Len(docs))
    BY <1>0, FS_Interval
  <2>3. IsFiniteSet(nearest)
    <3>. HIDE DEF nearest
    <3>. QED BY <2>1, <2>2, FS_Subset
  <2>4. b \in nearest
    BY <1>5
  <2>. QED BY <2>1, <2>3, <2>4, <1>0
<1>7. m \in nearest
  <2>. HIDE DEF nearest
  <2>. QED BY <1>6, MaxOf
<1>8. m = Representative(docs, i)
  BY DEF Representative, R, Far
<1>. HIDE DEF m
<1>9. m \in R /\ m <= i /\ m \in DOMAIN docs
  BY <1>7, <1>4
<1>10. Far(i, m) <= Near
  <2>1. PICK r \in reps : Far(i, r) <= Near
    BY <1>3
  <2>2. Far(i, m) <= Far(i, r)
    BY <1>7
  <2>3. r \in DOMAIN docs /\ i \in DOMAIN docs
    BY <1>4
  <2>4. Far(i, m) \in Int /\ Far(i, r) \in Int
    BY <2>3, <1>9, <1>2
  <2>. QED BY <2>1, <2>2, <2>4, <1>0
<1>11. i \in R => m = i
  <2>1. ASSUME i \in R, m < i PROVE FALSE
    BY <2>1, <1>1, <1>9, <1>10, <1>0
  <2>2. i \in Int /\ m \in Int
    BY <1>9, <1>0
  <2>. QED BY <2>1, <2>2, <1>9
<1>. QED BY <1>8, <1>9, <1>10, <1>11 DEF R, Far

(***************************************************************************)
(* FirstSeen lists the indexed documents of the rows where they first      *)
(* occur.                                                                  *)
(***************************************************************************)
LEMMA OnlyFirsts ==
  ASSUME NEW T, NEW s \in Seq(T), NEW A
  PROVE  Only(Firsts(s), A)
           = At(s, {i \in DOMAIN s : s[i] \in A /\ \A j \in 1 .. i - 1 : s[j] # s[i]})
<1>. DEFINE P == {i \in DOMAIN s : \A j \in 1 .. i - 1 : s[j] # s[i]}
            Q == {n \in DOMAIN At(s, P) : At(s, P)[n] \in A}
            R == {i \in DOMAIN s : s[i] \in A /\ \A j \in 1 .. i - 1 : s[j] # s[i]}
<1>1. P \in SUBSET DOMAIN s /\ Q \in SUBSET DOMAIN At(s, P)
  OBVIOUS
<1>2. Only(Firsts(s), A) = At(At(s, P), Q)
  BY DEF Only, Firsts
<1>3. R = {i \in P : s[i] \in A}
  OBVIOUS
<1>. HIDE DEF P
<1>4. /\ \A n \in DOMAIN At(s, P) : Nth(P, n) \in P /\ At(s, P)[n] = s[Nth(P, n)]
      /\ \A i \in P : \E n \in DOMAIN At(s, P) : Nth(P, n) = i
  BY <1>1, AtOf
<1>5. {Nth(P, n) : n \in Q} = R
  <2>. HIDE DEF R
  <2>1. \A n \in Q : Nth(P, n) \in R
    BY <1>3, <1>4
  <2>2. \A i \in R : \E n \in Q : Nth(P, n) = i
    BY <1>3, <1>4
  <2>. QED BY <2>1, <2>2
<1>. HIDE DEF Q, R
<1>6. At(At(s, P), Q) = At(s, {Nth(P, n) : n \in Q})
  BY <1>1, AtAt
<1>. QED BY <1>2, <1>5, <1>6 DEF R

(***************************************************************************)
(* The statement running is a record of these fields; until the rows are   *)
(* read only its place and the vectors count.                              *)
(***************************************************************************)
GroupingShape ==
  /\ grouping = [pc |-> grouping.pc, rows |-> grouping.rows, vectors |-> grouping.vectors,
                 docs |-> grouping.docs, k |-> grouping.k, centroids |-> grouping.centroids,
                 assignments |-> grouping.assignments, iterations |-> grouping.iterations,
                 names |-> grouping.names, keys |-> grouping.keys]
  /\ grouping.vectors \in SUBSET Documents

GroupingKeyInv == GroupingShape /\ KeptRowsDiffer

KeyAmong(docs, d) ==
  IF \E i \in DOMAIN docs : docs[i] = d
  THEN docs[Representative(docs, CHOOSE i \in DOMAIN docs : docs[i] = d)]
  ELSE d

ToldApart(rows, V, docs) ==
  LET indexed == {i \in DOMAIN rows : rows[i] \in V}
      kept == {i \in indexed : KeyAmong(docs, rows[i]) = rows[i]}
  IN  /\ \A i \in indexed : \E j \in kept :
           /\ j <= i
           /\ KeyAmong(docs, rows[i]) = rows[j]
           /\ Apart(rows[i], rows[j]) <= Near
      /\ \A i, j \in kept : rows[i] # rows[j] => Apart(rows[i], rows[j]) > Near

LEMMA KeysTellApart ==
  ASSUME NEW rows \in Seq(Documents \union {Null}), NEW V \in SUBSET Documents,
         NEW docs, docs = Only(Firsts(rows), V)
  PROVE  ToldApart(rows, V, docs)
<1>. DEFINE T == Documents \union {Null}
            P == {i \in DOMAIN rows : rows[i] \in V /\ \A j \in 1 .. i - 1 : rows[j] # rows[i]}
            key(d) == KeyAmong(docs, d)
            indexed == {i \in DOMAIN rows : rows[i] \in V}
            kept == {i \in indexed : key(rows[i]) = rows[i]}
            R == Representatives(docs)
            Of(n) == Representative(docs, n)
<1>1. docs = At(rows, P)
  BY OnlyFirsts
<1>2. P \in SUBSET DOMAIN rows /\ rows \in Seq(T) /\ DOMAIN rows = 1 .. Len(rows) /\ Len(rows) \in Nat
  OBVIOUS
<1>3. \A i \in P : rows[i] \in V /\ \A j \in 1 .. i - 1 : rows[j] # rows[i]
  OBVIOUS
<1>4. \A i \in DOMAIN rows : rows[i] \in V => \E e \in P : e <= i /\ rows[e] = rows[i]
  <2>1. ASSUME NEW i \in DOMAIN rows, rows[i] \in V
        PROVE  \E e \in P : e <= i /\ rows[e] = rows[i]
    <3>1. PICK e \in DOMAIN rows : e <= i /\ rows[e] = rows[i] /\ \A j \in 1 .. e - 1 : rows[j] # rows[e]
      BY <1>2, FirstPlace
    <3>. QED BY <2>1, <3>1
  <2>. QED BY <2>1
<1>. HIDE DEF P
<1>5. /\ IsFiniteSet(P) /\ P \in SUBSET Int /\ Cardinality(P) \in Nat
      /\ docs \in Seq(T)
      /\ DOMAIN docs = 1 .. Cardinality(P)
      /\ Len(docs) = Cardinality(P)
      /\ \A n \in DOMAIN docs : Nth(P, n) \in P /\ docs[n] = rows[Nth(P, n)]
      /\ \A i \in P : \E n \in DOMAIN docs : Nth(P, n) = i
  <2>. HIDE DEF T
  <2>. QED BY <1>1, <1>2, AtOf
<1>6. \A m, n \in 1 .. Cardinality(P) : m < n <=> Nth(P, m) < Nth(P, n)
  BY <1>5, NthOrder
<1>7. /\ docs \in Seq(Documents)
      /\ \A n \in DOMAIN docs : docs[n] \in V /\ docs[n] \in Documents
  <2>1. \A n \in DOMAIN docs : docs[n] \in V
    BY <1>3, <1>5
  <2>. QED BY <2>1, <1>5
<1>8. \A m, n \in DOMAIN docs : docs[m] = docs[n] => m = n
  <2>1. ASSUME NEW m \in DOMAIN docs, NEW n \in DOMAIN docs, m < n PROVE docs[m] # docs[n]
    <3>1. Nth(P, m) < Nth(P, n) /\ Nth(P, m) \in P /\ Nth(P, n) \in P
      BY <2>1, <1>5, <1>6
    <3>2. Nth(P, m) \in 1 .. Nth(P, n) - 1
      BY <3>1, <1>2
    <3>3. rows[Nth(P, m)] # rows[Nth(P, n)]
      BY <3>1, <3>2, <1>3
    <3>. QED BY <3>3, <1>5
  <2>2. ASSUME NEW m \in DOMAIN docs, NEW n \in DOMAIN docs, docs[m] = docs[n] PROVE m = n
    <3>1. ~ (m < n) /\ ~ (n < m)
      BY <2>1, <2>2
    <3>. QED BY <3>1, <1>5
  <2>. QED BY <2>2
<1>9. \A n \in DOMAIN docs : /\ Of(n) \in R /\ Of(n) <= n
                             /\ Of(n) \in DOMAIN docs
                             /\ Apart(docs[n], docs[Of(n)]) <= Near
                             /\ n \in R <=> Of(n) = n
  BY <1>7, RepresentativeOf
<1>10. /\ R \in SUBSET (1 .. Len(docs))
       /\ \A i \in 1 .. Len(docs) : i \in R <=> \A r \in R : r < i => ~ (Apart(docs[i], docs[r]) <= Near)
  BY <1>5, RepsOf
<1>. HIDE DEF R, Of
<1>11. \A n \in DOMAIN docs : key(docs[n]) = docs[Of(n)]
  <2>1. ASSUME NEW n \in DOMAIN docs PROVE (CHOOSE i \in DOMAIN docs : docs[i] = docs[n]) = n
    BY <1>8
  <2>2. ASSUME NEW n \in DOMAIN docs PROVE key(docs[n]) = docs[Of(n)]
    <3>. DEFINE c == CHOOSE i \in DOMAIN docs : docs[i] = docs[n]
    <3>1. c = n
      BY <2>1
    <3>2. key(docs[n]) = docs[Representative(docs, c)]
      BY DEF KeyAmong
    <3>. HIDE DEF c
    <3>. QED BY <3>1, <3>2 DEF Of
  <2>. QED BY <2>2
<1>. HIDE DEF key
<1>12. ASSUME NEW i \in indexed
       PROVE  \E n \in DOMAIN docs : Nth(P, n) <= i /\ docs[n] = rows[i]
  <2>1. PICK e \in P : e <= i /\ rows[e] = rows[i]
    BY <1>4
  <2>2. PICK n \in DOMAIN docs : Nth(P, n) = e
    BY <1>5
  <2>. QED BY <2>1, <2>2, <1>5
<1>13. ASSUME NEW i \in indexed
       PROVE  \E j \in kept : j <= i /\ key(rows[i]) = rows[j] /\ Apart(rows[i], rows[j]) <= Near
  <2>1. PICK n \in DOMAIN docs : Nth(P, n) <= i /\ docs[n] = rows[i]
    BY <1>12
  <2>. DEFINE m == Of(n)
              j == Nth(P, m)
  <2>2. m \in R /\ m <= n /\ m \in DOMAIN docs /\ Apart(docs[n], docs[m]) <= Near
    BY <1>9
  <2>3. Of(m) = m
    BY <2>2, <1>9
  <2>. HIDE DEF m
  <2>4. key(rows[i]) = docs[m]
    BY <2>1, <1>11 DEF m
  <2>5. j \in P /\ docs[m] = rows[j] /\ j \in DOMAIN rows
    BY <2>2, <1>5, <1>2
  <2>6. key(rows[j]) = rows[j]
    BY <2>5, <2>2, <2>3, <1>11
  <2>7. j \in kept
    BY <2>5, <2>6, <1>3
  <2>8. j <= i
    <3>1. m \in Int /\ n \in Int /\ Nth(P, n) \in Int /\ j \in Int /\ i \in Int
      <4>1. m \in Int /\ n \in Int
        BY <2>2, <1>5
      <4>2. Nth(P, n) \in P
        BY <1>5
      <4>3. Nth(P, n) \in Int /\ j \in Int
        BY <4>2, <2>5, <1>5
      <4>4. i \in DOMAIN rows
        OBVIOUS
      <4>5. i \in Int
        BY <4>4, <1>2
      <4>. QED BY <4>1, <4>3, <4>5
    <3>2. m = n \/ m < n
      BY <2>2, <3>1
    <3>3. m \in 1 .. Cardinality(P) /\ n \in 1 .. Cardinality(P)
      BY <2>2, <1>5
    <3>4. m < n => j < Nth(P, n)
      BY <3>3, <1>6
    <3>. QED BY <3>1, <3>2, <3>4, <2>1
  <2>. QED BY <2>1, <2>2, <2>4, <2>5, <2>7, <2>8
<1>14. ASSUME NEW i \in kept
       PROVE  \E n \in R : docs[n] = rows[i] /\ n \in DOMAIN docs
  <2>1. PICK n \in DOMAIN docs : docs[n] = rows[i]
    BY <1>12
  <2>2. docs[Of(n)] = docs[n]
    BY <2>1, <1>11
  <2>3. Of(n) = n
    BY <2>2, <1>8, <1>9
  <2>. QED BY <2>1, <2>3, <1>9
<1>15. ASSUME NEW i \in kept, NEW j \in kept, rows[i] # rows[j]
       PROVE  Apart(rows[i], rows[j]) > Near
  <2>1. PICK m \in R : docs[m] = rows[i] /\ m \in DOMAIN docs
    BY <1>14
  <2>2. PICK n \in R : docs[n] = rows[j] /\ n \in DOMAIN docs
    BY <1>14
  <2>3. m \in Int /\ n \in Int
    BY <2>1, <2>2, <1>5
  <2>4. m < n \/ n < m
    BY <2>1, <2>2, <2>3, <1>15
  <2>5. /\ Apart(docs[m], docs[n]) \in Nat
        /\ Apart(docs[m], docs[n]) = Apart(docs[n], docs[m])
    BY <2>1, <2>2, <1>7, ApartOf
  <2>6. ~ (Apart(docs[m], docs[n]) <= Near)
    BY <2>1, <2>2, <2>4, <2>5, <1>10
  <2>. QED BY <2>1, <2>2, <2>5, <2>6, PlaceAssumption
<1>. QED
  <2>1. /\ \A i \in indexed : \E j \in kept :
                  /\ j <= i
                  /\ key(rows[i]) = rows[j]
                  /\ Apart(rows[i], rows[j]) <= Near
        /\ \A i, j \in kept : rows[i] # rows[j] => Apart(rows[i], rows[j]) > Near
    BY <1>13, <1>15
  <2>. QED BY <2>1 DEF key, ToldApart

LEMMA KeyInitInv == GroupingInit => GroupingKeyInv
  BY DEF GroupingInit, GroupingKeyInv, GroupingShape, KeptRowsDiffer, Idle

LEMMA KeyNextInv == GroupingKeyInv /\ [GroupingNext]_groupingVars => GroupingKeyInv'
<1> SUFFICES ASSUME GroupingKeyInv, [GroupingNext]_groupingVars PROVE GroupingKeyInv'
  OBVIOUS
<1>. USE DEF GroupingKeyInv, GroupingShape
<1>1. CASE ReadVectors
  BY <1>1 DEF ReadVectors, KeptRowsDiffer, Idle
<1>2. CASE GroupingFails
  BY <1>2 DEF GroupingFails, KeptRowsDiffer
<1>3. CASE KeyRows
  <2>1. PICK rows \in Relations :
          grouping' = [grouping EXCEPT !.pc = "keyed", !.rows = rows, !.docs = FirstSeen(rows),
                         !.keys = [i \in DOMAIN rows |-> KeyAmong(FirstSeen(rows), rows[i])]]
    BY <1>3 DEF KeyRows, KeyAmong
  <2>. DEFINE docs == FirstSeen(rows)
              V == grouping.vectors
  <2>2. rows \in Seq(Documents \union {Null}) /\ V \in SUBSET Documents
    BY GroupingAssumption
  <2>3. docs = Only(Firsts(rows), V)
    BY DEF FirstSeen
  <2>. HIDE DEF docs, V
  <2>4. ToldApart(rows, V, docs)
    BY <2>2, <2>3, KeysTellApart
  <2>5. /\ grouping'.rows = rows /\ grouping'.vectors = V /\ grouping'.pc = "keyed"
        /\ grouping'.keys = [i \in DOMAIN rows |-> KeyAmong(docs, rows[i])]
    BY <2>1 DEF docs, V
  <2>6. GroupingShape'
    BY <2>1
  <2>7. KeptRowsDiffer'
    BY <2>4, <2>5 DEF KeptRowsDiffer, ToldApart
  <2>. QED BY <2>6, <2>7
<1>4. CASE CollectDocuments
  <2>1. PICK rows, docs, k : grouping' = [grouping EXCEPT
                              !.pc = IF docs = <<>> THEN "labelled" ELSE "seed",
                              !.rows = rows, !.docs = docs, !.k = k,
                              !.assignments = [i \in DOMAIN docs |-> 1],
                              !.keys = [i \in DOMAIN rows |-> Null]]
    BY <1>4 DEF CollectDocuments
  <2>. QED BY <2>1 DEF KeptRowsDiffer
<1>5. CASE Seed
  <2>1. PICK centroids : grouping' = [grouping EXCEPT !.pc = "assign", !.centroids = centroids]
    BY <1>5 DEF Seed
  <2>. QED BY <2>1 DEF KeptRowsDiffer
<1>6. CASE Assign
  <2>. DEFINE nearest == [i \in DOMAIN grouping.docs |-> NearestCentroid(Point(i), grouping.centroids)]
              place == IF nearest # grouping.assignments THEN "recentre" ELSE "name"
  <2>1. grouping' = [grouping EXCEPT !.assignments = nearest, !.iterations = @ + 1, !.pc = place]
    BY <1>6 DEF Assign
  <2>2. place # "keyed"
    OBVIOUS
  <2>. HIDE DEF nearest, place
  <2>. QED BY <2>1, <2>2 DEF KeptRowsDiffer
<1>7. CASE Recentre
  <2>. DEFINE centroids == [c \in DOMAIN grouping.centroids |->
                             Mean(grouping.docs, Members(c), grouping.centroids[c])]
              place == IF grouping.iterations = MaxIterations THEN "name" ELSE "assign"
  <2>1. grouping' = [grouping EXCEPT !.pc = place, !.centroids = centroids]
    BY <1>7 DEF Recentre
  <2>2. place # "keyed"
    OBVIOUS
  <2>. HIDE DEF centroids, place
  <2>. QED BY <2>1, <2>2 DEF KeptRowsDiffer
<1>8. CASE NameClusters
  <2>1. PICK names, keys :
          grouping' = [grouping EXCEPT !.pc = "labelled", !.names = names, !.keys = keys]
    BY <1>8 DEF NameClusters
  <2>. QED BY <2>1 DEF KeptRowsDiffer
<1>9. CASE UNCHANGED groupingVars
  BY <1>9 DEF groupingVars, KeptRowsDiffer, FirstSeen
<1>. QED BY <1>1, <1>2, <1>3, <1>4, <1>5, <1>6, <1>7, <1>8, <1>9 DEF GroupingNext

(***************************************************************************)
(* CLUSTER BY.  A total of places is an integer: the sum is built place by *)
(* place, as the representatives are.                                      *)
(***************************************************************************)
TotalUpTo(docs, members, n, f) ==
  f = [m \in 0 .. n |->
         IF m = 0 THEN 0 ELSE f[m - 1] + (IF m \in members THEN Place[docs[m]] ELSE 0)]

LEMMA TotalUpToExist ==
  ASSUME NEW docs, NEW members, NEW n \in Nat
  PROVE  \E f : TotalUpTo(docs, members, n, f)
<1>. DEFINE N == {k \in Nat : \E f : TotalUpTo(docs, members, k, f)}
            Body(m, before) == before + (IF m \in members THEN Place[docs[m]] ELSE 0)
<1>1. 0 \in N
  <2>. DEFINE f == [m \in 0 .. 0 |-> 0]
  <2>1. \A m \in 0 .. 0 : m = 0
    OBVIOUS
  <2>2. f = [m \in 0 .. 0 |-> IF m = 0 THEN 0 ELSE Body(m, f[m - 1])]
    <3>. HIDE DEF Body
    <3>. QED BY <2>1
  <2>. HIDE DEF f
  <2>3. TotalUpTo(docs, members, 0, f)
    BY <2>2 DEF TotalUpTo
  <2>. QED BY <2>3
<1>2. ASSUME NEW k \in N PROVE k + 1 \in N
  <2>1. PICK f : TotalUpTo(docs, members, k, f)
    OBVIOUS
  <2>2. \A m \in 0 .. k : f[m] = IF m = 0 THEN 0 ELSE Body(m, f[m - 1])
    BY <2>1, Zenon DEF TotalUpTo
  <2>. DEFINE g == [m \in 0 .. k + 1 |-> IF m = k + 1 THEN Body(m, f[k]) ELSE f[m]]
  <2>3. \A m \in 0 .. k + 1 : g[m] = IF m = 0 THEN 0 ELSE Body(m, g[m - 1])
    <3>. HIDE DEF Body
    <3>1. ASSUME NEW m \in 0 .. k + 1 PROVE g[m] = IF m = 0 THEN 0 ELSE Body(m, g[m - 1])
      <4>1. CASE m = k + 1
        <5>1. g[m - 1] = f[k] /\ m # 0
          BY <4>1
        <5>. QED BY <4>1, <5>1
      <4>2. CASE m # k + 1
        <5>1. m \in 0 .. k /\ g[m] = f[m] /\ (m # 0 => g[m - 1] = f[m - 1])
          BY <4>2
        <5>. QED BY <5>1, <2>2
      <4>. QED BY <4>1, <4>2
    <3>. QED BY <3>1
  <2>4. g = [m \in 0 .. k + 1 |-> g[m]]
    OBVIOUS
  <2>. HIDE DEF g
  <2>5. g = [m \in 0 .. k + 1 |-> IF m = 0 THEN 0 ELSE Body(m, g[m - 1])]
    <3>. HIDE DEF Body
    <3>. QED BY <2>3, <2>4
  <2>6. TotalUpTo(docs, members, k + 1, g)
    BY <2>5, Zenon DEF TotalUpTo
  <2>. QED BY <2>6
<1>3. N = Nat
  <2>. HIDE DEF N
  <2>1. N \in SUBSET Nat
    BY DEF N
  <2>. QED BY <1>1, <1>2, <2>1, AllNat
<1>4. n \in N
  <2>. HIDE DEF N
  <2>. QED BY <1>3
<1>. QED BY <1>4

LEMMA TotalOf ==
  ASSUME NEW docs \in Seq(Documents), NEW members
  PROVE  Total(docs, members) \in Int
<1>. DEFINE F == CHOOSE f : f = [m \in 0 .. Len(docs) |->
                   IF m = 0 THEN 0
                   ELSE f[m - 1] + (IF m \in members THEN Place[docs[m]] ELSE 0)]
            T == {n \in Nat : n <= Len(docs) => F[n] \in Int}
<1>0. Len(docs) \in Nat
  OBVIOUS
<1>1. Total(docs, members) = F[Len(docs)]
  BY Zenon DEF Total
<1>2. \E f : TotalUpTo(docs, members, Len(docs), f)
  BY <1>0, TotalUpToExist
<1>3. TotalUpTo(docs, members, Len(docs), F)
  BY <1>2, Zenon DEF TotalUpTo
<1>. HIDE DEF F
<1>4. \A m \in 0 .. Len(docs) :
        F[m] = IF m = 0 THEN 0 ELSE F[m - 1] + (IF m \in members THEN Place[docs[m]] ELSE 0)
  BY <1>3, Zenon DEF TotalUpTo
<1>5. 0 \in T
  <2>1. 0 \in 0 .. Len(docs)
    BY <1>0
  <2>2. F[0] = 0
    BY <2>1, <1>4, Zenon
  <2>. QED BY <2>2
<1>6. ASSUME NEW n \in T, n < Len(docs) PROVE n + 1 \in T
  <2>1. F[n] \in Int /\ n + 1 \in 0 .. Len(docs) /\ n + 1 # 0 /\ (n + 1) - 1 = n
    BY <1>6, <1>0
  <2>2. F[n + 1] = F[n] + (IF n + 1 \in members THEN Place[docs[n + 1]] ELSE 0)
    BY <2>1, <1>4
  <2>3. docs[n + 1] \in Documents
    BY <1>6
  <2>4. Place[docs[n + 1]] \in Int
    BY <2>3, PlaceAssumption
  <2>5. F[n + 1] \in Int
    BY <2>1, <2>2, <2>4
  <2>. QED BY <2>5
<1>7. Len(docs) \in T
  <2>. HIDE DEF T
  <2>1. T \in SUBSET Nat
    BY DEF T
  <2>2. 0 .. Len(docs) \subseteq T
    BY <1>0, <1>5, <1>6, <2>1, UpTo
  <2>. QED BY <2>2, <1>0
<1>. QED BY <1>0, <1>1, <1>7

(***************************************************************************)
(* Nearer, by cross-multiplication, is transitive, so among finitely many  *)
(* centroids one is nearest.                                               *)
(***************************************************************************)
Centroids == [sum : Int, count : Nat \ {0}]

LEMMA SquareNat == ASSUME NEW a \in Int PROVE a * a \in Nat
  OBVIOUS

LEMMA SquarePos == ASSUME NEW a \in Nat \ {0} PROVE a * a \in Nat \ {0}
  OBVIOUS

LEMMA ProductNat == ASSUME NEW a \in Nat, NEW b \in Nat PROVE a * b \in Nat
  OBVIOUS

LEMMA LessTimes ==
  ASSUME NEW a \in Nat, NEW b \in Nat, NEW c \in Nat \ {0}
  PROVE  a < b <=> a * c < b * c
<1>. DEFINE d == b - a
<1>1. b * c = a * c + d * c /\ d \in Int /\ a * c \in Nat /\ b * c \in Nat /\ d * c \in Int
  OBVIOUS
<1>2. d > 0 => d * c > 0
  OBVIOUS
<1>3. d <= 0 => d * c <= 0
  OBVIOUS
<1>4. a < b <=> d > 0
  OBVIOUS
<1>. HIDE DEF d
<1>. QED BY <1>1, <1>2, <1>3, <1>4

LEMMA RatioLess ==
  ASSUME NEW a \in Nat, NEW b \in Nat, NEW c \in Nat,
         NEW u \in Nat \ {0}, NEW v \in Nat \ {0}, NEW w \in Nat \ {0},
         a * v < b * u, b * w < c * v
  PROVE  a * w < c * u
<1>1. (a * v) * w < (b * u) * w
  <2>1. a * v \in Nat /\ b * u \in Nat
    BY ProductNat
  <2>. QED BY <2>1, LessTimes
<1>2. (b * w) * u < (c * v) * u
  <2>1. b * w \in Nat /\ c * v \in Nat
    BY ProductNat
  <2>. QED BY <2>1, LessTimes
<1>3. /\ (a * v) * w = (a * w) * v /\ (b * u) * w = (b * w) * u /\ (c * v) * u = (c * u) * v
  OBVIOUS
<1>4. a * w \in Nat /\ c * u \in Nat
  BY ProductNat
<1>5. (a * w) * v < (c * u) * v
  <2>1. /\ (a * w) * v \in Nat /\ (c * u) * v \in Nat /\ (b * w) * u \in Nat
    BY <1>4, ProductNat
  <2>. QED BY <2>1, <1>1, <1>2, <1>3
<1>. QED BY <1>4, <1>5, LessTimes

LEMMA CloserOf ==
  ASSUME NEW p \in Int, NEW c \in Centroids, NEW d \in Centroids
  PROVE  LET off(x) == (p * x.count - x.sum) * (p * x.count - x.sum)
         IN  /\ Closer(p, c, d) <=> off(c) * (d.count * d.count) < off(d) * (c.count * c.count)
             /\ off(c) \in Nat /\ c.count * c.count \in Nat \ {0}
<1>. DEFINE u == p * c.count - c.sum
            v == p * d.count - d.sum
<1>1. /\ u \in Int /\ v \in Int
      /\ c.count \in Nat \ {0} /\ d.count \in Nat \ {0}
  BY DEF Centroids
<1>2. Closer(p, c, d) <=> u * u * d.count * d.count < v * v * c.count * c.count
  BY DEF Closer
<1>3. u * u \in Nat /\ v * v \in Nat /\ c.count * c.count \in Nat \ {0}
  BY <1>1, SquareNat, SquarePos
<1>. HIDE DEF u, v
<1>4. /\ u * u * d.count * d.count = (u * u) * (d.count * d.count)
      /\ v * v * c.count * c.count = (v * v) * (c.count * c.count)
  BY <1>1
<1>. QED BY <1>2, <1>3, <1>4 DEF u, v

LEMMA CloserOrder ==
  ASSUME NEW p \in Int, NEW a \in Centroids, NEW b \in Centroids, NEW c \in Centroids
  PROVE  /\ ~ Closer(p, a, a)
         /\ Closer(p, a, b) /\ Closer(p, b, c) => Closer(p, a, c)
<1>. DEFINE off(x) == (p * x.count - x.sum) * (p * x.count - x.sum)
            weight(x) == x.count * x.count
<1>1. \A x, y \in Centroids : /\ Closer(p, x, y) <=> off(x) * weight(y) < off(y) * weight(x)
                              /\ off(x) \in Nat /\ weight(x) \in Nat \ {0}
  BY CloserOf
<1>. HIDE DEF off, weight
<1>2. ~ Closer(p, a, a)
  BY <1>1
<1>3. ASSUME Closer(p, a, b), Closer(p, b, c) PROVE Closer(p, a, c)
  <2>1. off(a) * weight(b) < off(b) * weight(a) /\ off(b) * weight(c) < off(c) * weight(b)
    BY <1>1, <1>3
  <2>2. off(a) * weight(c) < off(c) * weight(a)
    BY <2>1, <1>1, RatioLess
  <2>. QED BY <2>2, <1>1
<1>. QED BY <1>2, <1>3

LEMMA NearestOf ==
  ASSUME NEW p \in Int, NEW k \in Nat \ {0}, NEW centroids \in [1 .. k -> Centroids]
  PROVE  /\ NearestCentroid(p, centroids) \in 1 .. k
         /\ \A d \in 1 .. k :
              ~ Closer(p, centroids[d], centroids[NearestCentroid(p, centroids)])
<1>. DEFINE Best(n, c) == c \in 1 .. n /\ \A d \in 1 .. n : ~ Closer(p, centroids[d], centroids[c])
            T == {n \in Nat : n + 1 <= k => \E c \in 1 .. k : Best(n + 1, c)}
<1>1. \A c \in 1 .. k : centroids[c] \in Centroids
  OBVIOUS
<1>2. /\ \A a, b, c \in 1 .. k :
          Closer(p, centroids[a], centroids[b]) /\ Closer(p, centroids[b], centroids[c])
            => Closer(p, centroids[a], centroids[c])
      /\ \A a \in 1 .. k : ~ Closer(p, centroids[a], centroids[a])
  BY <1>1, CloserOrder
<1>3. 0 \in T
  <2>1. \A d \in 1 .. 0 + 1 : d = 1
    OBVIOUS
  <2>2. 1 \in 1 .. k /\ 1 \in 1 .. 0 + 1
    OBVIOUS
  <2>3. Best(0 + 1, 1)
    BY <2>1, <2>2, <1>2
  <2>. HIDE DEF Best
  <2>. QED BY <2>2, <2>3
<1>4. ASSUME NEW n \in T, n < k - 1 PROVE n + 1 \in T
  <2>1. n \in Nat /\ n + 1 <= k /\ n + 2 \in 1 .. k /\ (n + 1) + 1 = n + 2
    BY <1>4
  <2>2. PICK c \in 1 .. k : Best(n + 1, c)
    BY <2>1
  <2>3. \A d : d \in 1 .. n + 2 <=> d \in 1 .. n + 1 \/ d = n + 2
    BY <2>1
  <2>4. \A d \in 1 .. n + 1 : d \in 1 .. k
    BY <2>1
  <2>5. CASE ~ Closer(p, centroids[n + 2], centroids[c])
    <3>1. Best(n + 2, c)
      BY <2>2, <2>3, <2>5
    <3>. HIDE DEF Best
    <3>. QED BY <3>1, <2>1
  <2>6. CASE Closer(p, centroids[n + 2], centroids[c])
    <3>1. \A d \in 1 .. n + 1 : ~ Closer(p, centroids[d], centroids[n + 2])
      BY <2>1, <2>2, <2>4, <2>6, <1>2
    <3>2. Best(n + 2, n + 2)
      BY <3>1, <2>1, <2>3, <1>2
    <3>. HIDE DEF Best
    <3>. QED BY <3>2, <2>1
  <2>. QED BY <2>5, <2>6
<1>5. k - 1 \in T
  <2>. HIDE DEF T
  <2>1. T \in SUBSET Nat /\ k - 1 \in Nat
    BY DEF T
  <2>2. 0 .. (k - 1) \subseteq T
    BY <1>3, <1>4, <2>1, UpTo
  <2>. QED BY <2>1, <2>2
<1>6. \E c \in 1 .. k : Best(k, c)
  <2>. HIDE DEF Best
  <2>1. (k - 1) + 1 = k
    OBVIOUS
  <2>. QED BY <2>1, <1>5
<1>. DEFINE S == {c \in DOMAIN centroids :
                   \A d \in DOMAIN centroids : ~ Closer(p, centroids[d], centroids[c])}
<1>7. S \in SUBSET (1 .. k) /\ S # {}
  BY <1>6
<1>8. NearestCentroid(p, centroids) = Min(S)
  BY DEF NearestCentroid
<1>9. Min(S) \in S
  <2>. HIDE DEF S
  <2>1. S \in SUBSET Nat
    BY <1>7
  <2>. QED BY <1>7, <2>1, MinOf
<1>. QED BY <1>8, <1>9

(***************************************************************************)
(* k-means.  Between the means and the next look at the points every       *)
(* centroid with points is their mean; before the first means all points   *)
(* are in the first cluster. Points that then do not move are each with    *)
(* the nearest of these means.                                             *)
(***************************************************************************)
Clustered ==
  /\ grouping.docs \in Seq(Documents)
  /\ grouping.k \in Nat \ {0}
  /\ grouping.assignments \in [DOMAIN grouping.docs -> 1 .. grouping.k]

Centred ==
  \/ \A i \in DOMAIN grouping.docs : grouping.assignments[i] = 1
  \/ \A c \in 1 .. grouping.k : Members(c) # {} =>
       grouping.centroids[c] = Mean(grouping.docs, Members(c), grouping.centroids[c])

GroupingClusterInv ==
  /\ GroupingShape
  /\ grouping.pc \in {"seed", "assign", "recentre", "name"} => Clustered
  /\ grouping.pc \in {"assign", "recentre", "name"} =>
       grouping.centroids \in [1 .. grouping.k -> Centroids]
  /\ grouping.pc = "seed" => \A i \in DOMAIN grouping.docs : grouping.assignments[i] = 1
  /\ grouping.pc = "assign" => Centred
  /\ ClustersSettle

LEMMA MeanOf ==
  ASSUME NEW docs \in Seq(Documents), NEW members \in SUBSET DOMAIN docs, NEW previous \in Centroids
  PROVE  /\ Mean(docs, members, previous) \in Centroids
         /\ members # {} => Mean(docs, members, previous)
                              = [sum |-> Total(docs, members), count |-> Cardinality(members)]
<1>1. CASE members = {}
  BY <1>1 DEF Mean
<1>2. CASE members # {}
  <2>1. DOMAIN docs = 1 .. Len(docs) /\ Len(docs) \in Nat
    OBVIOUS
  <2>2. IsFiniteSet(1 .. Len(docs))
    BY <2>1, FS_Interval
  <2>3. IsFiniteSet(members)
    BY <2>1, <2>2, FS_Subset
  <2>4. Cardinality(members) \in Nat \ {0}
    BY <2>3, <1>2, FS_CardinalityType, FS_EmptySet
  <2>5. Total(docs, members) \in Int
    BY TotalOf
  <2>. QED BY <1>2, <2>4, <2>5 DEF Mean, Centroids
<1>. QED BY <1>1, <1>2

LEMMA CountsOf ==
  ASSUME NEW n \in Nat \ {0}
  PROVE  CountsFor(n) \in SUBSET (Nat \ {0})
<1>. DEFINE tried == {k \in AutoKs : k < n}
<1>1. tried \in SUBSET (Nat \ {0})
  BY GroupingAssumption
<1>2. ASSUME NEW k \in Ks PROVE Min({k, n}) \in Nat \ {0}
  <2>1. k \in Nat \ {0}
    BY GroupingAssumption
  <2>2. Min({k, n}) \in {k, n}
    <3>1. {k, n} \in SUBSET Nat /\ {k, n} # {}
      BY <2>1
    <3>. QED BY <3>1, MinOf
  <2>. QED BY <2>1, <2>2
<1>. QED BY <1>1, <1>2 DEF CountsFor

LEMMA PresentOf ==
  ASSUME NEW rows \in Relations, grouping.vectors \in SUBSET Documents
  PROVE  InOrder(Present(rows)) \in Seq(Documents)
<1>1. rows \in Seq(Documents \union {Null}) /\ DOMAIN rows = 1 .. Len(rows) /\ Len(rows) \in Nat
  BY GroupingAssumption
<1>. DEFINE all == {rows[i] : i \in DOMAIN rows}
<1>2. IsFiniteSet(all)
  <2>1. IsFiniteSet(1 .. Len(rows))
    BY <1>1, FS_Interval
  <2>2. rows \in Surjection(1 .. Len(rows), all)
    BY <1>1 DEF Surjection
  <2>. HIDE DEF all
  <2>. QED BY <2>1, <2>2, FS_Surjection
<1>3. Present(rows) \in SUBSET all /\ Present(rows) \in SUBSET Documents
  BY DEF Present
<1>. HIDE DEF all
<1>4. IsFiniteSet(Present(rows)) /\ Present(rows) \in SUBSET Int
  <2>1. IsFiniteSet(Present(rows))
    BY <1>2, <1>3, FS_Subset
  <2>2. ASSUME NEW d \in Present(rows) PROVE d \in Int
    <3>1. d \in Documents
      BY <1>3
    <3>. QED BY <3>1, TextsAssumption
  <2>. QED BY <2>1, <2>2
<1>. QED BY <1>3, <1>4, InOrderOf

LEMMA ClusterInitInv == GroupingInit => GroupingClusterInv
  BY DEF GroupingInit, GroupingClusterInv, GroupingShape, ClustersSettle, Idle

LEMMA ClusterNextInv == GroupingClusterInv /\ [GroupingNext]_groupingVars => GroupingClusterInv'
<1> SUFFICES ASSUME GroupingClusterInv, [GroupingNext]_groupingVars PROVE GroupingClusterInv'
  OBVIOUS
<1>0. /\ GroupingShape
      /\ grouping.pc \in {"seed", "assign", "recentre", "name"} => Clustered
      /\ grouping.pc \in {"assign", "recentre", "name"} =>
           grouping.centroids \in [1 .. grouping.k -> Centroids]
      /\ grouping.pc = "seed" => \A i \in DOMAIN grouping.docs : grouping.assignments[i] = 1
      /\ grouping.pc = "assign" => Centred
      /\ ClustersSettle
  BY DEF GroupingClusterInv
<1>1. CASE ReadVectors
  BY <1>0, <1>1 DEF ReadVectors, GroupingClusterInv, GroupingShape, ClustersSettle, Idle
<1>2. CASE GroupingFails
  BY <1>0, <1>2 DEF GroupingFails, GroupingClusterInv, GroupingShape, ClustersSettle
<1>3. CASE KeyRows
  <2>1. PICK rows, docs, keys : grouping' = [grouping EXCEPT !.pc = "keyed", !.rows = rows,
                                               !.docs = docs, !.keys = keys]
    BY <1>3 DEF KeyRows
  <2>. QED BY <1>0, <2>1 DEF GroupingClusterInv, GroupingShape, ClustersSettle
<1>4. CASE CollectDocuments
  <2>1. PICK rows \in Relations : \E k \in CountsFor(Len(InOrder(Present(rows)))) :
          grouping' = [grouping EXCEPT
                         !.pc = IF InOrder(Present(rows)) = <<>> THEN "labelled" ELSE "seed",
                         !.rows = rows, !.docs = InOrder(Present(rows)), !.k = k,
                         !.assignments = [i \in DOMAIN InOrder(Present(rows)) |-> 1],
                         !.keys = [i \in DOMAIN rows |-> Null]]
    BY <1>4 DEF CollectDocuments
  <2>0. PICK k \in CountsFor(Len(InOrder(Present(rows)))) :
          grouping' = [grouping EXCEPT
                         !.pc = IF InOrder(Present(rows)) = <<>> THEN "labelled" ELSE "seed",
                         !.rows = rows, !.docs = InOrder(Present(rows)), !.k = k,
                         !.assignments = [i \in DOMAIN InOrder(Present(rows)) |-> 1],
                         !.keys = [i \in DOMAIN rows |-> Null]]
    BY <2>1
  <2>. DEFINE docs == InOrder(Present(rows))
  <2>2. docs \in Seq(Documents)
    BY <1>0, PresentOf DEF GroupingShape
  <2>3. docs # <<>> => k \in Nat \ {0}
    <3>. HIDE DEF docs
    <3>1. docs # <<>> => Len(docs) \in Nat \ {0}
      BY <2>2
    <3>. QED BY <3>1, <2>1, CountsOf DEF docs
  <2>4. /\ grouping'.pc = IF docs = <<>> THEN "labelled" ELSE "seed"
        /\ grouping'.docs = docs /\ grouping'.k = k
        /\ grouping'.assignments = [i \in DOMAIN docs |-> 1]
        /\ grouping'.vectors = grouping.vectors
        /\ GroupingShape'
    BY <1>0, <2>0 DEF GroupingShape
  <2>. HIDE DEF docs
  <2>5. docs # <<>> => Clustered' /\ \A i \in DOMAIN docs : grouping'.assignments[i] = 1
    BY <2>2, <2>3, <2>4 DEF Clustered
  <2>. QED BY <2>4, <2>5 DEF GroupingClusterInv, ClustersSettle
<1>5. CASE Seed
  <2>1. PICK chosen \in [1 .. grouping.k -> DOMAIN grouping.docs] :
          grouping' = [grouping EXCEPT !.pc = "assign",
                         !.centroids = [c \in 1 .. grouping.k |->
                                          [sum |-> Point(chosen[c]), count |-> 1]]]
    BY <1>5 DEF Seed
  <2>2. grouping.pc = "seed" /\ Clustered
    BY <1>0, <1>5 DEF Seed
  <2>. DEFINE seeds == [c \in 1 .. grouping.k |-> [sum |-> Point(chosen[c]), count |-> 1]]
  <2>3. seeds \in [1 .. grouping.k -> Centroids]
    <3>1. ASSUME NEW c \in 1 .. grouping.k PROVE Point(chosen[c]) \in Int
      <4>1. grouping.docs[chosen[c]] \in Documents
        <5>1. chosen[c] \in DOMAIN grouping.docs
          OBVIOUS
        <5>2. grouping.docs \in Seq(Documents)
          BY <2>2 DEF Clustered
        <5>3. \A d \in DOMAIN grouping.docs : grouping.docs[d] \in Documents
          BY <5>2
        <5>. QED BY <5>1, <5>3
      <4>. QED BY <4>1, PlaceAssumption DEF Point
    <3>. QED BY <3>1 DEF Centroids
  <2>. HIDE DEF seeds
  <2>4. grouping' = [grouping EXCEPT !.pc = "assign", !.centroids = seeds]
    BY <2>1 DEF seeds
  <2>5. Clustered'
    BY <1>0, <2>2, <2>4 DEF Clustered, GroupingShape
  <2>6. Centred'
    BY <1>0, <2>2, <2>4 DEF Centred, GroupingShape
  <2>7. /\ GroupingShape' /\ grouping'.pc = "assign"
        /\ grouping'.centroids = seeds /\ grouping'.k = grouping.k
    BY <1>0, <2>4 DEF GroupingShape
  <2>. QED BY <2>3, <2>5, <2>6, <2>7 DEF GroupingClusterInv, ClustersSettle
<1>6. CASE Assign
  <2>. DEFINE nearest == [i \in DOMAIN grouping.docs |-> NearestCentroid(Point(i), grouping.centroids)]
              place == IF nearest # grouping.assignments THEN "recentre" ELSE "name"
              docs == grouping.docs
              k == grouping.k
              centroids == grouping.centroids
  <2>1. /\ grouping.pc = "assign"
        /\ grouping' = [grouping EXCEPT !.assignments = nearest, !.iterations = @ + 1, !.pc = place]
    BY <1>6 DEF Assign
  <2>2. /\ docs \in Seq(Documents) /\ k \in Nat \ {0}
        /\ grouping.assignments \in [DOMAIN docs -> 1 .. k]
        /\ centroids \in [1 .. k -> Centroids]
        /\ Centred
    BY <1>0, <2>1 DEF Clustered
  <2>3. \A i \in DOMAIN docs : Point(i) \in Int
    <3>1. ASSUME NEW i \in DOMAIN docs PROVE Point(i) \in Int
      <4>1. docs[i] \in Documents
        BY <2>2
      <4>. QED BY <4>1, PlaceAssumption DEF Point
    <3>. QED BY <3>1
  <2>4. \A i \in DOMAIN docs :
          /\ nearest[i] \in 1 .. k
          /\ \A d \in 1 .. k : ~ Closer(Point(i), centroids[d], centroids[nearest[i]])
    <3>. HIDE DEF docs, k, centroids
    <3>1. ASSUME NEW i \in DOMAIN docs
          PROVE  /\ NearestCentroid(Point(i), centroids) \in 1 .. k
                 /\ \A d \in 1 .. k :
                      ~ Closer(Point(i), centroids[d], centroids[NearestCentroid(Point(i), centroids)])
      BY <2>2, <2>3, NearestOf
    <3>2. \A i \in DOMAIN docs : nearest[i] = NearestCentroid(Point(i), centroids)
      BY DEF docs, centroids
    <3>. QED BY <3>1, <3>2
  <2>5. nearest \in [DOMAIN docs -> 1 .. k]
    <3>1. nearest = [i \in DOMAIN docs |-> nearest[i]]
      OBVIOUS
    <3>. HIDE DEF nearest
    <3>. QED BY <2>4, <3>1
  <2>6. place \in {"recentre", "name"} /\ (place = "name" => nearest = grouping.assignments)
    OBVIOUS
  <2>. HIDE DEF nearest, place
  <2>7. /\ GroupingShape' /\ grouping'.pc = place
        /\ grouping'.docs = docs /\ grouping'.k = k /\ grouping'.centroids = centroids
        /\ grouping'.assignments = nearest
    BY <1>0, <2>1 DEF GroupingShape
  <2>. HIDE DEF docs, k, centroids
  <2>8. Clustered'
    BY <2>2, <2>5, <2>7 DEF Clustered
  <2>9. ASSUME place = "name" PROVE ClustersSettle'
    <3>. DEFINE mean(c) == Mean(docs, Members(c), centroids[c])
    <3>1. nearest = grouping.assignments
      BY <2>6, <2>9
    <3>2. /\ \A c : Members(c)' = Members(c)
          /\ \A i : Point(i)' = Point(i)
      BY <3>1, <2>7 DEF Members, Point, docs
    <3>3. \A c : Members(c) \in SUBSET DOMAIN docs
      BY DEF Members, docs
    <3>4. \A c \in 1 .. k : mean(c) \in Centroids
      BY <2>2, <3>3, MeanOf
    <3>5. \A i \in DOMAIN docs : nearest[i] \in 1 .. k /\ i \in Members(nearest[i])
      BY <2>4, <3>1 DEF Members, docs
    <3>6. ASSUME NEW i \in DOMAIN docs, NEW c \in 1 .. k, Members(c) # {}
          PROVE  ~ Closer(Point(i), mean(c), mean(nearest[i]))
      <4>1. CASE \A j \in DOMAIN docs : nearest[j] = 1
        <5>1. c = 1 /\ nearest[i] = 1
          BY <3>1, <3>6, <4>1 DEF Members, docs
        <5>2. ~ Closer(Point(i), mean(1), mean(1))
          <6>. HIDE DEF mean
          <6>. QED BY <2>3, <3>4, <5>1, CloserOrder
        <5>. QED BY <5>1, <5>2
      <4>2. CASE \A d \in 1 .. k : Members(d) # {} => centroids[d] = mean(d)
        <5>1. centroids[c] = mean(c) /\ centroids[nearest[i]] = mean(nearest[i])
          <6>. HIDE DEF mean
          <6>. QED BY <3>5, <3>6, <4>2
        <5>2. ~ Closer(Point(i), centroids[c], centroids[nearest[i]])
          BY <2>4
        <5>. HIDE DEF mean
        <5>. QED BY <5>1, <5>2
      <4>. QED BY <2>2, <3>1, <4>1, <4>2 DEF Centred, docs, k, centroids
    <3>7. \A i \in DOMAIN docs, c \in 1 .. k :
            Members(c) # {} => ~ Closer(Point(i), mean(c), mean(nearest[i]))
      BY <3>6
    <3>. QED BY <2>7, <3>2, <3>7 DEF ClustersSettle
  <2>10. place = "recentre" => ClustersSettle'
    BY <2>7 DEF ClustersSettle
  <2>. QED BY <2>2, <2>6, <2>7, <2>8, <2>9, <2>10 DEF GroupingClusterInv
<1>7. CASE Recentre
  <2>. DEFINE means == [c \in DOMAIN grouping.centroids |->
                          Mean(grouping.docs, Members(c), grouping.centroids[c])]
              place == IF grouping.iterations = MaxIterations THEN "name" ELSE "assign"
  <2>1. /\ grouping.pc = "recentre"
        /\ grouping' = [grouping EXCEPT !.pc = place, !.centroids = means]
    BY <1>7 DEF Recentre
  <2>2. Clustered /\ grouping.centroids \in [1 .. grouping.k -> Centroids]
    BY <1>0, <2>1
  <2>3. \A c \in 1 .. grouping.k :
          /\ Members(c) \in SUBSET DOMAIN grouping.docs
          /\ Mean(grouping.docs, Members(c), grouping.centroids[c]) \in Centroids
          /\ Members(c) # {} => Mean(grouping.docs, Members(c), grouping.centroids[c])
                                  = [sum |-> Total(grouping.docs, Members(c)),
                                     count |-> Cardinality(Members(c))]
    <3>1. \A c : Members(c) \in SUBSET DOMAIN grouping.docs
      BY DEF Members
    <3>. QED BY <2>2, <3>1, MeanOf DEF Clustered
  <2>4. means \in [1 .. grouping.k -> Centroids]
    BY <2>2, <2>3
  <2>5. \A c \in 1 .. grouping.k : Members(c) # {} =>
          means[c] = Mean(grouping.docs, Members(c), means[c])
    <3>1. ASSUME NEW c \in 1 .. grouping.k, Members(c) # {}
          PROVE  means[c] = Mean(grouping.docs, Members(c), means[c])
      <4>1. means[c] = Mean(grouping.docs, Members(c), grouping.centroids[c])
        BY <2>2
      <4>. HIDE DEF means
      <4>2. \A previous : Mean(grouping.docs, Members(c), previous)
                             = [sum |-> Total(grouping.docs, Members(c)),
                                count |-> Cardinality(Members(c))]
        BY <3>1 DEF Mean
      <4>. QED BY <4>1, <4>2
    <3>. QED BY <3>1
  <2>6. place \in {"assign", "name"} /\ (place = "name" => grouping.iterations = MaxIterations)
    OBVIOUS
  <2>. HIDE DEF means, place
  <2>7. /\ GroupingShape' /\ grouping'.pc = place
        /\ grouping'.docs = grouping.docs /\ grouping'.k = grouping.k
        /\ grouping'.centroids = means
        /\ grouping'.assignments = grouping.assignments
        /\ grouping'.iterations = grouping.iterations
    BY <1>0, <2>1 DEF GroupingShape
  <2>8. Clustered'
    BY <2>2, <2>7 DEF Clustered
  <2>9. \A c : Members(c)' = Members(c)
    BY <2>7 DEF Members
  <2>10. Centred'
    BY <2>5, <2>7, <2>9 DEF Centred
  <2>11. ClustersSettle'
    BY <2>6, <2>7, GroupingAssumption DEF ClustersSettle
  <2>. QED BY <2>4, <2>6, <2>7, <2>8, <2>10, <2>11 DEF GroupingClusterInv
<1>8. CASE NameClusters
  <2>1. PICK names, keys :
          grouping' = [grouping EXCEPT !.pc = "labelled", !.names = names, !.keys = keys]
    BY <1>8 DEF NameClusters
  <2>. QED BY <1>0, <2>1 DEF GroupingClusterInv, GroupingShape, ClustersSettle
<1>9. CASE UNCHANGED groupingVars
  BY <1>0, <1>9 DEF groupingVars, GroupingClusterInv, GroupingShape, Clustered, Centred,
                    ClustersSettle, Members, Point
<1>. QED BY <1>1, <1>2, <1>3, <1>4, <1>5, <1>6, <1>7, <1>8, <1>9 DEF GroupingNext

-----------------------------------------------------------------------------
(***************************************************************************)
(* The operators side by side.                                             *)
(***************************************************************************)
LEMMA GroupStep == [Next]_operatorsVars => [GroupingNext]_groupingVars
  BY DEF Next, operatorsVars, groupingVars

LEMMA FilterStep == [Next]_operatorsVars => [CalibrationNext]_calibrationVars
  BY DEF Next, operatorsVars, calibrationVars

LEMMA ChunkStep == [Next]_operatorsVars => [PushWindow]_chunkVars
  BY DEF Next, operatorsVars, chunkVars

LEMMA LabelStep == [Next]_operatorsVars => [ClassificationNext]_classificationVars
  BY DEF Next, operatorsVars, classificationVars

(***************************************************************************)
(* The windows of a text cover it, none is longer than a chunk may be,     *)
(* each advances, and neighbours share the configured overlap: for texts   *)
(* of any length and any sizes, an overlap longer than the chunk included. *)
(* (chunk_text.)                                                           *)
(***************************************************************************)
THEOREM WindowsCover == Spec => []WindowsCoverText
<1>1. Init => ChunkInv
  BY ChunkInitInv DEF Init
<1>2. ChunkInv /\ [Next]_operatorsVars => ChunkInv'
  BY ChunkStep, ChunkNextInv
<1> QED
  BY <1>1, <1>2, ChunkInvImplies, PTL DEF Spec

(***************************************************************************)
(* A row the guard of a CASE refuses takes the branch it would take        *)
(* whatever the model said: for every CASE that holds a MEANS.             *)
(* (rewrite_case, the CASE evaluated over the answers.)                    *)
(***************************************************************************)
THEOREM GuardSkips == Spec => []GuardSkipsNothingNeeded
<1>1. Init => LabelInv
  BY LabelInitInv DEF Init
<1>2. LabelInv /\ [Next]_operatorsVars => LabelInv'
  BY LabelStep, LabelNextInv
<1> QED
  BY <1>1, <1>2, LabelInvImplies, PTL DEF Spec

(***************************************************************************)
(* A CASE of several conditions asks about no text a condition that was    *)
(* answered before, over any history of statements. (Classifier.apply.)    *)
(***************************************************************************)
THEOREM StaysWarm == Spec => []AnswersStayWarm
<1>1. Init => LabelInv
  BY LabelInitInv DEF Init
<1>2. LabelInv /\ [Next]_operatorsVars => LabelInv'
  BY LabelStep, LabelNextInv
<1> QED
  BY <1>1, <1>2, LabelInvImplies, PTL DEF Spec

(***************************************************************************)
(* SEMANTIC DISTINCT ON drops a row only for an earlier one it keeps,      *)
(* within reach of it, and keeps no two that lie within reach of each      *)
(* other: for any rows, any places of their texts and any threshold,       *)
(* though nearness is not transitive. (greedy_groups, DistinctExec.)       *)
(***************************************************************************)
THEOREM KeptApart == Spec => []KeptRowsDiffer
<1>1. Init => GroupingKeyInv
  BY KeyInitInv DEF Init
<1>2. GroupingKeyInv /\ [Next]_operatorsVars => GroupingKeyInv'
  BY GroupStep, KeyNextInv
<1>3. GroupingKeyInv => KeptRowsDiffer
  BY DEF GroupingKeyInv
<1> QED
  BY <1>1, <1>2, <1>3, PTL DEF Spec

(***************************************************************************)
(* k-means that ends before its cap leaves no document nearer to the mean  *)
(* of another cluster than to its own: for any documents, any number of    *)
(* clusters, any seeds, clusters emptied on the way included. (kmeans.)    *)
(***************************************************************************)
THEOREM ClustersSettled == Spec => []ClustersSettle
<1>1. Init => GroupingClusterInv
  BY ClusterInitInv DEF Init
<1>2. GroupingClusterInv /\ [Next]_operatorsVars => GroupingClusterInv'
  BY GroupStep, ClusterNextInv
<1>3. GroupingClusterInv => ClustersSettle
  BY DEF GroupingClusterInv
<1> QED
  BY <1>1, <1>2, <1>3, PTL DEF Spec

(***************************************************************************)
(* A scan that reports its target met prunes no more of the matches it was *)
(* calibrated on than the target allows, every pruned document that could  *)
(* not be labelled counted as a match: for any corpus, scores, labels,     *)
(* failures, proxy, target and confidence. (calibrated_prefilter.)         *)
(***************************************************************************)
THEOREM SampleKept == Spec => []SampleSurvives
<1>1. Init => CalibrationInv
  BY CalibrationInitInv DEF Init
<1>2. CalibrationInv /\ [Next]_operatorsVars => CalibrationInv'
  BY FilterStep, CalibrationNextInv
<1> QED
  BY <1>1, <1>2, CalibrationImplies, PTL DEF Spec

(***************************************************************************)
(* Labels that fail never make the scan prune more than it would have      *)
(* without those documents in its sample: for any of the same, certified   *)
(* or not. (certified_floor, estimate.)                                    *)
(***************************************************************************)
THEOREM FailuresLower == Spec => []FailureOnlyLowersFloor
<1>1. Init => CalibrationInv
  BY CalibrationInitInv DEF Init
<1>2. CalibrationInv /\ [Next]_operatorsVars => CalibrationInv'
  BY FilterStep, CalibrationNextInv
<1> QED
  BY <1>1, <1>2, CalibrationImplies, PTL DEF Spec
==============================================================================
