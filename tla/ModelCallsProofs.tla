-------------------------- MODULE ModelCallsProofs --------------------------
(***************************************************************************)
(* Proofs about ModelCalls, for every batch, every chain and every choice  *)
(* of links that break their promise.  The argument: the rows pending are  *)
(* those without a result (Open), each exactly once; the buffer is aligned *)
(* with them position by position (Buffer); so what is collected at a      *)
(* position answers the row there, and a row moves on only when its        *)
(* request has ended without an answer (Exhaustion).                       *)
(***************************************************************************)
EXTENDS ModelCalls, FiniteSetTheorems, TLAPS

(* The link is working on its batch, or has returned.                      *)
Working == stage \in {"asking", "answered"}

Exhausted(m, r) == <<m, r>> \in refused \/ sends[m][r] = MaxRetries + 1

Order == \A m, n \in 1..Len(pending) : m < n => pending[m] < pending[n]

Open ==
  stage # "returned" =>
    \A r \in Row : slots[r] = NoResult <=> \E p \in 1..Len(pending) : pending[p] = r

Finished == ~Working /\ link = Links => pending = <<>>

Unasked == \A m \in Link, r \in Row : m > link => sends[m][r] = 0

(* The request at position p of the batch.                                 *)
CallOK(p) ==
  /\ calls[p].result # Failed => calls[p].result = [by |-> link, row |-> pending[p]]
  /\ sends[link][pending[p]] = calls[p].attempt + 1
  /\ calls[p].at = "sleeping" => calls[p].attempt < MaxRetries
  /\ calls[p].at = "done" /\ calls[p].result = Failed => Exhausted(link, pending[p])

Aligned ==
  /\ Len(outcomes) <= Len(calls) /\ Len(calls) <= Len(pending)
  /\ stage = "answered" => Len(outcomes) = Len(pending)
  /\ \A p \in 1..Len(calls) : CallOK(p)
  /\ \A p \in 1..Len(outcomes) : calls[p].at = "done" /\ outcomes[p] = calls[p].result
  /\ \A p \in 1..Len(pending) : p > Len(calls) => sends[link][pending[p]] = 0

Buffer ==
  Working => /\ link \in Link
             /\ \A p \in 1..Len(outcomes) : outcomes[p] # Failed => outcomes[p].by = link
             /\ link \notin Sloppy => Aligned

Exhaustion ==
  \A p \in 1..Len(pending), m \in Link \ Sloppy :
    m < link \/ (~Working /\ m = link) => Exhausted(m, pending[p])

Failures ==
  \A r \in Row : slots[r] = Failed =>
    link = Links /\ ~Working /\ (Links \notin Sloppy => sends[Links][r] > 0)

IInv ==
  /\ TypeOK /\ Order /\ Open /\ Finished /\ Unasked /\ Buffer /\ Exhaustion /\ Failures
  /\ OwnAnswers /\ AnsweredNotAskedAgain /\ FallbackAfterExhaustion
-----------------------------------------------------------------------------
(* The marks for "no result yet" and "failed" are not completions.         *)
LEMMA Results ==
  /\ Failed \in Result /\ Failed \notin Answer
  /\ NoResult \notin Result /\ NoResult # Failed
  /\ \A m \in Link, r \in Row : [by |-> m, row |-> r] \in Answer
  BY ConstantsAssumption DEF Result, Answer, Failed, NoResult, Link, Row

(* What InOrder promises of a sequence.                                    *)
LEMMA Ordered ==
  ASSUME NEW S \in SUBSET Row, NEW s \in InOrder(S)
  PROVE  /\ s \in Seq(Row)
         /\ \A n \in 1..Len(s) : s[n] \in S
         /\ \A m, n \in 1..Len(s) : m < n => s[m] < s[n]
         /\ \A r \in S : \E n \in 1..Len(s) : s[n] = r
<1>1. Rows \in Nat
  BY ConstantsAssumption
<1>2. IsFiniteSet(Row)
  BY <1>1, FS_Interval DEF Row
<1>3. IsFiniteSet(S)
  BY <1>2, FS_Subset
<1>4. Cardinality(S) \in Nat
  BY <1>3, FS_CardinalityType
<1>5. s \in [1..Cardinality(S) -> S]
  BY DEF InOrder
<1>6. s \in Seq(S) /\ Len(s) = Cardinality(S)
  BY <1>4, <1>5
<1> QED
  BY <1>4, <1>5, <1>6 DEF InOrder

(* Rows at different positions of a batch are different.                   *)
LEMMA Distinct ==
  ASSUME TypeOK, Order,
         NEW m \in 1..Len(pending), NEW n \in 1..Len(pending), pending[m] = pending[n]
  PROVE  m = n
<1>1. pending[m] \in Row /\ pending[n] \in Row
  BY DEF TypeOK
<1>2. pending[m] \in Nat /\ pending[n] \in Nat
  BY <1>1, ConstantsAssumption DEF Row
<1>3. ~(m < n) /\ ~(n < m)
  BY <1>2 DEF Order
<1> QED
  BY <1>3

(* While a link is working no row has failed, and those pending have no    *)
(* result.                                                                 *)
LEMMA NoneFailed ==
  ASSUME IInv, Working
  PROVE  /\ \A r \in Row : slots[r] # Failed
         /\ \A p \in 1..Len(pending) : pending[p] \in Row /\ slots[pending[p]] = NoResult
         /\ stage # "returned"
<1>1. stage # "returned"
  BY DEF Working
<1>2. \A p \in 1..Len(pending) : pending[p] \in Row
  BY DEF IInv, TypeOK
<1> QED
  BY <1>1, <1>2 DEF IInv, Failures, Open
-----------------------------------------------------------------------------
LEMMA InitHolds ==
  ASSUME Init
  PROVE  IInv
<1>1. /\ pending \in Seq(Row)
      /\ \A m, n \in 1..Len(pending) : m < n => pending[m] < pending[n]
      /\ \A r \in Row : \E n \in 1..Len(pending) : pending[n] = r
  BY Ordered DEF Init
<1>2. TypeOK
  BY <1>1, Results, ConstantsAssumption DEF Init, TypeOK
<1>3. \A r \in Row : slots[r] = NoResult
  BY DEF Init
<1>4. Order /\ Open
  BY <1>1, <1>3 DEF Order, Open
<1>5. ~Working /\ link = 0 /\ Links # 0
  BY ConstantsAssumption DEF Init, Working
<1>6. Finished /\ Buffer /\ Exhaustion
  BY <1>5, ConstantsAssumption DEF Finished, Buffer, Exhaustion, Link
<1>7. Unasked /\ FallbackAfterExhaustion
  BY DEF Init, Unasked, FallbackAfterExhaustion
<1>8. Failures /\ OwnAnswers /\ AnsweredNotAskedAgain
  BY <1>3, Results DEF Failures, OwnAnswers, AnsweredNotAskedAgain, Result
<1> QED
  BY <1>2, <1>4, <1>6, <1>7, <1>8 DEF IInv

LEMMA AskKeeps ==
  ASSUME IInv, Ask
  PROVE  IInv'
<1> USE DEF IInv, Ask
<1>1. TypeOK'
  BY ConstantsAssumption DEF TypeOK
<1>2. link' \in Link /\ link' = link + 1 /\ link \in Nat /\ ~Working
  BY ConstantsAssumption DEF TypeOK, Link, Working
<1>3. Order' /\ Open'
  BY DEF Order, Open
<1>4. Finished'
  BY DEF Finished, Working
<1>5. Unasked'
  BY <1>2 DEF Unasked, Link
<1>6. \A p \in 1..Len(pending) : sends[link'][pending[p]] = 0
  BY <1>2 DEF Unasked, TypeOK
<1>7. Buffer'
  BY <1>2, <1>6 DEF Buffer, Aligned, Working, TypeOK
<1>8. Exhaustion'
  BY <1>2 DEF Exhaustion, Exhausted, Working, Link
<1>9. \A r \in Row : slots[r] # Failed
  BY <1>2 DEF Failures
<1>10. Failures'
  BY <1>9 DEF Failures
<1>11. OwnAnswers' /\ AnsweredNotAskedAgain' /\ FallbackAfterExhaustion'
  BY DEF OwnAnswers, AnsweredNotAskedAgain, FallbackAfterExhaustion
<1> QED
  BY <1>1, <1>3, <1>4, <1>5, <1>7, <1>8, <1>10, <1>11

(* Nothing is without a result when the chain returns.                     *)
LEMMA AllResolved ==
  ASSUME IInv, Return
  PROVE  slots' = slots
<1>1. pending = <<>>
  BY DEF IInv, Return, Finished, Working
<1>2. \A r \in Row : slots[r] # NoResult
  BY <1>1 DEF IInv, Return, Open
<1>3. slots \in [Row -> Result \union {NoResult}]
  BY DEF IInv, TypeOK
<1> QED
  BY <1>2, <1>3 DEF Return

LEMMA ReturnKeeps ==
  ASSUME IInv, Return
  PROVE  IInv'
<1> USE DEF IInv, Return
<1>1. slots' = slots
  BY AllResolved
<1>2. ~Working /\ ~Working'
  BY DEF Working
<1>3. TypeOK' /\ Order' /\ Open'
  BY <1>1 DEF TypeOK, Order, Open
<1>4. Finished' /\ Unasked' /\ Buffer'
  BY <1>2 DEF Finished, Unasked, Buffer
<1>5. Exhaustion'
  BY <1>2 DEF Exhaustion, Exhausted
<1>6. Failures' /\ OwnAnswers' /\ AnsweredNotAskedAgain' /\ FallbackAfterExhaustion'
  BY <1>1, <1>2 DEF Failures, OwnAnswers, AnsweredNotAskedAgain, FallbackAfterExhaustion
<1> QED
  BY <1>3, <1>4, <1>5, <1>6
-----------------------------------------------------------------------------
(* What an honest link working on its batch knows.                         *)
LEMMA HonestFacts ==
  ASSUME IInv, Honest
  PROVE  /\ Working /\ link \in Link /\ link \notin Sloppy /\ Aligned
         /\ \A p \in 1..Len(outcomes) : outcomes[p] # Failed => outcomes[p].by = link
         /\ Len(calls) \in Nat /\ Len(pending) \in Nat /\ Len(outcomes) \in Nat
         /\ \A p \in 1..Len(pending) : pending[p] \in Row
         /\ \A p \in 1..Len(calls) : p \in 1..Len(pending) /\ calls[p] \in Call
<1>1. Working
  BY DEF Honest, Working
<1>2. link \in Link /\ link \notin Sloppy /\ Aligned
  BY <1>1 DEF IInv, Honest, Buffer
<1>3. \A p \in 1..Len(outcomes) : outcomes[p] # Failed => outcomes[p].by = link
  BY <1>1 DEF IInv, Buffer
<1>4. /\ Len(calls) \in Nat /\ Len(pending) \in Nat /\ Len(outcomes) \in Nat
      /\ \A p \in 1..Len(pending) : pending[p] \in Row
      /\ \A p \in 1..Len(calls) : calls[p] \in Call
  BY DEF IInv, TypeOK
<1>5. \A p \in 1..Len(calls) : p \in 1..Len(pending)
  BY <1>2, <1>4 DEF Aligned
<1> QED
  BY <1>1, <1>2, <1>3, <1>4, <1>5

(* Sending to the row at position p keeps what is known of the rows: it    *)
(* has no result yet, and every earlier link has failed on it.             *)
LEMMA SentKeeps ==
  ASSUME IInv, Honest, NEW p \in 1..Len(pending), Sent(p),
         UNCHANGED <<stage, link, pending, outcomes, slots, refused>>
  PROVE  /\ sends' \in [Link -> [Row -> Nat]]
         /\ sends'[link][pending[p]] = sends[link][pending[p]] + 1
         /\ \A n \in 1..Len(pending) : n # p => sends'[link][pending[n]] = sends[link][pending[n]]
         /\ Order' /\ Open' /\ Finished' /\ Unasked' /\ Exhaustion' /\ Failures'
         /\ OwnAnswers' /\ AnsweredNotAskedAgain' /\ FallbackAfterExhaustion'
<1> USE DEF Sent
<1>1. Working /\ link \in Link /\ link \in Nat /\ pending[p] \in Row
  BY HonestFacts, ConstantsAssumption DEF Link
<1>2. sends \in [Link -> [Row -> Nat]]
  BY DEF IInv, TypeOK
<1>3. /\ sends' \in [Link -> [Row -> Nat]]
      /\ sends'[link][pending[p]] = sends[link][pending[p]] + 1
      /\ \A m \in Link, r \in Row :
           m # link \/ r # pending[p] => sends'[m][r] = sends[m][r]
  BY <1>1, <1>2
<1>4. \A n \in 1..Len(pending) : n # p => pending[n] \in Row /\ pending[n] # pending[p]
  BY Distinct DEF IInv, TypeOK
<1>5. Working'
  BY <1>1 DEF Working
<1>6. Order' /\ Open' /\ Finished'
  BY DEF IInv, Order, Open, Finished, Working
<1>7. Unasked'
  BY <1>1, <1>3 DEF IInv, Unasked
<1>8. Exhaustion'
  <2> SUFFICES ASSUME NEW n \in 1..Len(pending), NEW m \in Link \ Sloppy, m < link
               PROVE  Exhausted(m, pending[n])'
    BY <1>5 DEF Exhaustion
  <2>1. Exhausted(m, pending[n]) /\ m # link /\ pending[n] \in Row
    BY <1>1, <1>4 DEF IInv, Exhaustion
  <2> QED
    BY <1>3, <2>1 DEF Exhausted
<1>9. Failures'
  BY <1>1 DEF IInv, Failures
<1>10. OwnAnswers'
  BY DEF IInv, OwnAnswers
<1>11. slots[pending[p]] = NoResult
  BY <1>1, NoneFailed
<1>12. AnsweredNotAskedAgain'
  BY <1>3, <1>11, Results DEF IInv, AnsweredNotAskedAgain, Result
<1>13. FallbackAfterExhaustion'
  <2> SUFFICES ASSUME NEW r \in Row, NEW n \in Link, NEW m \in Link \ Sloppy,
                      sends'[n][r] > 0, m < n
               PROVE  Exhausted(m, r)'
    BY DEF FallbackAfterExhaustion, Exhausted
  <2>1. CASE n = link /\ r = pending[p]
    <3>1. Exhausted(m, r) /\ m # link
      BY <1>1, <2>1 DEF IInv, Exhaustion
    <3> QED
      BY <1>3, <3>1 DEF Exhausted
  <2>2. CASE ~(n = link /\ r = pending[p])
    <3>1. sends[n][r] > 0
      BY <1>3, <2>2
    <3>2. Exhausted(m, r)
      BY <3>1 DEF IInv, FallbackAfterExhaustion, Exhausted
    <3>3. n \in Nat /\ m \in Nat /\ ~(n > link)
      BY <1>2, <3>1, ConstantsAssumption DEF IInv, Unasked, Link
    <3>4. m # link
      BY <1>1, <3>3
    <3> QED
      BY <1>3, <3>2, <3>4 DEF Exhausted
  <2> QED
    BY <2>1, <2>2
<1> QED
  BY <1>3, <1>4, <1>6, <1>7, <1>8, <1>9, <1>10, <1>12, <1>13

LEMMA LaunchKeeps ==
  ASSUME IInv, Launch
  PROVE  IInv'
<1> DEFINE q == Len(calls) + 1
<1>1. Honest /\ q \in 1..Len(pending) /\ calls' = Append(calls, NewCall) /\ Sent(q)
      /\ UNCHANGED <<stage, link, pending, outcomes, slots, refused>>
  BY HonestFacts DEF Launch
<1>2. /\ Working /\ link \in Link /\ Aligned /\ Len(calls) \in Nat /\ Len(pending) \in Nat
      /\ Len(outcomes) \in Nat
      /\ \A p \in 1..Len(calls) : p \in 1..Len(pending) /\ calls[p] \in Call
  BY <1>1, HonestFacts
<1> HIDE DEF q
<1>3. /\ sends' \in [Link -> [Row -> Nat]]
      /\ sends'[link][pending[q]] = sends[link][pending[q]] + 1
      /\ \A n \in 1..Len(pending) : n # q => sends'[link][pending[n]] = sends[link][pending[n]]
      /\ Order' /\ Open' /\ Finished' /\ Unasked' /\ Exhaustion' /\ Failures'
      /\ OwnAnswers' /\ AnsweredNotAskedAgain' /\ FallbackAfterExhaustion'
  BY <1>1, SentKeeps
<1>4. NewCall \in Call
  BY Results, ConstantsAssumption DEF NewCall, Call
<1>5. calls \in Seq(Call)
  BY DEF IInv, TypeOK
<1>6. /\ calls' \in Seq(Call) /\ Len(calls') = q
      /\ \A p \in 1..Len(calls) : calls'[p] = calls[p]
      /\ calls'[q] = NewCall
  BY <1>1, <1>4, <1>5 DEF q
<1>7. TypeOK'
  BY <1>1, <1>3, <1>6 DEF IInv, TypeOK
<1>8. \A p \in 1..Len(calls') : CallOK(p)'
  <2> SUFFICES ASSUME NEW p \in 1..Len(calls')
               PROVE  CallOK(p)'
    OBVIOUS
  <2>1. CASE p = q
    <3>1. sends[link][pending[q]] = 0
      BY <1>1, <1>2 DEF Aligned, q
    <3> QED
      BY <1>1, <1>3, <1>6, <2>1, <3>1 DEF CallOK, NewCall
  <2>2. CASE p # q
    <3>1. p \in 1..Len(calls) /\ p \in 1..Len(pending)
      BY <1>2, <1>6, <2>2 DEF q
    <3>2. CallOK(p)
      BY <1>2, <3>1 DEF Aligned
    <3> QED
      BY <1>1, <1>3, <1>6, <2>2, <3>1, <3>2 DEF CallOK, Exhausted
  <2> QED
    BY <2>1, <2>2
<1>9. \A p \in 1..Len(pending) : p > q => sends'[link][pending[p]] = 0
  BY <1>2, <1>3 DEF Aligned, q
<1>10. Aligned'
  BY <1>1, <1>2, <1>6, <1>8, <1>9 DEF Aligned, Honest, q
<1>11. Buffer'
  BY <1>1, <1>2, <1>10 DEF IInv, Buffer
<1> QED
  BY <1>3, <1>7, <1>11 DEF IInv

(* One request of the buffer changes.                                      *)
LEMMA CallChange ==
  ASSUME IInv, NEW q \in 1..Len(calls), NEW c \in Call,
         calls' = [calls EXCEPT ![q] = c]
  PROVE  /\ calls' \in Seq(Call) /\ Len(calls') = Len(calls)
         /\ \A p \in 1..Len(calls) : p # q => calls'[p] = calls[p]
         /\ calls'[q] = c
  BY DEF IInv, TypeOK

LEMMA RetryKeeps ==
  ASSUME IInv, NEW q \in 1..Rows, Retry(q)
  PROVE  IInv'
<1> DEFINE c == [NewCall EXCEPT !.attempt = calls[q].attempt + 1]
<1>1. Honest /\ q \in 1..Len(calls) /\ calls[q].at = "sleeping" /\ Sent(q)
      /\ calls' = [calls EXCEPT ![q] = c]
      /\ UNCHANGED <<stage, link, pending, outcomes, slots, refused>>
  BY DEF Retry
<1>2. /\ Working /\ link \in Link /\ Aligned /\ Len(calls) \in Nat /\ Len(pending) \in Nat
      /\ Len(outcomes) \in Nat
      /\ \A p \in 1..Len(calls) : p \in 1..Len(pending) /\ calls[p] \in Call
  BY <1>1, HonestFacts
<1>3. /\ sends' \in [Link -> [Row -> Nat]]
      /\ sends'[link][pending[q]] = sends[link][pending[q]] + 1
      /\ \A n \in 1..Len(pending) : n # q => sends'[link][pending[n]] = sends[link][pending[n]]
      /\ Order' /\ Open' /\ Finished' /\ Unasked' /\ Exhaustion' /\ Failures'
      /\ OwnAnswers' /\ AnsweredNotAskedAgain' /\ FallbackAfterExhaustion'
  BY <1>1, <1>2, SentKeeps
<1>4. calls[q].attempt \in 0..MaxRetries /\ calls[q].attempt < MaxRetries
  BY <1>1, <1>2 DEF Aligned, CallOK, Call
<1>5. /\ c \in Call /\ c.at = "flying" /\ c.result = Failed
      /\ c.attempt = calls[q].attempt + 1
  BY <1>4, Results, ConstantsAssumption DEF Call, NewCall
<1> HIDE DEF c
<1>6. /\ calls' \in Seq(Call) /\ Len(calls') = Len(calls)
      /\ \A p \in 1..Len(calls) : p # q => calls'[p] = calls[p]
      /\ calls'[q] = c
  BY <1>1, <1>5, CallChange
<1>7. TypeOK'
  BY <1>1, <1>3, <1>6 DEF IInv, TypeOK
<1>8. \A p \in 1..Len(calls') : CallOK(p)'
  <2> SUFFICES ASSUME NEW p \in 1..Len(calls)
               PROVE  CallOK(p)'
    BY <1>6
  <2>1. CallOK(p) /\ p \in 1..Len(pending)
    BY <1>2 DEF Aligned
  <2>2. CASE p = q
    BY <1>1, <1>3, <1>4, <1>5, <1>6, <2>1, <2>2 DEF CallOK
  <2>3. CASE p # q
    BY <1>1, <1>3, <1>6, <2>1, <2>3 DEF CallOK, Exhausted
  <2> QED
    BY <2>2, <2>3
<1>9. \A p \in 1..Len(outcomes) : calls'[p].at = "done" /\ outcomes[p] = calls'[p].result
  BY <1>1, <1>2, <1>6 DEF Aligned
<1>10. \A p \in 1..Len(pending) : p > Len(calls) => sends'[link][pending[p]] = 0
  <2> SUFFICES ASSUME NEW p \in 1..Len(pending), p > Len(calls)
               PROVE  sends'[link][pending[p]] = 0
    OBVIOUS
  <2>1. p # q
    BY <1>1, <1>2
  <2> QED
    BY <1>2, <1>3, <2>1 DEF Aligned
<1>11. Aligned'
  BY <1>1, <1>2, <1>6, <1>8, <1>9, <1>10 DEF Aligned
<1>12. Buffer'
  BY <1>1, <1>2, <1>11 DEF IInv, Buffer
<1> QED
  BY <1>3, <1>7, <1>12 DEF IInv

(* A response changes one request of the buffer and perhaps what is known  *)
(* to be refused, and what it leaves in the buffer is accounted for.       *)
LEMMA ResponseKeeps ==
  ASSUME IInv, Honest, NEW q \in 1..Len(calls), calls[q].at = "flying", NEW c \in Call,
         calls' = [calls EXCEPT ![q] = c],
         refused \subseteq refused', refused' \subseteq Link \X Row,
         UNCHANGED <<stage, link, pending, outcomes, slots, sends>>,
         CallOK(q)'
  PROVE  IInv'
<1>2. /\ Working /\ link \in Link /\ Aligned /\ Len(calls) \in Nat /\ Len(pending) \in Nat
      /\ Len(outcomes) \in Nat
      /\ \A p \in 1..Len(calls) : p \in 1..Len(pending) /\ calls[p] \in Call
  BY HonestFacts
<1>3. /\ calls' \in Seq(Call) /\ Len(calls') = Len(calls)
      /\ \A p \in 1..Len(calls) : p # q => calls'[p] = calls[p]
  BY CallChange
<1>4. \A m, r : Exhausted(m, r) => Exhausted(m, r)'
  BY DEF Exhausted
<1>5. Working'
  BY <1>2 DEF Working
<1>6. TypeOK'
  BY <1>3 DEF IInv, TypeOK
<1>7. Order' /\ Open' /\ Finished' /\ Unasked' /\ Failures' /\ OwnAnswers' /\ AnsweredNotAskedAgain'
  BY <1>2, <1>5 DEF IInv, Order, Open, Finished, Unasked, Failures, OwnAnswers, AnsweredNotAskedAgain
<1>8. Exhaustion'
  BY <1>2, <1>4, <1>5 DEF IInv, Exhaustion
<1>9. FallbackAfterExhaustion'
  BY DEF IInv, FallbackAfterExhaustion
<1>10. \A p \in 1..Len(calls') : CallOK(p)'
  <2> SUFFICES ASSUME NEW p \in 1..Len(calls), p # q
               PROVE  CallOK(p)'
    BY <1>3
  <2>1. CallOK(p)
    BY <1>2 DEF Aligned
  <2> QED
    BY <1>3, <1>4, <2>1 DEF CallOK
<1>11. \A p \in 1..Len(outcomes) : calls'[p].at = "done" /\ outcomes[p] = calls'[p].result
  BY <1>2, <1>3 DEF Aligned
<1>12. Aligned'
  BY <1>2, <1>3, <1>10, <1>11 DEF Aligned
<1>13. Buffer'
  BY <1>2, <1>12 DEF IInv, Buffer
<1> QED
  BY <1>6, <1>7, <1>8, <1>9, <1>13 DEF IInv

LEMMA RespondKeeps ==
  ASSUME IInv, NEW q \in 1..Rows, Respond(q)
  PROVE  IInv'
<1> DEFINE done(result) == [calls[q] EXCEPT !.at = "done", !.result = result]
           sleeping == [calls[q] EXCEPT !.at = "sleeping"]
<1>1. Honest /\ q \in 1..Len(calls) /\ calls[q].at = "flying"
      /\ UNCHANGED <<stage, link, pending, outcomes, slots, sends>>
  BY DEF Respond, Answered, Refused, Throttled
<1>2. /\ link \in Link /\ calls[q] \in Call /\ pending[q] \in Row /\ CallOK(q)
      /\ refused \subseteq Link \X Row
  BY <1>1, HonestFacts DEF Aligned, IInv, TypeOK
<1>3. /\ \A result \in Result : done(result) \in Call
      /\ \A result : /\ done(result).at = "done" /\ done(result).result = result
                     /\ done(result).attempt = calls[q].attempt
  BY <1>2 DEF Call
<1>4. /\ sleeping \in Call /\ sleeping.at = "sleeping"
      /\ sleeping.result = calls[q].result /\ sleeping.attempt = calls[q].attempt
  BY <1>2 DEF Call
<1>5. /\ calls[q].attempt \in 0..MaxRetries /\ MaxRetries \in Nat
      /\ sends[link][pending[q]] = calls[q].attempt + 1
      /\ calls[q].result # Failed => calls[q].result = [by |-> link, row |-> pending[q]]
  BY <1>2, ConstantsAssumption DEF Call, CallOK
<1> HIDE DEF done, sleeping
<1>6. CASE Answered(q)
  <2> DEFINE answer == [by |-> link, row |-> pending[q]]
  <2>1. answer \in Result /\ answer # Failed
    BY <1>2, Results DEF Result
  <2>2. calls' = [calls EXCEPT ![q] = done(answer)] /\ refused' = refused
    BY <1>6 DEF Answered, Done, done
  <2>3. calls'[q] = done(answer)
    BY <1>1, <1>3, <2>1, <2>2, CallChange
  <2>4. CallOK(q)'
    BY <1>1, <1>3, <1>5, <2>1, <2>3 DEF CallOK
  <2> QED
    BY <1>1, <1>2, <1>3, <2>1, <2>2, <2>4, ResponseKeeps
<1>7. CASE Refused(q)
  <2>1. calls' = [calls EXCEPT ![q] = done(Failed)] /\ refused' = refused \union {<<link, pending[q]>>}
    BY <1>7 DEF Refused, Done, done
  <2>2. calls'[q] = done(Failed)
    BY <1>1, <1>3, <2>1, Results, CallChange
  <2>3. CallOK(q)'
    BY <1>1, <1>3, <1>5, <2>1, <2>2 DEF CallOK, Exhausted
  <2>4. refused \subseteq refused' /\ refused' \subseteq Link \X Row
    BY <1>2, <2>1
  <2> QED
    BY <1>1, <1>2, <1>3, <2>1, <2>3, <2>4, Results, ResponseKeeps
<1>8. CASE Throttled(q)
  <2>1. GiveUp(q) /\ refused' = refused
    BY <1>8 DEF Throttled
  <2>2. CASE calls[q].attempt < MaxRetries
    <3>1. calls' = [calls EXCEPT ![q] = sleeping]
      BY <2>1, <2>2 DEF GiveUp, sleeping
    <3>2. calls'[q] = sleeping
      BY <1>1, <1>4, <3>1, CallChange
    <3>3. CallOK(q)'
      BY <1>1, <1>4, <1>5, <2>2, <3>2 DEF CallOK
    <3> QED
      BY <1>1, <1>2, <1>4, <2>1, <3>1, <3>3, ResponseKeeps
  <2>3. CASE ~(calls[q].attempt < MaxRetries)
    <3>1. calls' = [calls EXCEPT ![q] = done(Failed)]
      BY <2>1, <2>3 DEF GiveUp, Done, done
    <3>2. calls'[q] = done(Failed)
      BY <1>1, <1>3, <3>1, Results, CallChange
    <3>3. sends[link][pending[q]] = MaxRetries + 1
      BY <1>5, <2>3
    <3>4. CallOK(q)'
      BY <1>1, <1>3, <1>5, <3>2, <3>3 DEF CallOK, Exhausted
    <3> QED
      BY <1>1, <1>2, <1>3, <2>1, <3>1, <3>4, Results, ResponseKeeps
  <2> QED
    BY <2>2, <2>3
<1> QED
  BY <1>6, <1>7, <1>8 DEF Respond
-----------------------------------------------------------------------------
LEMMA CollectKeeps ==
  ASSUME IInv, Collect
  PROVE  IInv'
<1> DEFINE q == Len(outcomes) + 1
<1>1. /\ Honest /\ Working /\ link \in Link /\ Aligned
      /\ Len(calls) \in Nat /\ Len(pending) \in Nat /\ Len(outcomes) \in Nat
      /\ \A p \in 1..Len(calls) : p \in 1..Len(pending) /\ calls[p] \in Call
      /\ \A p \in 1..Len(outcomes) : outcomes[p] # Failed => outcomes[p].by = link
  BY HonestFacts DEF Collect
<1>2. /\ q \in 1..Len(calls) /\ calls[q].at = "done"
      /\ outcomes' = Append(outcomes, calls[q].result)
      /\ stage' = IF Len(outcomes') = Len(pending) THEN "answered" ELSE "asking"
      /\ UNCHANGED <<link, pending, calls, slots, sends, refused>>
  BY <1>1 DEF Collect
<1>3. /\ calls[q].result \in Result
      /\ calls[q].result # Failed => calls[q].result.by = link
  <2>1. calls[q] \in Call /\ CallOK(q)
    BY <1>1, <1>2 DEF Aligned
  <2>2. calls[q].result \in Result
    BY <2>1 DEF Call
  <2>3. calls[q].result # Failed => calls[q].result = [by |-> link, row |-> pending[q]]
    BY <2>1 DEF CallOK
  <2> QED
    BY <2>2, <2>3
<1>4. outcomes \in Seq(Result)
  BY DEF IInv, TypeOK
<1>5. /\ outcomes' \in Seq(Result) /\ Len(outcomes') = q
      /\ \A p \in 1..Len(outcomes) : outcomes'[p] = outcomes[p]
      /\ outcomes'[q] = calls[q].result
  BY <1>2, <1>3, <1>4
<1>6. Working' /\ stage' # "returned"
  BY <1>2 DEF Working
<1>7. TypeOK'
  BY <1>2, <1>5 DEF IInv, TypeOK
<1>8. stage # "returned"
  BY <1>1 DEF Working
<1>9. Order' /\ Open' /\ Finished' /\ Unasked' /\ Exhaustion' /\ Failures'
  BY <1>1, <1>2, <1>6, <1>8
     DEF IInv, Order, Open, Finished, Unasked, Exhaustion, Exhausted, Failures
<1>10. OwnAnswers' /\ AnsweredNotAskedAgain' /\ FallbackAfterExhaustion'
  BY <1>2 DEF IInv, OwnAnswers, AnsweredNotAskedAgain, FallbackAfterExhaustion
<1>11. \A p \in 1..Len(calls) : CallOK(p)'
  BY <1>1, <1>2 DEF Aligned, CallOK, Exhausted
<1>12. \A p \in 1..Len(outcomes') :
         /\ calls[p].at = "done" /\ outcomes'[p] = calls[p].result
         /\ outcomes'[p] # Failed => outcomes'[p].by = link
  <2> SUFFICES ASSUME NEW p \in 1..q
               PROVE  /\ calls[p].at = "done" /\ outcomes'[p] = calls[p].result
                      /\ outcomes'[p] # Failed => outcomes'[p].by = link
    BY <1>5
  <2>1. CASE p = q
    BY <1>2, <1>3, <1>5, <2>1
  <2>2. CASE p # q
    <3>1. p \in 1..Len(outcomes)
      BY <1>1, <2>2
    <3> QED
      BY <1>1, <1>5, <3>1 DEF Aligned
  <2> QED
    BY <2>1, <2>2
<1>13. Aligned'
  BY <1>1, <1>2, <1>5, <1>11, <1>12 DEF Aligned
<1>14. Buffer'
  BY <1>1, <1>2, <1>12, <1>13 DEF Buffer
<1> QED
  BY <1>7, <1>9, <1>10, <1>14 DEF IInv

LEMMA MisreportKeeps ==
  ASSUME IInv, Misreport
  PROVE  IInv'
<1>1. /\ link \in Sloppy /\ stage = "asking" /\ stage' = "answered"
      /\ UNCHANGED <<link, pending, calls, slots, sends, refused>>
  BY DEF Misreport
<1>2. Working /\ Working' /\ link \in Link
  BY <1>1 DEF Working, IInv, Buffer
<1>3. PICK n \in 0..(Len(pending) + 1) :
        outcomes' \in [1..n -> {Failed} \union [by : {link}, row : Row]]
  BY DEF Misreport
<1>4. n \in Nat
  BY <1>3 DEF IInv, TypeOK
<1>5. {Failed} \union [by : {link}, row : Row] \subseteq Result
  BY <1>2, Results DEF Result, Answer
<1>6. outcomes' \in Seq(Result) /\ Len(outcomes') = n
  BY <1>3, <1>4, <1>5
<1>7. \A p \in 1..Len(outcomes') : outcomes'[p] # Failed => outcomes'[p].by = link
  BY <1>3, <1>6
<1>8. TypeOK'
  BY <1>1, <1>6 DEF IInv, TypeOK
<1>9. Order' /\ Open' /\ Finished' /\ Unasked' /\ Exhaustion' /\ Failures'
  BY <1>1, <1>2 DEF IInv, Order, Open, Finished, Unasked, Exhaustion, Exhausted, Failures
<1>10. OwnAnswers' /\ AnsweredNotAskedAgain' /\ FallbackAfterExhaustion'
  BY <1>1 DEF IInv, OwnAnswers, AnsweredNotAskedAgain, FallbackAfterExhaustion
<1>11. Buffer'
  BY <1>1, <1>2, <1>7 DEF Buffer
<1> QED
  BY <1>8, <1>9, <1>10, <1>11 DEF IInv
-----------------------------------------------------------------------------
(* What the chain makes of the results of a link: the row at position p    *)
(* gets its own result when it is settled, and every other row keeps what  *)
(* it has.                                                                 *)
LEMMA ApplyEffect ==
  ASSUME IInv, Apply
  PROVE  /\ link \in Link /\ Len(pending) \in Nat /\ \A p \in 1..Len(pending) : pending[p] \in Row
         /\ Positions(Resized) = 1..Len(pending)
         /\ \A p \in 1..Len(pending) : Resized[p] \in Result
         /\ \A p \in 1..Len(pending) : Resized[p] # Failed => Resized[p].by = link
         /\ \A p \in 1..Len(pending) :
              slots'[pending[p]] = IF Settled(Resized, p) THEN Resized[p] ELSE NoResult
         /\ \A r \in Row :
              (\A p \in 1..Len(pending) : pending[p] # r) => slots'[r] = slots[r]
<1>1. Working /\ link \in Link
  BY DEF Apply, Working, IInv, Buffer
<1>2. Len(pending) \in Nat /\ Len(outcomes) \in Nat /\ \A p \in 1..Len(pending) : pending[p] \in Row
  BY DEF IInv, TypeOK
<1>3. Len(Resized) = Len(pending)
  BY <1>2 DEF Resized
<1>4. Positions(Resized) = 1..Len(pending)
  BY <1>3 DEF Positions
<1>5. \A p \in 1..Len(pending) :
        Resized[p] = IF p <= Len(outcomes) THEN outcomes[p] ELSE Failed
  BY DEF Resized
<1>6. \A p \in 1..Len(pending) : Resized[p] \in Result
  <2>1. \A p \in 1..Len(outcomes) : outcomes[p] \in Result
    BY DEF IInv, TypeOK
  <2>2. \A p \in 1..Len(pending) : p <= Len(outcomes) => p \in 1..Len(outcomes)
    BY <1>2
  <2> QED
    BY <1>5, <2>1, <2>2, Results
<1>7. \A p \in 1..Len(pending) : Resized[p] # Failed => Resized[p].by = link
  BY <1>1, <1>2, <1>5 DEF IInv, Buffer
<1>8. slots' = [r \in Row |->
                  IF \E p \in 1..Len(pending) : pending[p] = r /\ Settled(Resized, p)
                  THEN Resized[CHOOSE p \in 1..Len(pending) : pending[p] = r]
                  ELSE slots[r]]
  BY <1>4 DEF Apply
<1>9. ASSUME NEW p \in 1..Len(pending)
      PROVE  slots'[pending[p]] = IF Settled(Resized, p) THEN Resized[p] ELSE NoResult
  <2>1. \A n \in 1..Len(pending) : pending[n] = pending[p] => n = p
    BY Distinct DEF IInv
  <2>2. (CHOOSE n \in 1..Len(pending) : pending[n] = pending[p]) = p
    BY <2>1
  <2>3. slots[pending[p]] = NoResult /\ pending[p] \in Row
    BY <1>1, NoneFailed
  <2>4. slots'[pending[p]] =
          IF \E n \in 1..Len(pending) : pending[n] = pending[p] /\ Settled(Resized, n)
          THEN Resized[CHOOSE n \in 1..Len(pending) : pending[n] = pending[p]]
          ELSE slots[pending[p]]
    BY <1>8, <2>3
  <2>5. (\E n \in 1..Len(pending) : pending[n] = pending[p] /\ Settled(Resized, n))
           <=> Settled(Resized, p)
    BY <2>1
  <2> QED
    BY <2>2, <2>3, <2>4, <2>5
<1>10. \A r \in Row : (\A p \in 1..Len(pending) : pending[p] # r) => slots'[r] = slots[r]
  BY <1>8
<1> QED
  BY <1>1, <1>2, <1>4, <1>6, <1>7, <1>9, <1>10

(* The rows that stay pending are those the link failed on, unless it is   *)
(* the last.                                                               *)
LEMMA ApplyPending ==
  ASSUME IInv, Apply
  PROVE  /\ pending' \in Seq(Row)
         /\ \A m, n \in 1..Len(pending') : m < n => pending'[m] < pending'[n]
         /\ \A n \in 1..Len(pending') : \E p \in 1..Len(pending) :
              pending'[n] = pending[p] /\ ~Settled(Resized, p)
         /\ \A p \in 1..Len(pending) : ~Settled(Resized, p) =>
              \E n \in 1..Len(pending') : pending'[n] = pending[p]
         /\ link = Links => pending' = <<>>
<1> DEFINE S == IF link = Links THEN {} ELSE StillPending(Resized)
<1>1. /\ Positions(Resized) = 1..Len(pending)
      /\ \A p \in 1..Len(pending) : pending[p] \in Row
  BY ApplyEffect
<1>2. S = {pending[p] : p \in {n \in 1..Len(pending) : ~Settled(Resized, n)}}
  BY <1>1 DEF StillPending, Settled
<1>3. S \in SUBSET Row
  BY <1>1, <1>2
<1>4. pending' \in InOrder(S)
  BY DEF Apply
<1> HIDE DEF S
<1>5. /\ pending' \in Seq(Row)
      /\ \A n \in 1..Len(pending') : pending'[n] \in S
      /\ \A m, n \in 1..Len(pending') : m < n => pending'[m] < pending'[n]
      /\ \A r \in S : \E n \in 1..Len(pending') : pending'[n] = r
  BY <1>3, <1>4, Ordered
<1>6. link = Links => Len(pending') = 0
  <2> SUFFICES ASSUME link = Links, Len(pending') # 0 PROVE FALSE
    OBVIOUS
  <2>1. S = {}
    BY <1>2 DEF Settled
  <2>2. 1 \in 1..Len(pending')
    BY <1>5
  <2> QED
    BY <1>5, <2>1, <2>2
<1>7. link = Links => pending' = <<>>
  BY <1>5, <1>6
<1>8. \A n \in 1..Len(pending') : \E p \in 1..Len(pending) :
        pending'[n] = pending[p] /\ ~Settled(Resized, p)
  <2> SUFFICES ASSUME NEW n \in 1..Len(pending')
               PROVE  \E p \in 1..Len(pending) : pending'[n] = pending[p] /\ ~Settled(Resized, p)
    OBVIOUS
  <2>1. pending'[n] \in S
    BY <1>5
  <2> QED
    BY <1>2, <2>1
<1>9. \A p \in 1..Len(pending) : ~Settled(Resized, p) =>
        \E n \in 1..Len(pending') : pending'[n] = pending[p]
  <2> SUFFICES ASSUME NEW p \in 1..Len(pending), ~Settled(Resized, p)
               PROVE  \E n \in 1..Len(pending') : pending'[n] = pending[p]
    OBVIOUS
  <2>1. pending[p] \in S
    BY <1>2
  <2> QED
    BY <1>5, <2>1
<1> QED
  BY <1>5, <1>7, <1>8, <1>9

(* What a link that keeps its promise reports of the row at position p.    *)
LEMMA HonestReport ==
  ASSUME IInv, Apply, link \notin Sloppy, NEW p \in 1..Len(pending)
  PROVE  /\ Resized[p] # Failed => Resized[p] = [by |-> link, row |-> pending[p]]
         /\ Resized[p] = Failed => Exhausted(link, pending[p])
         /\ sends[link][pending[p]] > 0
<1>1. Aligned /\ stage = "answered"
  BY DEF IInv, Buffer, Apply, Working
<1>2. Len(outcomes) = Len(pending) /\ Len(calls) = Len(pending)
  BY <1>1 DEF Aligned, IInv, TypeOK
<1>3. CallOK(p) /\ calls[p].at = "done" /\ outcomes[p] = calls[p].result
  BY <1>1, <1>2 DEF Aligned
<1>4. Resized[p] = calls[p].result
  BY <1>2, <1>3 DEF Resized, IInv, TypeOK
<1>5. calls[p] \in Call
  BY <1>2 DEF IInv, TypeOK
<1>6. calls[p].attempt \in Nat
  BY <1>5, ConstantsAssumption DEF Call
<1> QED
  BY <1>3, <1>4, <1>6 DEF CallOK

LEMMA ApplyKeeps ==
  ASSUME IInv, Apply
  PROVE  IInv'
<1>1. /\ stage' = "choosing" /\ ~Working' /\ Working
      /\ UNCHANGED <<link, calls, outcomes, sends, refused>>
  BY DEF Apply, Working
<1>2. /\ link \in Link /\ Len(pending) \in Nat /\ \A p \in 1..Len(pending) : pending[p] \in Row
      /\ \A p \in 1..Len(pending) : Resized[p] \in Result
      /\ \A p \in 1..Len(pending) : Resized[p] # Failed => Resized[p].by = link
      /\ \A p \in 1..Len(pending) :
           slots'[pending[p]] = IF Settled(Resized, p) THEN Resized[p] ELSE NoResult
      /\ \A r \in Row :
           (\A p \in 1..Len(pending) : pending[p] # r) => slots'[r] = slots[r]
  BY ApplyEffect
<1>3. /\ pending' \in Seq(Row)
      /\ \A m, n \in 1..Len(pending') : m < n => pending'[m] < pending'[n]
      /\ \A n \in 1..Len(pending') : \E p \in 1..Len(pending) :
           pending'[n] = pending[p] /\ ~Settled(Resized, p)
      /\ \A p \in 1..Len(pending) : ~Settled(Resized, p) =>
           \E n \in 1..Len(pending') : pending'[n] = pending[p]
      /\ link = Links => pending' = <<>>
  BY ApplyPending
<1>4. ASSUME NEW r \in Row
      PROVE  \/ \E p \in 1..Len(pending) :
                  /\ pending[p] = r
                  /\ slots'[r] = IF Settled(Resized, p) THEN Resized[p] ELSE NoResult
             \/ /\ \A p \in 1..Len(pending) : pending[p] # r
                /\ slots'[r] = slots[r]
  BY <1>2
<1>5. TypeOK'
  <2>1. \A r \in Row : slots'[r] \in Result \union {NoResult}
    BY <1>2, <1>4 DEF IInv, TypeOK
  <2>2. slots' = [r \in Row |-> slots'[r]]
    BY DEF Apply
  <2> QED
    BY <1>1, <1>3, <2>1, <2>2 DEF IInv, TypeOK
<1>6. Order'
  BY <1>3 DEF Order
<1>7. Open'
  <2> SUFFICES ASSUME NEW r \in Row
               PROVE  slots'[r] = NoResult <=> \E n \in 1..Len(pending') : pending'[n] = r
    BY DEF Open
  <2>1. CASE \A p \in 1..Len(pending) : pending[p] # r
    <3>1. slots'[r] = slots[r] /\ slots[r] # NoResult
      BY <1>1, <1>2, <2>1, NoneFailed DEF IInv, Open
    <3>2. ~\E n \in 1..Len(pending') : pending'[n] = r
      BY <1>3, <2>1
    <3> QED
      BY <3>1, <3>2
  <2>2. ASSUME NEW p \in 1..Len(pending), pending[p] = r
        PROVE  slots'[r] = NoResult <=> \E n \in 1..Len(pending') : pending'[n] = r
    <3>1. slots'[r] = NoResult <=> ~Settled(Resized, p)
      BY <1>2, <2>2, Results
    <3>2. ~Settled(Resized, p) => \E n \in 1..Len(pending') : pending'[n] = r
      BY <1>3, <2>2
    <3>3. ASSUME NEW n \in 1..Len(pending'), pending'[n] = r
          PROVE  ~Settled(Resized, p)
      <4>1. PICK q \in 1..Len(pending) : pending'[n] = pending[q] /\ ~Settled(Resized, q)
        BY <1>3
      <4>2. q = p
        BY <2>2, <3>3, <4>1, Distinct DEF IInv
      <4> QED
        BY <4>1, <4>2
    <3> QED
      BY <3>1, <3>2, <3>3
  <2> QED
    BY <2>1, <2>2
<1>8. Finished' /\ Unasked' /\ Buffer'
  BY <1>1, <1>3 DEF IInv, Finished, Unasked, Buffer
<1>9. Exhaustion'
  <2> SUFFICES ASSUME NEW n \in 1..Len(pending'), NEW m \in Link \ Sloppy, m < link \/ m = link
               PROVE  Exhausted(m, pending'[n])
    BY <1>1 DEF Exhaustion, Exhausted
  <2>1. PICK p \in 1..Len(pending) : pending'[n] = pending[p] /\ ~Settled(Resized, p)
    BY <1>3
  <2>2. CASE m < link
    BY <2>1, <2>2 DEF IInv, Exhaustion
  <2>3. CASE m = link
    BY <2>1, <2>3, HonestReport DEF Settled
  <2> QED
    BY <2>2, <2>3
<1>10. Failures'
  <2> SUFFICES ASSUME NEW r \in Row, slots'[r] = Failed
               PROVE  link = Links /\ (Links \notin Sloppy => sends[Links][r] > 0)
    BY <1>1 DEF Failures
  <2>1. PICK p \in 1..Len(pending) :
          /\ pending[p] = r
          /\ slots'[r] = IF Settled(Resized, p) THEN Resized[p] ELSE NoResult
    BY <1>1, <1>4, NoneFailed
  <2>2. Settled(Resized, p) /\ Resized[p] = Failed
    BY <2>1, Results
  <2> QED
    BY <2>1, <2>2, HonestReport DEF Settled
<1>11. ASSUME NEW r \in Row, slots'[r] \in Answer
       PROVE  \/ slots'[r] = slots[r]
              \/ \E p \in 1..Len(pending) :
                   /\ pending[p] = r /\ slots'[r] = Resized[p]
                   /\ Resized[p] # Failed /\ slots'[r].by = link
  <2>1. slots'[r] # NoResult /\ slots'[r] # Failed
    BY <1>11, Results DEF Result
  <2> QED
    BY <1>2, <1>4, <2>1
<1>12. OwnAnswers'
  <2> SUFFICES ASSUME NEW r \in Row, slots'[r] \in Answer, slots'[r].by \notin Sloppy
               PROVE  slots'[r].row = r
    BY DEF OwnAnswers
  <2>1. CASE slots'[r] = slots[r]
    BY <2>1 DEF IInv, OwnAnswers
  <2>2. ASSUME NEW p \in 1..Len(pending), pending[p] = r, slots'[r] = Resized[p],
               Resized[p] # Failed, slots'[r].by = link
        PROVE  slots'[r].row = r
    <3>1. Resized[p] = [by |-> link, row |-> pending[p]]
      BY <2>2, HonestReport
    <3> QED
      BY <2>2, <3>1
  <2> QED
    BY <1>11, <2>1, <2>2
<1>13. AnsweredNotAskedAgain'
  <2> SUFFICES ASSUME NEW r \in Row, NEW m \in Link, slots'[r] \in Answer, slots'[r].by < m
               PROVE  sends[m][r] = 0
    BY <1>1 DEF AnsweredNotAskedAgain
  <2>1. CASE slots'[r] = slots[r]
    BY <2>1 DEF IInv, AnsweredNotAskedAgain
  <2>2. CASE slots'[r].by = link
    BY <2>2 DEF IInv, Unasked
  <2> QED
    BY <1>11, <2>1, <2>2
<1>14. FallbackAfterExhaustion'
  BY <1>1 DEF IInv, FallbackAfterExhaustion
<1> QED
  BY <1>5, <1>6, <1>7, <1>8, <1>9, <1>10, <1>12, <1>13, <1>14 DEF IInv
-----------------------------------------------------------------------------
LEMMA StutterKeeps ==
  ASSUME IInv, UNCHANGED vars
  PROVE  IInv'
  BY DEF vars, IInv, TypeOK, Order, Open, Finished, Unasked, Buffer, Aligned, CallOK, Working,
         Exhaustion, Exhausted, Failures, OwnAnswers, AnsweredNotAskedAgain,
         FallbackAfterExhaustion

LEMMA NextKeeps ==
  ASSUME IInv, [Next]_vars
  PROVE  IInv'
  BY AskKeeps, ReturnKeeps, LaunchKeeps, CollectKeeps, MisreportKeeps, ApplyKeeps,
     RespondKeeps, RetryKeeps, StutterKeeps DEF Next

(* The inductive invariant: Open and Buffer tie every row to one position  *)
(* of the batch and to one request, whatever order requests end in.        *)
THEOREM Inductive == Spec => []IInv
  BY InitHolds, NextKeeps, PTL DEF Spec

(* Every value keeps its type (fallback.rs, mod.rs).                       *)
THEOREM TypeCorrect == Spec => []TypeOK
<1>1. IInv => TypeOK
  BY DEF IInv
<1> QED
  BY <1>1, Inductive, PTL

(* A row never gets another row's completion (fallback.rs 94-113,          *)
(* complete_concurrently in mod.rs).                                       *)
THEOREM OwnAnswersAlways == Spec => []OwnAnswers
<1>1. IInv => OwnAnswers
  BY DEF IInv
<1> QED
  BY <1>1, Inductive, PTL

(* A row answered by one link costs nothing further down the chain         *)
(* (fallback.rs 74-80 and 94-113).                                         *)
THEOREM AnsweredOnce == Spec => []AnsweredNotAskedAgain
<1>1. IInv => AnsweredNotAskedAgain
  BY DEF IInv
<1> QED
  BY <1>1, Inductive, PTL

(* A later link hears of a row only when the earlier ones are exhausted    *)
(* (send_with_retry in mod.rs under the loop of fallback.rs).              *)
THEOREM FallbackIsLast == Spec => []FallbackAfterExhaustion
<1>1. IInv => FallbackAfterExhaustion
  BY DEF IInv
<1> QED
  BY <1>1, Inductive, PTL

(* A row that fails was asked of the last link (the resize of fallback.rs  *)
(* 83-92).                                                                 *)
THEOREM NoRowDropped == Spec => []LastLinkAsked
<1>1. IInv => LastLinkAsked
  BY DEF IInv, Failures, LastLinkAsked
<1> QED
  BY <1>1, Inductive, PTL
-----------------------------------------------------------------------------
LEMMA InitImplements ==
  ASSUME Init
  PROVE  Chain!ChainInit
<1>1. \A r \in Row : Named(r) = 0
  BY Results DEF Init, Named
<1>2. chainAnswer = [r \in Row |-> 0]
  BY <1>1 DEF chainAnswer
<1>3. chainTurn = 0
  BY DEF Init, chainTurn
<1> QED
  BY <1>2, <1>3 DEF Chain!ChainInit, Row

(* Taking the results of a link is a round of the contract: the link       *)
(* answers the rows it completed, and the last link fails the others.      *)
LEMMA ApplyImplements ==
  ASSUME IInv, Apply
  PROVE  Chain!Round
<1> DEFINE some == {r \in Row : \E p \in 1..Len(pending) : pending[p] = r /\ Resized[p] # Failed}
<1>1. /\ link \in Link /\ Len(pending) \in Nat /\ \A p \in 1..Len(pending) : pending[p] \in Row
      /\ \A p \in 1..Len(pending) :
           slots'[pending[p]] = IF Settled(Resized, p) THEN Resized[p] ELSE NoResult
      /\ \A r \in Row :
           (\A p \in 1..Len(pending) : pending[p] # r) => slots'[r] = slots[r]
  BY ApplyEffect
<1>2. Working /\ ~Working' /\ link' = link /\ stage # "returned"
  BY DEF Apply, Working
<1>3. link \in Nat /\ Links \in Nat /\ link >= 1 /\ link <= Links
  BY <1>1, ConstantsAssumption DEF Link
<1>4. chainTurn = link - 1 /\ chainTurn' = link
  BY <1>2 DEF chainTurn, Working
<1>5. chainTurn < Links /\ chainTurn' = chainTurn + 1 /\ chainTurn + 1 = link
  BY <1>3, <1>4
<1>6. \A r \in Row : slots[r] \in Result \union {NoResult} /\ slots'[r] \in Result \union {NoResult}
  BY ApplyKeeps DEF IInv, TypeOK
<1>7. \A r \in Row : Named(r) = 0 <=> slots[r] = NoResult
  BY <1>3, <1>6, Results DEF Named, Result, Answer, Link
<1>8. \A p \in 1..Len(pending) :
         Resized[p] \in Result /\ (Resized[p] # Failed => Resized[p].by = link)
  BY ApplyEffect
<1>9. some \in SUBSET {r \in Row : chainAnswer[r] = 0}
  <2> SUFFICES ASSUME NEW r \in some
               PROVE  chainAnswer[r] = 0
    OBVIOUS
  <2>1. slots[r] = NoResult
    BY <1>2, NoneFailed
  <2> QED
    BY <1>7, <2>1 DEF chainAnswer
<1>10. ASSUME NEW r \in Row
      PROVE  Named(r)' = IF r \in some THEN link
                         ELSE IF chainAnswer[r] = 0 /\ link = Links THEN Links + 1
                         ELSE chainAnswer[r]
  <2>1. chainAnswer[r] = Named(r)
    BY DEF chainAnswer
  <2>2. CASE \A p \in 1..Len(pending) : pending[p] # r
    <3>1. slots'[r] = slots[r] /\ slots[r] # NoResult /\ r \notin some
      BY <1>1, <1>2, <2>2 DEF IInv, Open
    <3>2. Named(r)' = Named(r)
      BY <3>1 DEF Named
    <3> QED
      BY <1>7, <2>1, <3>1, <3>2
  <2>3. ASSUME NEW p \in 1..Len(pending), pending[p] = r
        PROVE  Named(r)' = IF r \in some THEN link
                           ELSE IF chainAnswer[r] = 0 /\ link = Links THEN Links + 1
                           ELSE chainAnswer[r]
    <3>1. slots[r] = NoResult /\ chainAnswer[r] = 0
      BY <1>2, <1>7, <2>1, <2>3, NoneFailed
    <3>2. slots'[r] = IF Settled(Resized, p) THEN Resized[p] ELSE NoResult
      BY <1>1, <2>3
    <3>3. CASE Resized[p] # Failed
      <4>1. r \in some
        BY <2>3, <3>3
      <4>2. slots'[r] = Resized[p]
        BY <3>2, <3>3 DEF Settled
      <4>3. slots'[r].by = link /\ (link \notin Sloppy => slots'[r].row = r)
        <5>1. link \notin Sloppy => slots'[r] = [by |-> link, row |-> r]
          BY <2>3, <3>3, <4>2, HonestReport
        <5> QED
          BY <1>8, <3>3, <4>2, <5>1
      <4>4. slots'[r] # NoResult /\ slots'[r] # Failed
        BY <1>8, <3>3, <4>2, Results
      <4> QED
        BY <4>1, <4>3, <4>4 DEF Named
    <3>4. CASE Resized[p] = Failed
      <4>1. r \notin some
        BY <2>3, <3>4, Distinct DEF IInv
      <4>2. CASE link = Links
        <5>1. slots'[r] = Failed
          BY <3>2, <3>4, <4>2 DEF Settled
        <5> QED
          BY <3>1, <4>1, <4>2, <5>1, Results DEF Named
      <4>3. CASE link # Links
        <5>1. slots'[r] = NoResult
          BY <3>2, <3>4, <4>3 DEF Settled
        <5>2. Named(r)' = 0
          BY <5>1, Results DEF Named
        <5> QED
          BY <3>1, <4>1, <4>3, <5>2
      <4> QED
        BY <4>2, <4>3
    <3> QED
      BY <3>3, <3>4
  <2> QED
    BY <2>2, <2>3
<1>11. chainAnswer' = [r \in Row |-> IF r \in some THEN link
                                    ELSE IF chainAnswer[r] = 0 /\ link = Links THEN Links + 1
                                    ELSE chainAnswer[r]]
  BY <1>10 DEF chainAnswer
<1> HIDE DEF some
<1> QED
  BY <1>5, <1>9, <1>11 DEF Chain!Round, Row

(* Every other step changes neither the results nor the turn.              *)
LEMMA StepImplements ==
  ASSUME IInv, [Next]_vars
  PROVE  [Chain!Round]_<<chainAnswer, chainTurn>>
<1>1. slots' = slots => chainAnswer' = chainAnswer
  BY DEF chainAnswer, Named
<1>2. link \in Nat
  BY ConstantsAssumption DEF IInv, TypeOK
<1>3. CASE Ask
  BY <1>1, <1>2, <1>3 DEF Ask, chainTurn
<1>4. CASE Return
  BY <1>1, <1>4, AllResolved DEF Return, chainTurn
<1>5. CASE Launch \/ Collect \/ Misreport \/ (\E p \in 1..Rows : Respond(p) \/ Retry(p))
  <2>1. /\ slots' = slots /\ link' = link /\ stage = "asking"
        /\ stage' \in {"asking", "answered"}
    BY <1>5 DEF Launch, Collect, Misreport, Respond, Answered, Refused, Throttled, Retry, Honest
  <2> QED
    BY <1>1, <2>1 DEF chainTurn
<1>6. CASE Apply
  BY <1>6, ApplyImplements
<1>7. CASE UNCHANGED vars
  BY <1>1, <1>7 DEF vars, chainTurn
<1> QED
  BY <1>3, <1>4, <1>5, <1>6, <1>7 DEF Next

(* The chain with its buffers, retries and positions implements the        *)
(* contract of model/fallback.rs, whatever links that break their promise  *)
(* return.                                                                 *)
THEOREM Implements == Spec => ImplementsChain
<1>1. Init => Chain!ChainInit
  BY InitImplements
<1>2. IInv /\ [Next]_vars => [Chain!Round]_<<chainAnswer, chainTurn>>
  BY StepImplements
<1> QED
  BY <1>1, <1>2, Inductive, PTL DEF Spec, ImplementsChain, Chain!ChainSpec
=============================================================================
