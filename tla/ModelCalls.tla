----------------------------- MODULE ModelCalls -----------------------------
(***************************************************************************)
(* One batch of completion requests: the chain of models that cover for    *)
(* one another (model/fallback.rs), the bounded concurrency with which a   *)
(* provider sends its share (complete_concurrently in model/mod.rs) and    *)
(* the retries of a single request (send_with_retry).                      *)
(*                                                                         *)
(* Rows are indices into the batch; a chain of one link is a provider      *)
(* without fallbacks.  Responses come in any order, or never: no provider  *)
(* sets a timeout.                                                         *)
(***************************************************************************)
EXTENDS Integers, Sequences, FiniteSets

CONSTANTS
  Rows,         \* requests in the batch
  Links,        \* models in the chain
  Sloppy,       \* links whose provider may return the wrong number of results
  MaxInFlight,  \* MAX_IN_FLIGHT
  MaxRetries    \* MAX_RETRIES

ASSUME ConstantsAssumption ==
  /\ Rows \in Nat
  /\ Links \in Nat \ {0}
  /\ Sloppy \subseteq 1..Links
  /\ MaxInFlight \in Nat \ {0}
  /\ MaxRetries \in Nat

VARIABLES
  stage,    \* "choosing" a link, "asking" it, "answered" by it, "returned"
  link,     \* the link asked last
  pending,  \* rows still looking for an answer, in order
  calls,    \* requests launched to the link, by position in its batch
  outcomes, \* results it has returned so far, in order
  slots,    \* result per row
  sends,    \* history: HTTP requests per link and row
  refused   \* history: <<link, row>> that got an answer not worth a retry

vars == <<stage, link, pending, calls, outcomes, slots, sends, refused>>

Row == 1..Rows
Link == 1..Links

(* A completion is identified by the link and the row it answers.          *)
Answer == [by : Link, row : Row]
Failed == [by |-> 0, row |-> 0]
NoResult == [by |-> 0, row |-> 1]
Result == Answer \union {Failed}

(* A request is "flying", "sleeping" before its next attempt, or "done".   *)
Call == [at : {"flying", "sleeping", "done"}, attempt : 0..MaxRetries, result : Result]
NewCall == [at |-> "flying", attempt |-> 0, result |-> Failed]

(* The rows of S in the order of the batch.                                *)
InOrder(S) ==
  {s \in [1..Cardinality(S) -> S] :
     /\ \A m, n \in 1..Cardinality(S) : m < n => s[m] < s[n]
     /\ \A r \in S : \E n \in 1..Cardinality(S) : s[n] = r}
-----------------------------------------------------------------------------
Init ==
  /\ stage = "choosing"
  /\ link = 0
  /\ pending \in InOrder(Row)
  /\ calls = <<>>
  /\ outcomes = <<>>
  /\ slots = [r \in Row |-> NoResult]
  /\ sends = [m \in Link |-> [r \in Row |-> 0]]
  /\ refused = {}

(* The loop over the models: the next one gets what is pending.            *)
Ask ==
  /\ stage = "choosing"
  /\ pending # <<>>
  /\ link < Links
  /\ stage' = "asking"
  /\ link' = link + 1
  /\ calls' = <<>>
  /\ outcomes' = <<>>
  /\ UNCHANGED <<pending, slots, sends, refused>>

Return ==
  /\ stage = "choosing"
  /\ pending = <<>> \/ link = Links
  /\ stage' = "returned"
  /\ slots' = [r \in Row |-> IF slots[r] = NoResult THEN Failed ELSE slots[r]]
  /\ UNCHANGED <<link, pending, calls, outcomes, sends, refused>>
-----------------------------------------------------------------------------
(***************************************************************************)
(* A provider: complete_concurrently.                                      *)
(***************************************************************************)
Honest == stage = "asking" /\ link \notin Sloppy

Sent(p) == sends' = [sends EXCEPT ![link][pending[p]] = @ + 1]

(* Mutant: a finished request keeps its place in the buffer.               *)
LaunchUnfreed ==
  /\ Honest
  /\ Len(calls) < Len(pending)
  /\ Len(calls) < MaxInFlight
  /\ calls' = Append(calls, NewCall)
  /\ Sent(Len(calls) + 1)
  /\ UNCHANGED <<stage, link, pending, outcomes, slots, refused>>

(* The buffer holds what was launched and not collected, finished or not.  *)
Launch ==
  /\ Honest
  /\ Len(calls) < Len(pending)
  /\ Len(calls) - Len(outcomes) < MaxInFlight
  /\ calls' = Append(calls, NewCall)
  /\ Sent(Len(calls) + 1)
  /\ UNCHANGED <<stage, link, pending, outcomes, slots, refused>>

(* The request at position p ends.                                         *)
Done(p, result) ==
  calls' = [calls EXCEPT ![p] = [@ EXCEPT !.at = "done", !.result = result]]

(* A 2xx response with a usable body.                                      *)
Answered(p) ==
  /\ Honest /\ p \in 1..Len(calls) /\ calls[p].at = "flying"
  /\ Done(p, [by |-> link, row |-> pending[p]])
  /\ UNCHANGED <<stage, link, pending, outcomes, slots, sends, refused>>

(* A status that is not retryable, a refusal, or a body that does not      *)
(* parse.                                                                  *)
Refused(p) ==
  /\ Honest /\ p \in 1..Len(calls) /\ calls[p].at = "flying"
  /\ Done(p, Failed)
  /\ refused' = refused \union {<<link, pending[p]>>}
  /\ UNCHANGED <<stage, link, pending, outcomes, slots, sends>>

(* Mutant: one retry too few.                                              *)
GiveUpEarly(p) ==
  IF calls[p].attempt + 1 < MaxRetries
  THEN calls' = [calls EXCEPT ![p].at = "sleeping"]
  ELSE Done(p, Failed)

(* Mutant: one retry too many.                                             *)
GiveUpLate(p) ==
  IF calls[p].attempt <= MaxRetries
  THEN calls' = [calls EXCEPT ![p].at = "sleeping"]
  ELSE Done(p, Failed)

(* Another attempt after a pause, or the request fails.                    *)
GiveUp(p) ==
  IF calls[p].attempt < MaxRetries
  THEN calls' = [calls EXCEPT ![p].at = "sleeping"]
  ELSE Done(p, Failed)

(* A retryable status or a transport error.                                *)
Throttled(p) ==
  /\ Honest /\ p \in 1..Len(calls) /\ calls[p].at = "flying"
  /\ GiveUp(p)
  /\ UNCHANGED <<stage, link, pending, outcomes, slots, sends, refused>>

Retry(p) ==
  /\ Honest /\ p \in 1..Len(calls) /\ calls[p].at = "sleeping"
  /\ calls' = [calls EXCEPT ![p] = [NewCall EXCEPT !.attempt = calls[p].attempt + 1]]
  /\ Sent(p)
  /\ UNCHANGED <<stage, link, pending, outcomes, slots, refused>>

(* Mutant: results are taken as they complete, not in request order.       *)
CollectUnordered ==
  /\ Honest
  /\ \E p \in 1..Len(calls) :
       /\ calls[p].at = "done"
       /\ \A n \in 1..Len(outcomes) : outcomes[n] # calls[p].result
       /\ outcomes' = Append(outcomes, calls[p].result)
  /\ stage' = IF Len(outcomes') = Len(pending) THEN "answered" ELSE "asking"
  /\ UNCHANGED <<link, pending, calls, slots, sends, refused>>

(* The oldest request in the buffer is finished.                           *)
Collect ==
  /\ Honest
  /\ Len(outcomes) < Len(calls)
  /\ LET next == calls[Len(outcomes) + 1]
     IN  next.at = "done" /\ outcomes' = Append(outcomes, next.result)
  /\ stage' = IF Len(outcomes') = Len(pending) THEN "answered" ELSE "asking"
  /\ UNCHANGED <<link, pending, calls, slots, sends, refused>>

(* A provider that breaks the promise of one result per request.           *)
Misreport ==
  /\ stage = "asking" /\ link \in Sloppy
  /\ \E n \in 0..(Len(pending) + 1) :
       outcomes' \in [1..n -> {Failed} \union [by : {link}, row : Row]]
  /\ stage' = "answered"
  /\ UNCHANGED <<link, pending, calls, slots, sends, refused>>
-----------------------------------------------------------------------------
(***************************************************************************)
(* The chain takes the results of a link.                                  *)
(***************************************************************************)
(* Mutant: the list is taken as it is, and zip stops at the shorter one.   *)
AsReturned == outcomes

(* resize_with: short lists are filled up with errors, long ones cut.      *)
Resized ==
  [p \in 1..Len(pending) |-> IF p <= Len(outcomes) THEN outcomes[p] ELSE Failed]

(* The row at position p of the batch.                                     *)
Positions(results) == 1..(IF Len(results) < Len(pending) THEN Len(results) ELSE Len(pending))

(* Mutant: every row moves down the chain.                                 *)
AllPending(results) == {pending[p] : p \in Positions(results)}

(* Rows the link failed on.                                                *)
StillPending(results) ==
  {pending[p] : p \in {n \in Positions(results) : results[n] = Failed}}

(* Mutant: an error is the row's result at once, and the row moves on.     *)
SettledAtOnce(results, p) == TRUE

(* A completion is final; an error is when no link is left.                *)
Settled(results, p) == results[p] # Failed \/ link = Links

Apply ==
  /\ stage = "answered"
  /\ stage' = "choosing"
  /\ slots' = [r \in Row |->
                 IF \E p \in Positions(Resized) : pending[p] = r /\ Settled(Resized, p)
                 THEN Resized[CHOOSE p \in Positions(Resized) : pending[p] = r]
                 ELSE slots[r]]
  /\ pending' \in InOrder(IF link = Links THEN {} ELSE StillPending(Resized))
  /\ UNCHANGED <<link, calls, outcomes, sends, refused>>
-----------------------------------------------------------------------------
(* The provider's server responds to a request in flight.                  *)
Respond(p) == Answered(p) \/ Refused(p) \/ Throttled(p)

Next ==
  \/ Ask \/ Return \/ Launch \/ Collect \/ Misreport \/ Apply
  \/ \E p \in 1..Rows : Respond(p) \/ Retry(p)

Spec == Init /\ [][Next]_vars

(* The task is polled and its timers fire.  That responses arrive is an    *)
(* assumption about the providers.                                         *)
FairSpec ==
  /\ Spec
  /\ WF_vars(Ask \/ Return \/ Launch \/ Collect \/ Misreport \/ Apply)
  /\ \A p \in 1..Rows : WF_vars(Retry(p)) /\ WF_vars(Respond(p))
-----------------------------------------------------------------------------
(***************************************************************************)
(* Properties.                                                             *)
(***************************************************************************)
TypeOK ==
  /\ stage \in {"choosing", "asking", "answered", "returned"}
  /\ link \in 0..Links
  /\ pending \in Seq(Row)
  /\ calls \in Seq(Call)
  /\ outcomes \in Seq(Result)
  /\ slots \in [Row -> Result \union {NoResult}]
  /\ sends \in [Link -> [Row -> Nat]]
  /\ refused \subseteq Link \X Row

(* One result per request, in request order: a row gets the completion of  *)
(* its own request, although requests finish, are retried and are handed   *)
(* down in any order.                                                      *)
OwnAnswers ==
  \A r \in Row : slots[r] \in Answer /\ slots[r].by \notin Sloppy => slots[r].row = r

(* A row that is answered is never asked again further down the chain.     *)
AnsweredNotAskedAgain ==
  \A r \in Row, m \in Link :
    slots[r] \in Answer /\ slots[r].by < m => sends[m][r] = 0

(* A link is asked for a row only when every link before it really failed  *)
(* on it: refused it, or was throttled on every one of its attempts.       *)
FallbackAfterExhaustion ==
  \A r \in Row, n \in Link, m \in Link \ Sloppy :
    sends[n][r] > 0 /\ m < n => <<m, r>> \in refused \/ sends[m][r] = MaxRetries + 1

(* No row is dropped on the way: a row that fails was asked of the last    *)
(* link too, whatever a link before it returned.                           *)
LastLinkAsked ==
  \A r \in Row :
    stage = "returned" /\ slots[r] = Failed /\ Links \notin Sloppy => sends[Links][r] > 0

(* A batch returns when the providers respond, with retries, fallbacks and *)
(* a buffer that fills.                                                    *)
BatchReturns == <>(stage = "returned")

(***************************************************************************)
(* Refinement.                                                             *)
(***************************************************************************)
(* The result of a row as the contract names it.                           *)
Named(r) ==
  CASE slots[r] = NoResult -> 0
    [] slots[r] = Failed -> Links + 1
    [] OTHER -> IF slots[r].row = r \/ slots[r].by \in Sloppy THEN slots[r].by ELSE Links + 2

chainAnswer == [r \in Row |-> Named(r)]
chainTurn == IF stage \in {"asking", "answered"} THEN link - 1 ELSE link

Chain == INSTANCE AnswerChain WITH answer <- chainAnswer, turn <- chainTurn

(* Positions, buffering and retries change nothing the contract does not   *)
(* allow: a link answers the rows it is asked for with its own completions *)
(* of them, and only a link that breaks its promise may mix them up.       *)
ImplementsChain == Chain!ChainSpec
=============================================================================
