--------------------------- MODULE SessionsProofs ---------------------------
(***************************************************************************)
(* Proofs about Sessions, for every number of clients, channel capacity    *)
(* and set of query strings.                                               *)
(*                                                                         *)
(* The argument: at every moment what is on the wire, then the event in    *)
(* hand, then what is still in the channel make up what the engine sent,   *)
(* and hand and channel are empty whenever no statement runs, so that      *)
(* responses come after everything.                                        *)
(*                                                                         *)
(* What a plan keeps of its statement is a second invariant, PlannedInv:   *)
(* from the moment a statement is planned until it has run, the operators  *)
(* held for it ask the matches of its WHERE and take whole units of its    *)
(* types, and every registered type is sound. It survives the steps of     *)
(* other clients because registered types are never changed, only added.   *)
(***************************************************************************)
EXTENDS Sessions, SubsequenceProofs

Between == {"route", "respond", "ready"}

Streams(s) == \E Events : {s.wire, s.hand, s.channel, s.emitted, s.responses} \subseteq Seq(Events)

Ordered(s) ==
    /\ s.pc \in Between => Drained(s)
    /\ IF s.pc = "ready" THEN s.wire = s.emitted \o s.responses
                         ELSE s.wire \o s.hand \o s.channel = s.emitted

Good(s) == DOMAIN s = DOMAIN Fresh /\ Streams(s) /\ Ordered(s)

SessionInv == DOMAIN session = Clients /\ \A c \in Clients : Good(session[c])

-----------------------------------------------------------------------------
(* Sequences.                                                              *)
LEMMA Wider ==
  ASSUME NEW A, NEW B, NEW s \in Seq(A)
  PROVE  s \in Seq(A \union B)
<1>1. Len(s) \in Nat /\ s = [i \in 1 .. Len(s) |-> s[i]] /\ \A i \in 1 .. Len(s) : s[i] \in A
  OBVIOUS
<1> QED
  BY <1>1

LEMMA MoveHead ==
  ASSUME NEW E, NEW w \in Seq(E), NEW q \in Seq(E), q # <<>>
  PROVE  /\ Append(w, q[1]) \in Seq(E) /\ Tail(q) \in Seq(E)
         /\ Append(w, q[1]) \o Tail(q) = w \o q
<1>1. Append(w, q[1]) \in Seq(E) /\ Tail(q) \in Seq(E) /\ Len(q) \in Nat \ {0} /\ Len(w) \in Nat
  OBVIOUS
<1> DEFINE l == Append(w, q[1]) \o Tail(q)
           r == w \o q
<1>2. l \in Seq(E) /\ r \in Seq(E) /\ Len(l) = Len(w) + Len(q) /\ Len(r) = Len(w) + Len(q)
  BY <1>1
<1>3. \A i \in 1 .. Len(w) + Len(q) : l[i] = r[i]
  BY <1>1
<1> HIDE DEF l, r
<1>4. l = r
  BY <1>1, <1>2, <1>3
<1> QED
  BY <1>1, <1>4 DEF l, r

LEMMA AppendBehind ==
  ASSUME NEW E, NEW w \in Seq(E), NEW q \in Seq(E), NEW e \in E
  PROVE  w \o Append(q, e) = Append(w \o q, e)
<1>1. Len(q) \in Nat /\ Len(w) \in Nat
  OBVIOUS
<1> DEFINE l == w \o Append(q, e)
           r == Append(w \o q, e)
<1>2. l \in Seq(E) /\ r \in Seq(E) /\ Len(l) = Len(w) + Len(q) + 1 /\ Len(r) = Len(w) + Len(q) + 1
  BY <1>1
<1>3. \A i \in 1 .. Len(w) + Len(q) + 1 : l[i] = r[i]
  BY <1>1
<1> HIDE DEF l, r
<1> QED
  BY <1>1, <1>2, <1>3 DEF l, r

-----------------------------------------------------------------------------
(* Each kind of step leaves a session good.                                *)
LEMMA FreshGood ==
  ASSUME NEW s, DOMAIN s = DOMAIN Fresh, s.wire = <<>>, Drained(s),
         s.emitted = <<>>, s.responses = <<>>
  PROVE  Good(s)
<1>1. Streams(s)
  BY DEF Streams, Drained
<1> QED
  BY <1>1 DEF Good, Ordered, Drained

LEMMA QuietGood ==
  ASSUME NEW s, NEW t, Good(s), s.pc # "ready", t.pc # "ready",
         t.pc \in Between => Drained(s),
         DOMAIN t = DOMAIN Fresh, t.wire = s.wire, t.hand = s.hand, t.channel = s.channel,
         t.emitted = s.emitted,
         t.responses = s.responses \/ (\E r : t.responses = Append(s.responses, r))
                                   \/ (\E x : t.responses = <<x>>)
  PROVE  Good(t)
<1>1. Streams(t)
  <2>1. PICK E : {s.wire, s.hand, s.channel, s.emitted, s.responses} \subseteq Seq(E)
    BY DEF Good, Streams
  <2>2. PICK r : t.responses \in {s.responses, Append(s.responses, r), <<r>>}
    OBVIOUS
  <2>3. {s.wire, s.hand, s.channel, s.emitted, s.responses} \subseteq Seq(E \union {r})
    BY <2>1, Wider
  <2>4. t.responses \in Seq(E \union {r})
    <3>1. s.responses \in Seq(E \union {r}) /\ r \in E \union {r}
      BY <2>3
    <3>2. Append(s.responses, r) \in Seq(E \union {r}) /\ <<r>> \in Seq(E \union {r})
      BY <3>1
    <3> QED
      BY <2>2, <3>1, <3>2
  <2> QED
    BY <2>3, <2>4 DEF Streams
<1> QED
  BY <1>1 DEF Good, Ordered, Drained

LEMMA EmitGood ==
  ASSUME NEW s, NEW t, NEW e, Good(s), s.pc # "ready", t.pc \notin Between,
         DOMAIN t = DOMAIN Fresh, t.wire = s.wire, t.hand = s.hand,
         t.channel = Append(s.channel, e),
         t.emitted = Append(s.emitted, e), t.responses = s.responses
  PROVE  Good(t)
<1>1. PICK E : {s.wire, s.hand, s.channel, s.emitted, s.responses} \subseteq Seq(E)
  BY DEF Good, Streams
<1>2. {s.wire, s.hand, s.channel, s.emitted, s.responses} \subseteq Seq(E \union {e})
  BY <1>1, Wider
<1>3. Streams(t)
  BY <1>2 DEF Streams
<1>4. t.wire \o t.hand \o t.channel = t.emitted
  <2> DEFINE w == s.wire \o s.hand
             q == s.channel
             A == E \union {e}
  <2>1. w \in Seq(A) /\ q \in Seq(A) /\ e \in A
    BY <1>2
  <2>2. w \o q = s.emitted
    BY DEF Good, Ordered
  <2> HIDE DEF w, q, A
  <2>3. w \o Append(q, e) = Append(w \o q, e)
    BY <2>1, AppendBehind
  <2> QED
    BY <2>2, <2>3 DEF w, q
<1> QED
  BY <1>3, <1>4 DEF Good, Ordered, Between

LEMMA TakeGood ==
  ASSUME NEW s, NEW t, Good(s), s.pc \notin Between, s.hand = <<>>, s.channel # <<>>,
         t.pc = s.pc, DOMAIN t = DOMAIN Fresh, t.wire = s.wire, t.hand = <<s.channel[1]>>,
         t.channel = Tail(s.channel), t.emitted = s.emitted, t.responses = s.responses
  PROVE  Good(t)
<1>1. PICK E : {s.wire, s.hand, s.channel, s.emitted, s.responses} \subseteq Seq(E)
  BY DEF Good, Streams
<1>2. /\ t.hand \in Seq(E) /\ t.channel \in Seq(E)
      /\ t.wire \o t.hand \o t.channel = s.wire \o s.hand \o s.channel
  <2> DEFINE w == s.wire
             q == s.channel
  <2>1. w \in Seq(E) /\ q \in Seq(E) /\ q # <<>>
    BY <1>1
  <2> HIDE DEF w, q
  <2>2. /\ Append(w, q[1]) \in Seq(E) /\ Tail(q) \in Seq(E)
        /\ Append(w, q[1]) \o Tail(q) = w \o q
    BY <2>1, MoveHead
  <2>3. w \o <<>> = w /\ w \o <<q[1]>> = Append(w, q[1]) /\ <<q[1]>> \in Seq(E)
    BY <2>1
  <2> QED
    BY <2>2, <2>3 DEF w, q
<1>3. Streams(t)
  BY <1>1, <1>2 DEF Streams
<1> QED
  BY <1>2, <1>3 DEF Good, Ordered, Between

LEMMA NoticeGood ==
  ASSUME NEW s, NEW t, Good(s), s.pc \notin Between, t.pc = s.pc,
         DOMAIN t = DOMAIN Fresh, t.wire = s.wire \o s.hand, t.hand = <<>>,
         t.channel = s.channel, t.emitted = s.emitted, t.responses = s.responses
  PROVE  Good(t)
<1>1. PICK E : {s.wire, s.hand, s.channel, s.emitted, s.responses} \subseteq Seq(E)
  BY DEF Good, Streams
<1>2. t.wire \in Seq(E) /\ t.hand \in Seq(E) /\ t.wire \o t.hand = s.wire \o s.hand
  <2>1. s.wire \o s.hand \in Seq(E)
    BY <1>1
  <2> QED
    BY <2>1
<1>3. Streams(t)
  BY <1>1, <1>2 DEF Streams
<1> QED
  BY <1>2, <1>3 DEF Good, Ordered, Between

LEMMA AnswerGood ==
  ASSUME NEW s, NEW t, Good(s), s.pc = "respond", t.pc = "ready",
         DOMAIN t = DOMAIN Fresh, t.wire = s.wire \o s.responses, t.hand = s.hand,
         t.channel = s.channel, t.emitted = s.emitted, t.responses = s.responses
  PROVE  Good(t)
<1>1. PICK E : {s.wire, s.hand, s.channel, s.emitted, s.responses} \subseteq Seq(E)
  BY DEF Good, Streams
<1>2. Drained(s) /\ s.wire = s.emitted
  <2>1. Drained(s) /\ s.wire \o s.hand \o s.channel = s.emitted
    BY DEF Good, Ordered, Between
  <2>2. s.wire \in Seq(E)
    BY <1>1
  <2>3. s.wire \o <<>> \o <<>> = s.wire
    BY <2>2
  <2> QED
    BY <2>1, <2>3 DEF Drained
<1>3. Streams(t)
  BY <1>1 DEF Streams
<1> QED
  BY <1>2, <1>3 DEF Good, Ordered, Drained

-----------------------------------------------------------------------------
(* A step changes one session, and leaves it good.                         *)
OneChanged(c) == DOMAIN session' = Clients /\ \A d \in Clients \ {c} : session'[d] = session[d]

LEMMA OneChanges ==
  ASSUME SessionInv, NEW c \in Clients, OneChanged(c), Good(session'[c])
  PROVE  SessionInv'
<1>1. \A d \in Clients : Good(session'[d])
  BY DEF SessionInv, OneChanged
<1> QED
  BY <1>1 DEF SessionInv, OneChanged, Good, Streams, Ordered, Drained

(* A step that moves no event: it may add a response or replace them all.  *)
Quiet(s, t) ==
    /\ s.pc # "ready" /\ t.pc # "ready"
    /\ t.pc \in Between => Drained(s)
    /\ DOMAIN t = DOMAIN Fresh
    /\ t.wire = s.wire /\ t.hand = s.hand /\ t.channel = s.channel /\ t.emitted = s.emitted
    /\ \/ t.responses = s.responses
       \/ \E r : t.responses = Append(s.responses, r)
       \/ \E r : t.responses = <<r>>

LEMMA RespondQuiet ==
  ASSUME NEW s, NEW r, DOMAIN s = DOMAIN Fresh, s.pc # "ready", Drained(s)
  PROVE  Quiet(s, Respond(s, r))
  BY DEF Quiet, Respond, Fresh

LEMMA FinishQuiet ==
  ASSUME NEW s, NEW r, DOMAIN s = DOMAIN Fresh, s.pc # "ready"
  PROVE  Quiet(s, Finish(s, r))
  BY DEF Quiet, Finish, Fresh, Between

LEMMA QuietSteps ==
  ASSUME SessionInv, NEW c \in Clients,
         \/ AnswerRouted(c) \/ RunStatement(c) \/ EndString(c) \/ PlanStep(c)
         \/ EndOfStream(c) \/ AnswerStatement(c) \/ EncodingFails(c)
  PROVE  SessionInv'
<1> DEFINE s == session[c]
<1>1. DOMAIN s = DOMAIN Fresh /\ DOMAIN session = Clients /\ Good(s)
  BY DEF SessionInv, Good
<1>2. s.pc \in Between => Drained(s)
  BY <1>1 DEF Good, Ordered
<1>3. ASSUME NEW t, session' = [session EXCEPT ![c] = t], Quiet(s, t)
      PROVE  SessionInv'
  <2>1. OneChanged(c) /\ session'[c] = t
    BY <1>1, <1>3 DEF OneChanged
  <2>2. Good(t)
    BY <1>1, <1>3, QuietGood DEF Quiet
  <2> QED
    BY <2>1, <2>2, OneChanges
<1>4. CASE AnswerRouted(c)
  <2>1. PICK r : session' = [session EXCEPT ![c] = Respond(s, r)]
    BY <1>4 DEF AnswerRouted
  <2>2. Quiet(s, Respond(s, r))
    BY <1>4, <1>1, <1>2, RespondQuiet DEF AnswerRouted, Between
  <2> QED
    BY <2>1, <2>2, <1>3
<1>5. CASE RunStatement(c)
  <2> DEFINE t == [s EXCEPT !.pc = "parse", !.ticks = 0, !.ops = <<>>]
  <2>1. session' = [session EXCEPT ![c] = t]
    BY <1>5, <1>1 DEF RunStatement
  <2>2. Quiet(s, t)
    BY <1>5, <1>1, <1>2 DEF RunStatement, Quiet, Fresh, Between
  <2> QED
    BY <2>1, <2>2, <1>3
<1>6. CASE EndString(c)
  <2> DEFINE t == [s EXCEPT !.pc = "respond", !.responses = IF @ = <<>> THEN <<"empty">> ELSE @]
  <2>1. session' = [session EXCEPT ![c] = t]
    BY <1>6, <1>1 DEF EndString
  <2>2. Quiet(s, t)
    BY <1>6, <1>1, <1>2 DEF EndString, Quiet, Fresh, Between
  <2> QED
    BY <2>1, <2>2, <1>3
<1>7. CASE Register(c)
  <2>1. PICK r : session' = [session EXCEPT ![c] = Finish(s, r)]
    BY <1>7 DEF Register
  <2>2. Quiet(s, Finish(s, r))
    BY <1>7, <1>1, FinishQuiet DEF Register
  <2> QED
    BY <2>1, <2>2, <1>3
<1>8. CASE CreateIndex(c)
  <2>1. PICK r : session' = [session EXCEPT ![c] = Finish(s, r)]
    BY <1>8 DEF CreateIndex
  <2>2. Quiet(s, Finish(s, r))
    BY <1>8, <1>1, FinishQuiet DEF CreateIndex
  <2> QED
    BY <2>1, <2>2, <1>3
<1>9. CASE Parse(c)
  <2>1. s.pc # "ready"
    BY <1>9 DEF Parse
  <2>2. Quiet(s, Finish(s, "error")) /\ Quiet(s, Finish(s, "ok"))
    BY <1>1, <2>1, FinishQuiet
  <2> DEFINE t == [s EXCEPT !.pc = "optimize"]
  <2>3. Quiet(s, t)
    BY <1>1, <2>1 DEF Quiet, Fresh, Between
  <2>4. \E x \in {Finish(s, "error"), Finish(s, "ok"), t} : session' = [session EXCEPT ![c] = x]
    BY <1>9 DEF Parse
  <2> QED
    BY <2>2, <2>3, <2>4, <1>3
<1>10. CASE Optimize(c)
  <2>1. s.pc # "ready"
    BY <1>10 DEF Optimize
  <2>2. Quiet(s, Finish(s, "error")) /\ Quiet(s, Finish(s, "ok"))
    BY <1>1, <2>1, FinishQuiet
  <2> DEFINE t == [s EXCEPT !.pc = "plan", !.ops = Optimized(Statement(c), types, indexed)]
  <2>3. Quiet(s, t)
    BY <1>1, <2>1 DEF Quiet, Fresh, Between
  <2>4. \E x \in {Finish(s, "error"), Finish(s, "ok"), t} : session' = [session EXCEPT ![c] = x]
    BY <1>10 DEF Optimize
  <2> QED
    BY <2>2, <2>3, <2>4, <1>3
<1>11. CASE PlanPhysically(c)
  <2>1. s.pc # "ready"
    BY <1>11 DEF PlanPhysically
  <2>2. Quiet(s, Finish(s, "error")) /\ Quiet(s, Finish(s, "ok"))
    BY <1>1, <2>1, FinishQuiet
  <2> DEFINE t == [s EXCEPT !.ops = Physical(s.ops, indexed),
                        !.lines = Reverse(Physical(s.ops, indexed)),
                        !.pc = IF Physical(s.ops, indexed) = <<>> THEN "stream" ELSE "announce"]
  <2>3. Quiet(s, t)
    BY <1>1, <2>1 DEF Quiet, Fresh, Between
  <2>4. \E x \in {Finish(s, "error"), Finish(s, "ok"), t} : session' = [session EXCEPT ![c] = x]
    BY <1>11 DEF PlanPhysically
  <2> QED
    BY <2>2, <2>3, <2>4, <1>3
<1>12. CASE EndOfStream(c)
  <2>1. s.pc # "ready"
    BY <1>12 DEF EndOfStream
  <2>2. Quiet(s, Finish(s, "error")) /\ Quiet(s, Finish(s, "ok"))
    BY <1>1, <2>1, FinishQuiet
  <2> DEFINE t == [s EXCEPT !.pc = "totals"]
  <2>3. Quiet(s, t)
    BY <1>1, <2>1 DEF Quiet, Fresh, Between
  <2>4. \E x \in {Finish(s, "error"), Finish(s, "ok"), t} : session' = [session EXCEPT ![c] = x]
    BY <1>12 DEF EndOfStream
  <2> QED
    BY <2>2, <2>3, <2>4, <1>3
<1>13. CASE AnswerStatement(c)
  <2>1. session' = [session EXCEPT ![c] = Respond(s, s.outcome)]
    BY <1>13 DEF AnswerStatement
  <2>2. Quiet(s, Respond(s, s.outcome))
    BY <1>13, <1>1, RespondQuiet DEF AnswerStatement
  <2> QED
    BY <2>1, <2>2, <1>3
<1>14. CASE EncodingFails(c)
  <2> DEFINE t == [s EXCEPT !.pc = "respond", !.responses = <<"error">>]
  <2>1. session' = [session EXCEPT ![c] = t]
    BY <1>14, <1>1 DEF EncodingFails
  <2>2. Quiet(s, t)
    BY <1>14, <1>1, <1>2 DEF EncodingFails, Quiet, Fresh, Between
  <2> QED
    BY <2>1, <2>2, <1>3
<1> QED
  BY <1>4, <1>5, <1>6, <1>7, <1>8, <1>9, <1>10, <1>11, <1>12, <1>13, <1>14 DEF PlanStep

(* A step that sends an event into the channel.                            *)
LEMMA EmitSteps ==
  ASSUME SessionInv, NEW c \in Clients, Announce(c) \/ Tick(c) \/ Totals(c)
  PROVE  SessionInv'
<1> DEFINE s == session[c]
<1>1. DOMAIN s = DOMAIN Fresh /\ DOMAIN session = Clients /\ Good(s)
  BY DEF SessionInv, Good
<1>2. PICK e, t :
        /\ session' = [session EXCEPT ![c] = t]
        /\ s.pc # "ready" /\ t.pc \notin Between /\ DOMAIN t = DOMAIN Fresh
        /\ t.wire = s.wire /\ t.hand = s.hand /\ t.channel = Append(s.channel, e)
        /\ t.emitted = Append(s.emitted, e) /\ t.responses = s.responses
  <2>1. CASE Announce(c)
    <3> DEFINE e == <<"plan", s.lines[1].op>>
               t == [Emit(s, e) EXCEPT !.lines = Tail(@),
                                       !.pc = IF Len(s.lines) = 1 THEN "stream" ELSE "announce"]
    <3>1. session' = [session EXCEPT ![c] = t] /\ s.pc # "ready"
      BY <2>1 DEF Announce
    <3> HIDE DEF e
    <3>2. /\ t.pc \notin Between /\ DOMAIN t = DOMAIN Fresh
          /\ t.wire = s.wire /\ t.hand = s.hand /\ t.channel = Append(s.channel, e)
          /\ t.emitted = Append(s.emitted, e) /\ t.responses = s.responses
      BY <1>1 DEF Emit, Fresh, Between
    <3> QED
      BY <3>1, <3>2
  <2>2. CASE Tick(c)
    <3> DEFINE e == <<"funnel", s.ticks + 1>>
               t == [Emit(s, e) EXCEPT !.ticks = @ + 1]
    <3>1. session' = [session EXCEPT ![c] = t] /\ s.pc = "stream"
      BY <2>2 DEF Tick
    <3> HIDE DEF e
    <3>2. /\ t.pc = s.pc /\ DOMAIN t = DOMAIN Fresh
          /\ t.wire = s.wire /\ t.hand = s.hand /\ t.channel = Append(s.channel, e)
          /\ t.emitted = Append(s.emitted, e) /\ t.responses = s.responses
      BY <1>1 DEF Emit, Fresh
    <3> QED
      BY <3>1, <3>2 DEF Between
  <2>3. CASE Totals(c)
    <3> DEFINE e == <<"done">>
               t == Finish(Emit(s, e), "ok")
    <3>1. session' = [session EXCEPT ![c] = t] /\ s.pc # "ready"
      BY <2>3 DEF Totals
    <3> HIDE DEF e
    <3>2. /\ t.pc \notin Between /\ DOMAIN t = DOMAIN Fresh
          /\ t.wire = s.wire /\ t.hand = s.hand /\ t.channel = Append(s.channel, e)
          /\ t.emitted = Append(s.emitted, e) /\ t.responses = s.responses
      BY <1>1 DEF Emit, Finish, Fresh, Between
    <3> QED
      BY <3>1, <3>2
  <2> QED
    BY <2>1, <2>2, <2>3
<1>3. Good(t)
  BY <1>1, <1>2, EmitGood
<1>4. OneChanged(c) /\ session'[c] = t
  BY <1>1, <1>2 DEF OneChanged
<1> QED
  BY <1>3, <1>4, OneChanges

(* A step that takes the oldest event of the channel, or hands it over.    *)
LEMMA TakeSteps ==
  ASSUME SessionInv, NEW c \in Clients, Forward(c) \/ Drain(c)
  PROVE  SessionInv'
<1> DEFINE s == session[c]
<1>1. DOMAIN s = DOMAIN Fresh /\ DOMAIN session = Clients /\ Good(s)
  BY DEF SessionInv, Good
<1>2. s.pc \notin Between /\ Take(c)
  BY DEF Forward, Drain, Between, Running
<1>3. OneChanged(c)
  BY <1>1, <1>2 DEF OneChanged, Take
<1> DEFINE t == session'[c]
<1>4. /\ s.hand = <<>> /\ s.channel # <<>>
      /\ t.pc = s.pc /\ DOMAIN t = DOMAIN Fresh /\ t.wire = s.wire /\ t.hand = <<s.channel[1]>>
      /\ t.channel = Tail(s.channel) /\ t.emitted = s.emitted /\ t.responses = s.responses
  BY <1>1, <1>2 DEF Take, Fresh
<1> HIDE DEF s, t
<1>5. Good(t)
  BY <1>1, <1>2, <1>4, TakeGood
<1> QED
  BY <1>3, <1>5, OneChanges DEF t

LEMMA NoticeSteps ==
  ASSUME SessionInv, NEW c \in Clients, SendNotice(c)
  PROVE  SessionInv'
<1> DEFINE s == session[c]
<1>1. DOMAIN s = DOMAIN Fresh /\ DOMAIN session = Clients /\ Good(s)
  BY DEF SessionInv, Good
<1>2. s.pc \notin Between
  BY <1>1 DEF SendNotice, Good, Ordered, Drained
<1>3. OneChanged(c)
  BY <1>1 DEF OneChanged, SendNotice
<1> DEFINE t == session'[c]
<1>4. /\ t.pc = s.pc /\ DOMAIN t = DOMAIN Fresh /\ t.wire = s.wire \o s.hand /\ t.hand = <<>>
      /\ t.channel = s.channel /\ t.emitted = s.emitted /\ t.responses = s.responses
  BY <1>1 DEF SendNotice, Fresh
<1> HIDE DEF s, t
<1>5. Good(t)
  BY <1>1, <1>2, <1>4, NoticeGood
<1> QED
  BY <1>3, <1>5, OneChanges DEF t

(* The steps at the ends of a string.                                      *)
LEMMA EndSteps ==
  ASSUME SessionInv, NEW c \in Clients, Receive(c) \/ SendResponses(c) \/ SendFails(c)
  PROVE  SessionInv'
<1> DEFINE s == session[c]
           t == session'[c]
<1>1. DOMAIN s = DOMAIN Fresh /\ DOMAIN session = Clients /\ Good(s)
  BY DEF SessionInv, Good
<1>2. OneChanged(c)
  BY <1>1 DEF OneChanged, Receive, SendResponses, SendFails
<1>3. CASE Receive(c) \/ SendFails(c)
  <2>1. /\ DOMAIN t = DOMAIN Fresh /\ t.wire = <<>> /\ Drained(t)
        /\ t.emitted = <<>> /\ t.responses = <<>>
    <3>1. CASE Receive(c)
      <4>1. PICK string \in Strings :
              t = [Fresh EXCEPT !.pc = "route", !.string = string, !.strings = s.strings + 1]
        BY <3>1, <1>1 DEF Receive
      <4> QED
        BY <4>1 DEF Fresh, Drained
    <3>2. CASE SendFails(c)
      <4>1. t = [Fresh EXCEPT !.pc = "closed", !.strings = s.strings]
        BY <3>2, <1>1 DEF SendFails
      <4> QED
        BY <4>1 DEF Fresh, Drained
    <3> QED
      BY <1>3, <3>1, <3>2
  <2> HIDE DEF t
  <2> QED
    BY <2>1, <1>2, FreshGood, OneChanges DEF t
<1>4. CASE SendResponses(c)
  <2>1. /\ s.pc = "respond" /\ t.pc = "ready" /\ DOMAIN t = DOMAIN Fresh
        /\ t.wire = s.wire \o s.responses /\ t.hand = s.hand /\ t.channel = s.channel
        /\ t.emitted = s.emitted /\ t.responses = s.responses
    BY <1>4, <1>1 DEF SendResponses, Fresh
  <2> HIDE DEF s, t
  <2>2. Good(t)
    BY <2>1, <1>1, AnswerGood
  <2> QED
    BY <2>2, <1>2, OneChanges DEF t
<1> QED
  BY <1>3, <1>4

LEMMA SessionInitInv == Init => SessionInv
<1> SUFFICES ASSUME Init PROVE SessionInv
  OBVIOUS
<1>1. Good(Fresh)
  <2>1. /\ Fresh.wire = <<>> /\ Drained(Fresh)
        /\ Fresh.emitted = <<>> /\ Fresh.responses = <<>>
    BY DEF Fresh, Drained
  <2> QED
    BY <2>1, FreshGood
<1> QED
  BY <1>1 DEF Init, SessionInv

LEMMA SessionNextInv == SessionInv /\ [Next]_vars => SessionInv'
<1>1. SessionInv /\ UNCHANGED vars => SessionInv'
  BY DEF vars, SessionInv, Good, Streams, Ordered, Drained
<1>2. SessionInv /\ Next => SessionInv'
  BY QuietSteps, EmitSteps, TakeSteps, NoticeSteps, EndSteps DEF Next, RunStep, ClientStep
<1> QED
  BY <1>1, <1>2

(***************************************************************************)
(* What is asked: lists first.                                             *)
(***************************************************************************)
LEMMA SequenceOf ==
  ASSUME NEW s, IsSequence(s)
  PROVE  s \in Seq(ToSet(s)) /\ DOMAIN s = 1 .. Len(s) /\ Len(s) \in Nat
<1>1. Len(s) \in Nat /\ s = [i \in 1 .. Len(s) |-> s[i]]
  BY DEF IsSequence
<1>2. DOMAIN s = 1 .. Len(s)
  <2>1. DOMAIN [i \in 1 .. Len(s) |-> s[i]] = 1 .. Len(s)
    OBVIOUS
  <2>. QED BY <1>1, <2>1, Zenon
<1>3. \A i \in 1 .. Len(s) : s[i] \in ToSet(s)
  BY <1>2 DEF ToSet
<1>4. [i \in 1 .. Len(s) |-> s[i]] \in Seq(ToSet(s))
  <2>. DEFINE n == Len(s)
  <2>. HIDE DEF n
  <2>1. n \in Nat /\ \A i \in 1 .. n : s[i] \in ToSet(s)
    BY <1>1, <1>3 DEF n
  <2>2. [i \in 1 .. n |-> s[i]] \in Seq(ToSet(s))
    BY <2>1
  <2>. QED BY <2>2 DEF n
<1>. QED BY <1>1, <1>2, <1>4, Zenon

LEMMA ListOf ==
  ASSUME NEW n \in Nat, NEW T, NEW f, \A i \in 1 .. n : f[i] \in T
  PROVE  /\ [i \in 1 .. n |-> f[i]] \in Seq(T)
         /\ ToSet([i \in 1 .. n |-> f[i]]) = {f[i] : i \in 1 .. n}
  BY DEF ToSet

(***************************************************************************)
(* Types.  The groups of a registered type are disjoint parts of its       *)
(* fields, and no field occurs twice.                                      *)
(***************************************************************************)
Sound(type) ==
  /\ type.fields \in Seq(ToSet(type.fields))
  /\ \A g \in type.together : g \in SUBSET ToSet(type.fields)
  /\ \A g, h \in type.together : g # h => g \intersect h = {}

LEMMA SoundOf ==
  ASSUME NEW entries, IsSequence(entries), \A i \in DOMAIN entries : IsSequence(entries[i].fields),
         WellFormed(entries)
  PROVE  Sound(TypeOf(entries))
<1>. DEFINE parts == [i \in DOMAIN entries |-> entries[i].fields]
            T == UNION {ToSet(entries[i].fields) : i \in DOMAIN entries}
            fields == FlattenSeq(parts)
            groups == {ToSet(entries[i].fields) : i \in {j \in DOMAIN entries : entries[j].together}}
<1>1. DOMAIN entries = 1 .. Len(entries) /\ Len(entries) \in Nat
  BY SequenceOf
<1>2. ASSUME NEW i \in DOMAIN entries PROVE entries[i].fields \in Seq(T)
  <2>1. entries[i].fields \in Seq(ToSet(entries[i].fields))
    BY SequenceOf
  <2>2. ToSet(entries[i].fields) \in SUBSET T
    OBVIOUS
  <2>. HIDE DEF T
  <2>. QED BY <2>1, <2>2
<1>3. parts \in Seq(Seq(T)) /\ DOMAIN parts = DOMAIN entries
  <2>. HIDE DEF T
  <2>. QED BY <1>1, <1>2
<1>4. \A i \in DOMAIN entries : parts[i] = entries[i].fields
  OBVIOUS
<1>5. fields = DeclaredFields(entries) /\ TypeOf(entries) = [fields |-> fields, together |-> groups]
  BY DEF DeclaredFields, TypeOf
<1>6. \A m, n \in DOMAIN fields : fields[m] = fields[n] => m = n
  <2>1. IsInjective(fields)
    BY <1>5 DEF WellFormed
  <2>. HIDE DEF fields
  <2>. QED BY <2>1 DEF IsInjective
<1>. HIDE DEF parts, T
<1>7. /\ fields \in Seq(T)
      /\ ToSet(fields) = UNION {ToSet(parts[i]) : i \in DOMAIN parts}
      /\ \A i, j \in DOMAIN parts : i # j => ToSet(parts[i]) \intersect ToSet(parts[j]) = {}
  BY <1>3, <1>6, FlattenOf
<1>. HIDE DEF fields
<1>8. \A g \in groups : \E i \in DOMAIN parts : g = ToSet(parts[i])
  BY <1>3, <1>4
<1>. HIDE DEF groups
<1>9. \A g \in groups : g \in SUBSET ToSet(fields)
  BY <1>7, <1>8
<1>10. \A g, h \in groups : g # h => g \intersect h = {}
  <2>1. ASSUME NEW g \in groups, NEW h \in groups, g # h PROVE g \intersect h = {}
    <3>1. PICK i \in DOMAIN parts : g = ToSet(parts[i])
      BY <1>8
    <3>2. PICK j \in DOMAIN parts : h = ToSet(parts[j])
      BY <1>8
    <3>. QED BY <2>1, <3>1, <3>2, <1>7
  <2>. QED BY <2>1
<1>11. fields \in Seq(ToSet(fields))
  BY <1>7 DEF ToSet
<1>. QED BY <1>5, <1>9, <1>10, <1>11 DEF Sound

LEMMA GroupOf ==
  ASSUME NEW type, Sound(type), NEW g \in type.together, NEW f \in g
  PROVE  UNION {h \in type.together : f \in h} = g
<1>1. \A h \in type.together : f \in h <=> h = g
  BY DEF Sound
<1>2. {h \in type.together : f \in h} = {g}
  BY <1>1
<1>. QED BY <1>2

LEMMA UnitsOf ==
  ASSUME NEW type, type.fields \in Seq(ToSet(type.fields))
  PROVE  ToSet(GenerationUnits(type)) = {UnitOf(type, f) : f \in ToSet(type.fields)}
<1>. DEFINE fields == type.fields
            units == [i \in DOMAIN fields |-> UnitOf(type, fields[i])]
            T == {UnitOf(type, f) : f \in ToSet(fields)}
<1>1. DOMAIN fields = 1 .. Len(fields) /\ Len(fields) \in Nat
  OBVIOUS
<1>2. units \in Seq(T)
  <2>1. \A i \in DOMAIN fields : UnitOf(type, fields[i]) \in T
    BY DEF ToSet
  <2>. DEFINE n == Len(fields)
             f == [i \in DOMAIN fields |-> UnitOf(type, fields[i])]
  <2>2. units = [i \in 1 .. n |-> f[i]] /\ \A i \in 1 .. n : f[i] \in T
    BY <1>1, <2>1
  <2>3. n \in Nat
    BY <1>1
  <2>. HIDE DEF T, n, f, units
  <2>. QED BY <2>2, <2>3, ListOf
<1>3. ToSet(units) = T
  BY DEF ToSet
<1>. HIDE DEF units, T
<1>4. ToSet(Firsts(units)) = ToSet(units)
  BY <1>2, FirstsOf
<1>. QED BY <1>3, <1>4 DEF GenerationUnits, units, T

(***************************************************************************)
(* Pruning a type to fields leaves the units that hold one of them, and    *)
(* leaves them whole.                                                      *)
(***************************************************************************)
LEMMA PrunedUnits ==
  ASSUME NEW type, Sound(type), NEW F
  PROVE  ToSet(GenerationUnits(Pruned(type, F)))
           = {u \in ToSet(GenerationUnits(type)) : ToSet(u) \intersect F # {}}
<1>. DEFINE all == ToSet(type.fields)
            K == F \union UNION {g \in type.together : g \intersect F # {}}
            p == Pruned(type, F)
            GroupIn(t, f) == UNION {g \in t.together : f \in g}
<1>1. /\ type.fields \in Seq(all)
      /\ \A g \in type.together : g \in SUBSET all
      /\ \A g, h \in type.together : g # h => g \intersect h = {}
  BY DEF Sound
<1>2. /\ p.fields = Only(type.fields, K)
      /\ p.together = {g \in type.together : g \intersect K # {}}
  BY DEF Pruned, Narrowed
<1>3. p.fields \in Seq(all) /\ ToSet(p.fields) = all \intersect K
  <2>. HIDE DEF all, K
  <2>. QED BY <1>1, <1>2, OnlyOf DEF all
<1>4. \A g \in type.together : g \intersect K # {} => g \in SUBSET K
  <2>1. ASSUME NEW g \in type.together, g \intersect K # {} PROVE g \in SUBSET K
    <3>1. CASE g \intersect F # {}
      BY <3>1
    <3>2. CASE g \intersect F = {}
      <4>1. PICK h \in type.together : h \intersect F # {} /\ g \intersect h # {}
        BY <2>1, <3>2
      <4>. QED BY <4>1, <3>2, <1>1
    <3>. QED BY <3>1, <3>2
  <2>. QED BY <2>1
<1>5. \A g \in type.together : g \intersect K # {} <=> g \intersect F # {}
  <2>1. ASSUME NEW g \in type.together, g \intersect K # {} PROVE g \intersect F # {}
    <3>1. CASE g \intersect F = {}
      <4>1. PICK h \in type.together : h \intersect F # {} /\ g \intersect h # {}
        BY <2>1, <3>1
      <4>. QED BY <4>1, <3>1, <1>1
    <3>. QED BY <3>1
  <2>. QED BY <2>1
<1>6. \A f : f \in K <=> f \in F \/ \E g \in type.together : f \in g /\ g \intersect F # {}
  OBVIOUS
<1>. HIDE DEF K, p
<1>7. ASSUME NEW f \in all \intersect K PROVE UnitOf(p, f) = UnitOf(type, f)
  <2>1. {g \in p.together : f \in g} = {g \in type.together : f \in g}
    BY <1>2
  <2>2. GroupIn(p, f) = GroupIn(type, f)
    BY <2>1
  <2>3. CASE GroupIn(type, f) = {}
    BY <2>2, <2>3 DEF UnitOf
  <2>4. CASE GroupIn(type, f) # {}
    <3>1. PICK g \in type.together : f \in g
      BY <2>4
    <3>2. GroupIn(type, f) = g
      BY <3>1, GroupOf
    <3>3. K \intersect g = g
      BY <3>1, <1>4
    <3>4. Only(p.fields, g) = Only(type.fields, g)
      <4>1. Only(Only(type.fields, K), g) = Only(type.fields, K \intersect g)
        BY <1>1, OnlyOnly
      <4>. QED BY <4>1, <3>3, <1>2
    <3>. QED BY <2>2, <2>4, <3>2, <3>4 DEF UnitOf
  <2>. QED BY <2>3, <2>4
<1>8. ASSUME NEW f \in all PROVE f \in K <=> ToSet(UnitOf(type, f)) \intersect F # {}
  <2>1. CASE GroupIn(type, f) = {}
    <3>1. UnitOf(type, f) = <<f>>
      BY <2>1 DEF UnitOf
    <3>2. ToSet(<<f>>) = {f}
      BY DEF ToSet
    <3>3. \A g \in type.together : f \notin g
      BY <2>1
    <3>. QED BY <3>1, <3>2, <3>3, <1>6
  <2>2. CASE GroupIn(type, f) # {}
    <3>1. PICK g \in type.together : f \in g
      BY <2>2
    <3>2. GroupIn(type, f) = g
      BY <3>1, GroupOf
    <3>3. UnitOf(type, f) = Only(type.fields, g)
      BY <2>2, <3>2 DEF UnitOf
    <3>4. ToSet(Only(type.fields, g)) = all \intersect g
      <4>. HIDE DEF all
      <4>. QED BY <1>1, OnlyOf DEF all
    <3>5. all \intersect g = g
      BY <1>1
    <3>6. ToSet(UnitOf(type, f)) = g
      BY <3>3, <3>4, <3>5
    <3>7. \A h \in type.together : f \in h => h = g
      BY <3>1, <1>1
    <3>. QED BY <3>1, <3>6, <3>7, <1>6
  <2>. QED BY <2>1, <2>2
<1>9. ToSet(GenerationUnits(type)) = {UnitOf(type, f) : f \in all}
  BY <1>1, UnitsOf
<1>10. ToSet(GenerationUnits(p)) = {UnitOf(p, f) : f \in all \intersect K}
  <2>1. p.fields \in Seq(ToSet(p.fields))
    BY <1>3 DEF ToSet
  <2>2. ToSet(GenerationUnits(p)) = {UnitOf(p, f) : f \in ToSet(p.fields)}
    BY <2>1, UnitsOf
  <2>. QED BY <2>2, <1>3
<1>. HIDE DEF all
<1>. QED BY <1>7, <1>8, <1>9, <1>10 DEF p

(***************************************************************************)
(* Lists of operators: what is asked of the model by the ones of some      *)
(* kinds.                                                                  *)
(***************************************************************************)
Listed(s) == s \in Seq(ToSet(s))

Pairs(op) == {<<op.text, op.conditions[n]>> : n \in DOMAIN op.conditions}

Asked(S, kinds) == UNION {Pairs(op) : op \in {x \in S : x.op \in kinds}}

LEMMA MappedOf ==
  ASSUME NEW s, Listed(s), NEW f, f = [i \in DOMAIN s |-> f[i]]
  PROVE  Listed(f) /\ DOMAIN f = DOMAIN s /\ ToSet(f) = {f[i] : i \in DOMAIN s}
<1>. DEFINE n == Len(s)
            T == ToSet(f)
<1>1. n \in Nat /\ DOMAIN s = 1 .. n
  BY DEF Listed
<1>2. DOMAIN f = DOMAIN s
  <2>1. DOMAIN [i \in DOMAIN s |-> f[i]] = DOMAIN s
    OBVIOUS
  <2>. QED BY <2>1, Zenon
<1>3. T = {f[i] : i \in DOMAIN s}
  BY <1>2 DEF ToSet
<1>4. f = [i \in 1 .. n |-> f[i]] /\ \A i \in 1 .. n : f[i] \in T
  BY <1>1, <1>3
<1>. HIDE DEF n, T
<1>5. [i \in 1 .. n |-> f[i]] \in Seq(T)
  BY <1>1, <1>4, ListOf
<1>6. f \in Seq(T)
  BY <1>4, <1>5, Zenon
<1>. QED BY <1>2, <1>3, <1>6 DEF Listed, T

LEMMA ListedIn ==
  ASSUME NEW T, NEW s \in Seq(T)
  PROVE  Listed(s)
<1>1. Len(s) \in Nat /\ DOMAIN s = 1 .. Len(s) /\ s = [i \in 1 .. Len(s) |-> s[i]]
  OBVIOUS
<1>. DEFINE n == Len(s)
<1>2. \A i \in 1 .. n : s[i] \in ToSet(s)
  BY <1>1 DEF ToSet
<1>. HIDE DEF n
<1>3. [i \in 1 .. n |-> s[i]] \in Seq(ToSet(s))
  BY <1>1, <1>2, ListOf DEF n
<1>. QED BY <1>1, <1>3, Zenon DEF Listed, n

LEMMA JoinedOf ==
  ASSUME NEW s, NEW t, Listed(s), Listed(t)
  PROVE  Listed(s \o t) /\ ToSet(s \o t) = ToSet(s) \union ToSet(t)
<1>. DEFINE T == ToSet(s) \union ToSet(t)
<1>1. s \in Seq(T) /\ t \in Seq(T)
  BY Wider DEF Listed
<1>. HIDE DEF T
<1>2. s \o t \in Seq(T) /\ ToSet(s \o t) = ToSet(s) \union ToSet(t)
  BY <1>1, ConcatSet
<1>. QED BY <1>2 DEF T, Listed

LEMMA FlatOf ==
  ASSUME NEW seqs, Listed(seqs), \A i \in DOMAIN seqs : Listed(seqs[i])
  PROVE  /\ Listed(FlattenSeq(seqs))
         /\ ToSet(FlattenSeq(seqs)) = UNION {ToSet(seqs[i]) : i \in DOMAIN seqs}
<1>. DEFINE T == UNION {ToSet(seqs[i]) : i \in DOMAIN seqs}
            n == Len(seqs)
<1>1. n \in Nat /\ DOMAIN seqs = 1 .. n /\ seqs = [i \in 1 .. n |-> seqs[i]]
  BY DEF Listed
<1>2. ASSUME NEW i \in DOMAIN seqs PROVE seqs[i] \in Seq(T)
  <2>1. seqs[i] \in Seq(ToSet(seqs[i])) /\ T = ToSet(seqs[i]) \union T
    BY DEF Listed
  <2>. HIDE DEF T
  <2>2. seqs[i] \in Seq(ToSet(seqs[i]) \union T)
    BY <2>1, Wider
  <2>. QED BY <2>1, <2>2
<1>. HIDE DEF T, n
<1>3. [i \in 1 .. n |-> seqs[i]] \in Seq(Seq(T))
  BY <1>1, <1>2, ListOf
<1>4. seqs \in Seq(Seq(T))
  BY <1>1, <1>3, Zenon
<1>5. /\ FlattenSeq(seqs) \in Seq(T)
      /\ ToSet(FlattenSeq(seqs)) = UNION {ToSet(seqs[i]) : i \in DOMAIN seqs}
  BY <1>4, FlattenOf
<1>. QED BY <1>5, ListedIn

LEMMA PartOf ==
  ASSUME NEW s, Listed(s), NEW P \in SUBSET DOMAIN s
  PROVE  /\ Listed(At(s, P)) /\ ToSet(At(s, P)) = {s[i] : i \in P}
         /\ P # {} => DOMAIN At(s, P) # {}
<1>1. s \in Seq(ToSet(s))
  BY DEF Listed
<1>2. At(s, P) \in Seq(ToSet(s)) /\ \A i \in P : \E n \in DOMAIN At(s, P) : Nth(P, n) = i
  BY <1>1, AtOf
<1>3. ToSet(At(s, P)) = {s[i] : i \in P}
  BY <1>1, AtSet
<1>. QED BY <1>2, <1>3, ListedIn

LEMMA OncesOf ==
  ASSUME NEW s, Listed(s)
  PROVE  Listed(Firsts(s)) /\ ToSet(Firsts(s)) = ToSet(s)
<1>1. s \in Seq(ToSet(s))
  BY DEF Listed
<1>2. Firsts(s) \in Seq(ToSet(s)) /\ ToSet(Firsts(s)) = ToSet(s)
  BY <1>1, FirstsOf
<1>. QED BY <1>2, ListedIn

(***************************************************************************)
(* The rewrite of MEANS asks each condition of its own text.               *)
(***************************************************************************)
WherePairs(where) == {<<where[i].text, where[i].condition>> : i \in DOMAIN where}

Asks(group) == {<<m.text, m.condition>> : m \in ToSet(group)}

Group(g) == Listed(g) /\ DOMAIN g # {} /\ \A x, y \in ToSet(g) : x.text = y.text

LEMMA FirstIn ==
  ASSUME NEW g, Group(g)
  PROVE  1 \in DOMAIN g /\ g[1] \in ToSet(g) /\ \A x \in ToSet(g) : x.text = g[1].text
<1>1. DOMAIN g = 1 .. Len(g) /\ Len(g) \in Nat
  BY DEF Group, Listed
<1>2. 1 \in DOMAIN g
  BY <1>1 DEF Group
<1>3. g[1] \in ToSet(g)
  BY <1>2 DEF ToSet
<1>. QED BY <1>2, <1>3 DEF Group

LEMMA StagesOf ==
  ASSUME NEW g, Group(g), NEW indices
  PROVE  /\ Listed(Stages(g, indices))
         /\ \A x \in ToSet(Stages(g, indices)) : x.op \in {"filter", "classify"}
         /\ UNION {Pairs(x) : x \in ToSet(Stages(g, indices))} = Asks(g)
<1>1. Listed(g) /\ \A x \in ToSet(g) : x.text = g[1].text
  BY FirstIn DEF Group
<1>2. ToSet(g) = {g[i] : i \in DOMAIN g}
  BY DEF ToSet
<1>3. CASE Fusable(g, indices)
  <2>. DEFINE said == [i \in DOMAIN g |-> g[i].condition]
              conditions == Conditions(g)
              call == [op |-> "classify", text |-> g[1].text, conditions |-> conditions]
  <2>1. Listed(said) /\ ToSet(said) = {said[i] : i \in DOMAIN g}
    <3>1. said = [i \in DOMAIN g |-> said[i]]
      OBVIOUS
    <3>. HIDE DEF said
    <3>. QED BY <1>1, <3>1, MappedOf
  <2>2. ToSet(conditions) = {g[i].condition : i \in DOMAIN g}
    <3>1. ToSet(Firsts(said)) = ToSet(said)
      <4>. HIDE DEF said
      <4>. QED BY <2>1, OncesOf
    <3>. QED BY <2>1, <3>1 DEF Conditions
  <2>3. Stages(g, indices) = <<call>>
    BY <1>3 DEF Stages
  <2>. HIDE DEF conditions
  <2>4. Pairs(call) = Asks(g)
    <3>1. Pairs(call) = {<<g[1].text, c>> : c \in ToSet(conditions)}
      BY DEF Pairs, ToSet
    <3>2. {<<g[1].text, c>> : c \in ToSet(conditions)} = {<<g[1].text, m.condition>> : m \in ToSet(g)}
      BY <2>2, <1>2
    <3>3. {<<g[1].text, m.condition>> : m \in ToSet(g)} = Asks(g)
      BY <1>1 DEF Asks
    <3>. QED BY <3>1, <3>2, <3>3
  <2>5. call.op = "classify"
    OBVIOUS
  <2>. HIDE DEF call
  <2>6. Listed(<<call>>) /\ ToSet(<<call>>) = {call}
    BY DEF Listed, ToSet
  <2>7. \A x \in ToSet(<<call>>) : x.op \in {"filter", "classify"}
    BY <2>5, <2>6
  <2>8. UNION {Pairs(x) : x \in ToSet(<<call>>)} = Asks(g)
    BY <2>4, <2>6
  <2>. QED BY <2>3, <2>6, <2>7, <2>8
<1>4. CASE ~Fusable(g, indices)
  <2>. DEFINE stages == [i \in DOMAIN g |->
                           [op |-> "filter", text |-> g[i].text, conditions |-> <<g[i].condition>>,
                            recall |-> g[i].recall]]
  <2>1. Stages(g, indices) = stages /\ stages = [i \in DOMAIN g |-> stages[i]]
    BY <1>4 DEF Stages
  <2>2. \A i \in DOMAIN g : stages[i].op = "filter" /\ Pairs(stages[i]) = {<<g[i].text, g[i].condition>>}
    <3>1. ASSUME NEW i \in DOMAIN g PROVE Pairs(stages[i]) = {<<g[i].text, g[i].condition>>}
      <4>1. stages[i].text = g[i].text /\ stages[i].conditions = <<g[i].condition>>
        OBVIOUS
      <4>. HIDE DEF stages
      <4>. QED BY <4>1 DEF Pairs
    <3>. QED BY <3>1
  <2>. HIDE DEF stages
  <2>3. Listed(stages) /\ ToSet(stages) = {stages[i] : i \in DOMAIN g}
    BY <1>1, <2>1, MappedOf
  <2>4. UNION {Pairs(x) : x \in ToSet(stages)} = {<<g[i].text, g[i].condition>> : i \in DOMAIN g}
    <3>1. {Pairs(x) : x \in ToSet(stages)} = {Pairs(stages[i]) : i \in DOMAIN g}
      BY <2>3
    <3>2. UNION {Pairs(stages[i]) : i \in DOMAIN g}
            = {<<g[i].text, g[i].condition>> : i \in DOMAIN g}
      BY <2>2
    <3>. QED BY <3>1, <3>2
  <2>5. Asks(g) = {<<g[i].text, g[i].condition>> : i \in DOMAIN g}
    BY <1>2 DEF Asks
  <2>6. \A x \in ToSet(stages) : x.op \in {"filter", "classify"}
    BY <2>2, <2>3
  <2>. QED BY <2>1, <2>3, <2>4, <2>5, <2>6
<1>. QED BY <1>3, <1>4

LEMMA GroupsOf ==
  ASSUME NEW where, Listed(where)
  PROVE  /\ Listed(GroupByText(where))
         /\ \A n \in DOMAIN GroupByText(where) : Group(GroupByText(where)[n])
         /\ UNION {Asks(GroupByText(where)[n]) : n \in DOMAIN GroupByText(where)}
              = WherePairs(where)
<1>. DEFINE said == [i \in DOMAIN where |-> where[i].text]
            texts == Firsts(said)
            P(n) == {i \in DOMAIN where : where[i].text = texts[n]}
            groups == [n \in DOMAIN texts |-> At(where, P(n))]
<1>1. groups = GroupByText(where)
  BY DEF GroupByText
<1>2. Listed(said) /\ ToSet(said) = {where[i].text : i \in DOMAIN where}
  <2>1. said = [i \in DOMAIN where |-> said[i]] /\ \A i \in DOMAIN where : said[i] = where[i].text
    OBVIOUS
  <2>. HIDE DEF said
  <2>2. Listed(said) /\ ToSet(said) = {said[i] : i \in DOMAIN where}
    BY <2>1, MappedOf
  <2>. QED BY <2>1, <2>2
<1>. HIDE DEF said
<1>3. Listed(texts) /\ ToSet(texts) = {where[i].text : i \in DOMAIN where}
  BY <1>2, OncesOf
<1>. HIDE DEF texts
<1>4. Listed(groups) /\ DOMAIN groups = DOMAIN texts /\ \A n \in DOMAIN texts : groups[n] = At(where, P(n))
  <2>1. groups = [n \in DOMAIN texts |-> groups[n]] /\ \A n \in DOMAIN texts : groups[n] = At(where, P(n))
    OBVIOUS
  <2>. HIDE DEF groups
  <2>. QED BY <1>3, <2>1, MappedOf
<1>5. ASSUME NEW n \in DOMAIN texts
      PROVE  /\ Group(groups[n])
             /\ Asks(groups[n]) = {<<where[i].text, where[i].condition>> : i \in P(n)}
  <2>1. P(n) \in SUBSET DOMAIN where /\ \A i \in P(n) : where[i].text = texts[n]
    OBVIOUS
  <2>2. P(n) # {}
    <3>1. texts[n] \in ToSet(texts)
      BY DEF ToSet
    <3>. QED BY <3>1, <1>3
  <2>. HIDE DEF P
  <2>3. Listed(At(where, P(n))) /\ ToSet(At(where, P(n))) = {where[i] : i \in P(n)}
        /\ DOMAIN At(where, P(n)) # {}
    BY <2>1, <2>2, PartOf
  <2>4. groups[n] = At(where, P(n))
    BY <1>4
  <2>. HIDE DEF groups
  <2>5. Group(groups[n])
    BY <2>1, <2>3, <2>4 DEF Group
  <2>6. Asks(groups[n]) = {<<where[i].text, where[i].condition>> : i \in P(n)}
    BY <2>3, <2>4 DEF Asks
  <2>. QED BY <2>5, <2>6
<1>6. UNION {Asks(groups[n]) : n \in DOMAIN texts} = WherePairs(where)
  <2>1. \A i \in DOMAIN where : \E n \in DOMAIN texts : i \in P(n)
    <3>1. ASSUME NEW i \in DOMAIN where PROVE \E n \in DOMAIN texts : where[i].text = texts[n]
      <4>1. where[i].text \in ToSet(texts)
        BY <1>3
      <4>. QED BY <4>1 DEF ToSet
    <3>. QED BY <3>1
  <2>2. \A n \in DOMAIN texts : P(n) \in SUBSET DOMAIN where
    OBVIOUS
  <2>. HIDE DEF groups, P
  <2>3. {Asks(groups[n]) : n \in DOMAIN texts}
          = {{<<where[i].text, where[i].condition>> : i \in P(n)} : n \in DOMAIN texts}
    BY <1>5
  <2>4. UNION {{<<where[i].text, where[i].condition>> : i \in P(n)} : n \in DOMAIN texts}
          = {<<where[i].text, where[i].condition>> : i \in DOMAIN where}
    BY <2>1, <2>2
  <2>. QED BY <2>3, <2>4 DEF WherePairs
<1>. HIDE DEF groups
<1>. QED BY <1>1, <1>4, <1>5, <1>6

LEMMA MeansRewritten ==
  ASSUME NEW where, Listed(where), NEW indices
  PROVE  /\ Listed(RewriteMeans(where, indices))
         /\ \A x \in ToSet(RewriteMeans(where, indices)) : x.op \in {"filter", "classify"}
         /\ UNION {Pairs(x) : x \in ToSet(RewriteMeans(where, indices))} = WherePairs(where)
<1>. DEFINE groups == GroupByText(where)
            hinted == {n \in DOMAIN groups : groups[n][1].text \in indices}
            ordered == At(groups, hinted) \o At(groups, DOMAIN groups \ hinted)
            stages == [i \in DOMAIN ordered |-> Stages(ordered[i], indices)]
<1>1. RewriteMeans(where, indices) = FlattenSeq(stages)
  BY DEF RewriteMeans
<1>2. /\ Listed(groups)
      /\ \A n \in DOMAIN groups : Group(groups[n])
      /\ UNION {Asks(groups[n]) : n \in DOMAIN groups} = WherePairs(where)
  BY GroupsOf
<1>3. hinted \in SUBSET DOMAIN groups
  OBVIOUS
<1>. HIDE DEF groups, hinted
<1>4. Listed(ordered) /\ ToSet(ordered) = {groups[n] : n \in DOMAIN groups}
  <2>. DEFINE rest == DOMAIN groups \ hinted
  <2>1. rest \in SUBSET DOMAIN groups /\ hinted \union rest = DOMAIN groups
    BY <1>3
  <2>2. Listed(At(groups, hinted)) /\ ToSet(At(groups, hinted)) = {groups[n] : n \in hinted}
    BY <1>2, <1>3, PartOf
  <2>3. Listed(At(groups, rest)) /\ ToSet(At(groups, rest)) = {groups[n] : n \in rest}
    <3>. HIDE DEF rest
    <3>. QED BY <1>2, <2>1, PartOf
  <2>. HIDE DEF rest
  <2>4. Listed(At(groups, hinted) \o At(groups, rest))
        /\ ToSet(At(groups, hinted) \o At(groups, rest))
             = ToSet(At(groups, hinted)) \union ToSet(At(groups, rest))
    BY <2>2, <2>3, JoinedOf
  <2>5. {groups[n] : n \in hinted} \union {groups[n] : n \in rest} = {groups[n] : n \in DOMAIN groups}
    BY <2>1
  <2>. QED BY <2>2, <2>3, <2>4, <2>5 DEF rest
<1>. HIDE DEF ordered
<1>5. \A g \in ToSet(ordered) : Group(g)
  BY <1>2, <1>4
<1>6. /\ Listed(stages) /\ DOMAIN stages = DOMAIN ordered
      /\ \A i \in DOMAIN ordered : stages[i] = Stages(ordered[i], indices)
  <2>1. stages = [i \in DOMAIN ordered |-> stages[i]]
        /\ \A i \in DOMAIN ordered : stages[i] = Stages(ordered[i], indices)
    OBVIOUS
  <2>. HIDE DEF stages
  <2>. QED BY <1>4, <2>1, MappedOf
<1>. HIDE DEF stages
<1>7. ASSUME NEW i \in DOMAIN stages
      PROVE  /\ Listed(stages[i])
             /\ \A x \in ToSet(stages[i]) : x.op \in {"filter", "classify"}
             /\ UNION {Pairs(x) : x \in ToSet(stages[i])} = Asks(ordered[i])
  <2>1. ordered[i] \in ToSet(ordered)
    BY <1>6 DEF ToSet
  <2>2. Group(ordered[i]) /\ stages[i] = Stages(ordered[i], indices)
    BY <2>1, <1>5, <1>6
  <2>. DEFINE g == ordered[i]
  <2>3. Group(g)
    BY <2>2
  <2>. HIDE DEF g
  <2>4. /\ Listed(Stages(g, indices))
        /\ \A x \in ToSet(Stages(g, indices)) : x.op \in {"filter", "classify"}
        /\ UNION {Pairs(x) : x \in ToSet(Stages(g, indices))} = Asks(g)
    BY <2>3, StagesOf
  <2>. QED BY <2>2, <2>4 DEF g
<1>8. /\ Listed(FlattenSeq(stages))
      /\ ToSet(FlattenSeq(stages)) = UNION {ToSet(stages[i]) : i \in DOMAIN stages}
  BY <1>6, <1>7, FlatOf
<1>9. \A x \in ToSet(FlattenSeq(stages)) : x.op \in {"filter", "classify"}
  BY <1>7, <1>8
<1>10. UNION {Pairs(x) : x \in ToSet(FlattenSeq(stages))} = WherePairs(where)
  <2>1. UNION {Pairs(x) : x \in ToSet(FlattenSeq(stages))}
          = UNION {UNION {Pairs(x) : x \in ToSet(stages[i])} : i \in DOMAIN stages}
    BY <1>8
  <2>2. {UNION {Pairs(x) : x \in ToSet(stages[i])} : i \in DOMAIN stages}
          = {Asks(ordered[i]) : i \in DOMAIN ordered}
    BY <1>6, <1>7
  <2>3. {Asks(ordered[i]) : i \in DOMAIN ordered} = {Asks(g) : g \in ToSet(ordered)}
    BY DEF ToSet
  <2>4. {Asks(g) : g \in ToSet(ordered)} = {Asks(groups[n]) : n \in DOMAIN groups}
    BY <1>4
  <2>. QED BY <2>1, <2>2, <2>3, <2>4, <1>2
<1>. QED BY <1>1, <1>8, <1>9, <1>10

(***************************************************************************)
(* The rewrite of extractions: each node asks for whole units of its type. *)
(***************************************************************************)
UnitsWhole(op, q, registry) ==
  LET named == Referenced(Named(q), [source |-> op.text, type |-> op.type])
  IN  op.op = "extract" /\ op.type # Inline =>
        /\ op.type \in DOMAIN registry
        /\ ToSet(GenerationUnits(op.target)) =
             {u \in ToSet(GenerationUnits(registry[op.type])) :
                Whole \in named \/ ToSet(u) \intersect named # {}}

Resolved(q, registry) ==
  /\ \A i \in DOMAIN q.extracts : Resolves(q.extracts[i], registry)
  /\ Listed(q.extracts)

LEMMA NamedNodesOf ==
  ASSUME NEW q, NEW registry, Resolved(q, registry),
         \A n \in DOMAIN registry : Sound(registry[n])
  PROVE  /\ Listed(NamedNodes(Named(q), registry))
         /\ \A x \in ToSet(NamedNodes(Named(q), registry)) :
              x.op = "extract" /\ UnitsWhole(x, q, registry)
<1>. DEFINE markers == Named(q)
            P == {i \in DOMAIN q.extracts : q.extracts[i].type # Inline}
            keys == [i \in DOMAIN markers |->
                       [source |-> markers[i].source, type |-> Lower[markers[i].type]]]
            nodes == Firsts(keys)
            target(node) == LET fields == Referenced(markers, node)
                            IN  IF Whole \in fields THEN registry[node.type]
                                ELSE Pruned(registry[node.type], fields)
            Made(node) == [op |-> "extract", text |-> node.source, type |-> node.type,
                           target |-> target(node)]
            made == [n \in DOMAIN nodes |-> Made(nodes[n])]
<1>1. made = NamedNodes(markers, registry)
  BY DEF NamedNodes
<1>2. Listed(markers) /\ ToSet(markers) = {q.extracts[i] : i \in P}
  <2>1. P \in SUBSET DOMAIN q.extracts
    OBVIOUS
  <2>2. markers = At(q.extracts, P)
    BY DEF Named
  <2>. HIDE DEF P, markers
  <2>. QED BY <2>1, <2>2, PartOf DEF Resolved
<1>3. \A m \in ToSet(markers) : Lower[m.type] \in DOMAIN registry
  BY <1>2 DEF Resolved, Resolves
<1>. HIDE DEF markers
<1>4. Listed(keys) /\ ToSet(keys) = {[source |-> m.source, type |-> Lower[m.type]] : m \in ToSet(markers)}
  <2>1. /\ keys = [i \in DOMAIN markers |-> keys[i]]
        /\ \A i \in DOMAIN markers :
             keys[i] = [source |-> markers[i].source, type |-> Lower[markers[i].type]]
    OBVIOUS
  <2>2. {[source |-> markers[i].source, type |-> Lower[markers[i].type]] : i \in DOMAIN markers}
          = {[source |-> m.source, type |-> Lower[m.type]] : m \in ToSet(markers)}
    BY DEF ToSet
  <2>. HIDE DEF keys
  <2>3. Listed(keys) /\ ToSet(keys) = {keys[i] : i \in DOMAIN markers}
    BY <1>2, <2>1, MappedOf
  <2>4. {keys[i] : i \in DOMAIN markers}
          = {[source |-> markers[i].source, type |-> Lower[markers[i].type]] : i \in DOMAIN markers}
    BY <2>1
  <2>. QED BY <2>2, <2>3, <2>4
<1>. HIDE DEF keys
<1>5. Listed(nodes) /\ ToSet(nodes) = ToSet(keys)
  BY <1>4, OncesOf
<1>. HIDE DEF nodes
<1>6. \A node \in ToSet(nodes) :
        node.type \in DOMAIN registry /\ node = [source |-> node.source, type |-> node.type]
  BY <1>3, <1>4, <1>5
<1>7. Listed(made) /\ ToSet(made) = {Made(node) : node \in ToSet(nodes)}
  <2>1. {Made(nodes[n]) : n \in DOMAIN nodes} = {Made(node) : node \in ToSet(nodes)}
    BY DEF ToSet
  <2>. HIDE DEF Made
  <2>2. made = [n \in DOMAIN nodes |-> made[n]] /\ \A n \in DOMAIN nodes : made[n] = Made(nodes[n])
    OBVIOUS
  <2>. HIDE DEF made
  <2>3. Listed(made) /\ ToSet(made) = {made[n] : n \in DOMAIN nodes}
    BY <1>5, <2>2, MappedOf
  <2>4. {made[n] : n \in DOMAIN nodes} = {Made(nodes[n]) : n \in DOMAIN nodes}
    BY <2>2
  <2>. QED BY <2>1, <2>3, <2>4
<1>8. ASSUME NEW node \in ToSet(nodes)
      PROVE  Made(node).op = "extract" /\ UnitsWhole(Made(node), q, registry)
  <2>. DEFINE fields == Referenced(markers, node)
              type == registry[node.type]
              x == Made(node)
  <2>1. /\ x.op = "extract" /\ x.type = node.type /\ x.text = node.source
        /\ x.target = IF Whole \in fields THEN type ELSE Pruned(type, fields)
    OBVIOUS
  <2>2. Referenced(Named(q), [source |-> x.text, type |-> x.type]) = fields
    <3>1. [source |-> x.text, type |-> x.type] = node
      BY <2>1, <1>6
    <3>. HIDE DEF x
    <3>. QED BY <3>1 DEF markers
  <2>3. x.type \in DOMAIN registry /\ registry[x.type] = type /\ Sound(type)
    BY <1>6
  <2>. HIDE DEF x, fields, type
  <2>4. CASE Whole \in fields
    <3>1. ToSet(GenerationUnits(x.target))
            = {u \in ToSet(GenerationUnits(type)) : Whole \in fields \/ ToSet(u) \intersect fields # {}}
      BY <2>1, <2>4
    <3>. QED BY <2>1, <2>2, <2>3, <3>1 DEF UnitsWhole, x
  <2>5. CASE Whole \notin fields
    <3>1. ToSet(GenerationUnits(Pruned(type, fields)))
            = {u \in ToSet(GenerationUnits(type)) : ToSet(u) \intersect fields # {}}
      BY <2>3, PrunedUnits
    <3>2. ToSet(GenerationUnits(x.target))
            = {u \in ToSet(GenerationUnits(type)) : Whole \in fields \/ ToSet(u) \intersect fields # {}}
      BY <2>1, <2>5, <3>1
    <3>. QED BY <2>1, <2>2, <2>3, <3>2 DEF UnitsWhole, x
  <2>. QED BY <2>4, <2>5
<1>. HIDE DEF made, Made
<1>. QED BY <1>1, <1>7, <1>8 DEF markers

LEMMA InlineNodesOf ==
  ASSUME NEW q, Listed(q.extracts)
  PROVE  /\ Listed(InlineNodes(InlineMarkers(q)))
         /\ \A x \in ToSet(InlineNodes(InlineMarkers(q))) : x.op = "extract" /\ x.type = Inline
<1>. DEFINE markers == InlineMarkers(q)
            P == {i \in DOMAIN q.extracts : q.extracts[i].type = Inline}
            keys == [i \in DOMAIN markers |->
                       [source |-> markers[i].source, field |-> markers[i].field]]
            nodes == Firsts(keys)
            made == [n \in DOMAIN nodes |->
                       [op |-> "extract", text |-> nodes[n].source, type |-> Inline,
                        target |-> [fields |-> <<nodes[n].field>>, together |-> {}]]]
<1>1. made = InlineNodes(markers)
  BY DEF InlineNodes
<1>2. Listed(markers)
  <2>1. P \in SUBSET DOMAIN q.extracts
    OBVIOUS
  <2>2. markers = At(q.extracts, P)
    BY DEF InlineMarkers
  <2>. HIDE DEF P, markers
  <2>. QED BY <2>1, <2>2, PartOf
<1>. HIDE DEF markers
<1>3. Listed(keys)
  <2>1. keys = [i \in DOMAIN markers |-> keys[i]]
    OBVIOUS
  <2>. HIDE DEF keys
  <2>. QED BY <1>2, <2>1, MappedOf
<1>. HIDE DEF keys
<1>4. Listed(nodes)
  BY <1>3, OncesOf
<1>. HIDE DEF nodes
<1>5. Listed(made) /\ \A x \in ToSet(made) : x.op = "extract" /\ x.type = Inline
  <2>1. /\ made = [n \in DOMAIN nodes |-> made[n]]
        /\ \A n \in DOMAIN nodes : made[n].op = "extract" /\ made[n].type = Inline
    OBVIOUS
  <2>. HIDE DEF made
  <2>2. Listed(made) /\ ToSet(made) = {made[n] : n \in DOMAIN nodes}
    BY <1>4, <2>1, MappedOf
  <2>. QED BY <2>1, <2>2
<1>. HIDE DEF made
<1>. QED BY <1>1, <1>5 DEF markers

LEMMA ExtractRewritten ==
  ASSUME NEW q, NEW registry, Resolved(q, registry),
         \A n \in DOMAIN registry : Sound(registry[n])
  PROVE  /\ Listed(RewriteExtract(q, registry))
         /\ \A x \in ToSet(RewriteExtract(q, registry)) :
              x.op = "extract" /\ UnitsWhole(x, q, registry)
<1>. DEFINE a == NamedNodes(Named(q), registry)
            b == InlineNodes(InlineMarkers(q))
<1>1. Listed(a) /\ \A x \in ToSet(a) : x.op = "extract" /\ UnitsWhole(x, q, registry)
  BY NamedNodesOf
<1>2. Listed(b) /\ \A x \in ToSet(b) : x.op = "extract" /\ x.type = Inline
  BY InlineNodesOf DEF Resolved
<1>3. RewriteExtract(q, registry) = a \o b
  BY DEF RewriteExtract
<1>. HIDE DEF a, b
<1>4. Listed(a \o b) /\ ToSet(a \o b) = ToSet(a) \union ToSet(b)
  BY <1>1, <1>2, JoinedOf
<1>5. \A x \in ToSet(b) : UnitsWhole(x, q, registry)
  BY <1>2 DEF UnitsWhole
<1>. QED BY <1>1, <1>2, <1>3, <1>4, <1>5

(***************************************************************************)
(* The optimized plan: its rules, each in turn.                            *)
(***************************************************************************)
LEMMA RecallKept ==
  ASSUME NEW q, WellSaid(q), q.kind = "query"
  PROVE  Listed(ApplyRecall(q)) /\ WherePairs(ApplyRecall(q)) = WherePairs(q.where)
<1>. DEFINE where == q.where
            recalled == ApplyRecall(q)
<1>1. Listed(where) /\ \A i \in DOMAIN where : Marker(where[i])
  BY SequenceOf DEF WellSaid, Listed
<1>2. /\ recalled = [i \in DOMAIN where |-> recalled[i]]
      /\ \A i \in DOMAIN where :
           recalled[i] = where[i] \/ recalled[i] = [where[i] EXCEPT !.recall = Clause(q.with, "recall")]
  BY DEF ApplyRecall
<1>. HIDE DEF recalled, where
<1>3. \A i \in DOMAIN where :
        recalled[i].text = where[i].text /\ recalled[i].condition = where[i].condition
  <2>1. ASSUME NEW i \in DOMAIN where
        PROVE  recalled[i].text = where[i].text /\ recalled[i].condition = where[i].condition
    <3>. DEFINE m == where[i]
                r == Clause(q.with, "recall")
    <3>1. m = [text |-> m.text, condition |-> m.condition, recall |-> m.recall]
      BY <1>1 DEF Marker
    <3>2. recalled[i] = m \/ recalled[i] = [m EXCEPT !.recall = r]
      BY <1>2
    <3>. HIDE DEF m, r
    <3>3. [m EXCEPT !.recall = r].text = m.text /\ [m EXCEPT !.recall = r].condition = m.condition
      BY <3>1
    <3>4. recalled[i].text = m.text /\ recalled[i].condition = m.condition
      BY <3>2, <3>3
    <3>. QED BY <3>4 DEF m
  <2>. QED BY <2>1
<1>4. Listed(recalled) /\ DOMAIN recalled = DOMAIN where
  BY <1>1, <1>2, MappedOf
<1>5. WherePairs(recalled) = WherePairs(where)
  BY <1>3, <1>4 DEF WherePairs
<1>. QED BY <1>4, <1>5 DEF where, recalled

LEMMA RestRewritten ==
  ASSUME NEW q, WellSaid(q), q.kind = "query"
  PROVE  /\ Listed(RewriteRelevance(q)) /\ \A x \in ToSet(RewriteRelevance(q)) : x.op = "rank"
         /\ Listed(RewriteCluster(q)) /\ \A x \in ToSet(RewriteCluster(q)) : x.op = "cluster"
         /\ Listed(RewriteDistinct(q)) /\ \A x \in ToSet(RewriteDistinct(q)) : x.op = "distinct"
<1>1. Listed(q.scores) /\ Listed(q.groups) /\ Listed(Keys(q))
  <2>1. \A s : IsSequence(s) => Listed(s)
    BY SequenceOf DEF Listed
  <2>2. IsSequence(q.scores) /\ IsSequence(q.groups) /\ IsSequence(q.distincts)
    BY DEF WellSaid
  <2>3. Listed(Keys(q))
    <3>. DEFINE P == {i \in DOMAIN q.distincts : q.semantic /\ ~q.distincts[i].branch}
                wrapped == At(q.distincts, P)
                keys == Keys(q)
    <3>1. keys = [n \in DOMAIN wrapped |-> keys[n]]
      BY DEF Keys
    <3>2. Listed(wrapped)
      BY <2>1, <2>2, PartOf
    <3>. HIDE DEF wrapped, keys
    <3>3. Listed(keys)
      BY <3>1, <3>2, MappedOf
    <3>. QED BY <3>3 DEF keys
  <2>. QED BY <2>1, <2>2, <2>3
<1>2. ASSUME NEW s, Listed(s), NEW f, NEW kind,
             f = [i \in DOMAIN s |-> f[i]], \A i \in DOMAIN s : f[i].op = kind
      PROVE  Listed(f) /\ \A x \in ToSet(f) : x.op = kind
  <2>1. Listed(f) /\ ToSet(f) = {f[i] : i \in DOMAIN s}
    BY <1>2, MappedOf
  <2>. QED BY <1>2, <2>1
<1>3. Listed(RewriteRelevance(q)) /\ \A x \in ToSet(RewriteRelevance(q)) : x.op = "rank"
  <2>. DEFINE s == Firsts(q.scores)
              f == RewriteRelevance(q)
  <2>1. f = [i \in DOMAIN s |-> f[i]] /\ \A i \in DOMAIN s : f[i].op = "rank"
    BY DEF RewriteRelevance
  <2>2. Listed(s)
    BY <1>1, OncesOf
  <2>. HIDE DEF s, f
  <2>3. Listed(f) /\ \A x \in ToSet(f) : x.op = "rank"
    BY <2>1, <2>2, <1>2
  <2>. QED BY <2>3 DEF f
<1>4. Listed(RewriteCluster(q)) /\ \A x \in ToSet(RewriteCluster(q)) : x.op = "cluster"
  <2>. DEFINE keys == [i \in DOMAIN q.groups |-> [text |-> q.groups[i].text, k |-> q.groups[i].k]]
              s == Firsts(keys)
              f == RewriteCluster(q)
  <2>1. f = [i \in DOMAIN s |-> f[i]] /\ \A i \in DOMAIN s : f[i].op = "cluster"
    BY DEF RewriteCluster
  <2>2. Listed(s)
    <3>1. keys = [i \in DOMAIN q.groups |-> keys[i]]
      OBVIOUS
    <3>. HIDE DEF keys
    <3>2. Listed(keys)
      BY <1>1, <3>1, MappedOf
    <3>. QED BY <3>2, OncesOf
  <2>. HIDE DEF s, f
  <2>3. Listed(f) /\ \A x \in ToSet(f) : x.op = "cluster"
    BY <2>1, <2>2, <1>2
  <2>. QED BY <2>3 DEF f
<1>5. Listed(RewriteDistinct(q)) /\ \A x \in ToSet(RewriteDistinct(q)) : x.op = "distinct"
  <2>. DEFINE s == Firsts(Keys(q))
              f == RewriteDistinct(q)
  <2>1. f = [i \in DOMAIN s |-> f[i]] /\ \A i \in DOMAIN s : f[i].op = "distinct"
    BY DEF RewriteDistinct
  <2>2. Listed(s)
    BY <1>1, OncesOf
  <2>. HIDE DEF s, f
  <2>3. Listed(f) /\ \A x \in ToSet(f) : x.op = "distinct"
    BY <2>1, <2>2, <1>2
  <2>. QED BY <2>3 DEF f
<1>. QED BY <1>3, <1>4, <1>5

Verifying == {"filter", "classify", "verify"}

LEMMA OptimizedOf ==
  ASSUME NEW q, WellSaid(q), q.kind = "query", NEW registry, Resolved(q, registry),
         \A n \in DOMAIN registry : Sound(registry[n]), NEW indices
  PROVE  /\ Listed(Optimized(q, registry, indices))
         /\ Asked(ToSet(Optimized(q, registry, indices)), Verifying) = WherePairs(q.where)
         /\ \A x \in ToSet(Optimized(q, registry, indices)) : UnitsWhole(x, q, registry)
<1>. DEFINE means == RewriteMeans(ApplyRecall(q), indices)
            labels == [i \in DOMAIN q.labels |->
                         [op |-> "label", text |-> q.labels[i].text,
                          conditions |-> q.labels[i].conditions]]
            units == RewriteExtract(q, registry)
            ranks == RewriteRelevance(q)
            clusters == RewriteCluster(q)
            distincts == RewriteDistinct(q)
            ops == means \o labels \o units \o ranks \o clusters \o distincts
<1>1. Optimized(q, registry, indices) = ops
  BY DEF Optimized
<1>2. /\ Listed(means) /\ \A x \in ToSet(means) : x.op \in {"filter", "classify"}
      /\ UNION {Pairs(x) : x \in ToSet(means)} = WherePairs(q.where)
  <2>. DEFINE where == ApplyRecall(q)
  <2>1. Listed(where) /\ WherePairs(where) = WherePairs(q.where)
    BY RecallKept
  <2>. HIDE DEF where
  <2>2. /\ Listed(RewriteMeans(where, indices))
        /\ \A x \in ToSet(RewriteMeans(where, indices)) : x.op \in {"filter", "classify"}
        /\ UNION {Pairs(x) : x \in ToSet(RewriteMeans(where, indices))} = WherePairs(where)
    BY <2>1, MeansRewritten
  <2>. QED BY <2>1, <2>2 DEF where
<1>3. Listed(labels) /\ \A x \in ToSet(labels) : x.op = "label"
  <2>1. Listed(q.labels)
    BY SequenceOf DEF WellSaid, Listed
  <2>2. labels = [i \in DOMAIN q.labels |-> labels[i]] /\ \A i \in DOMAIN q.labels : labels[i].op = "label"
    OBVIOUS
  <2>. HIDE DEF labels
  <2>3. Listed(labels) /\ ToSet(labels) = {labels[i] : i \in DOMAIN q.labels}
    BY <2>1, <2>2, MappedOf
  <2>. QED BY <2>2, <2>3
<1>4. Listed(units) /\ \A x \in ToSet(units) : x.op = "extract" /\ UnitsWhole(x, q, registry)
  BY ExtractRewritten
<1>5. /\ Listed(ranks) /\ \A x \in ToSet(ranks) : x.op = "rank"
      /\ Listed(clusters) /\ \A x \in ToSet(clusters) : x.op = "cluster"
      /\ Listed(distincts) /\ \A x \in ToSet(distincts) : x.op = "distinct"
  BY RestRewritten
<1>. HIDE DEF means, labels, units, ranks, clusters, distincts
<1>. DEFINE two == means \o labels
            three == two \o units
            four == three \o ranks
            five == four \o clusters
            six == five \o distincts
<1>6. Listed(two) /\ ToSet(two) = ToSet(means) \union ToSet(labels)
  BY <1>2, <1>3, JoinedOf
<1>. HIDE DEF two
<1>7. Listed(three) /\ ToSet(three) = ToSet(two) \union ToSet(units)
  BY <1>4, <1>6, JoinedOf
<1>. HIDE DEF three
<1>8. Listed(four) /\ ToSet(four) = ToSet(three) \union ToSet(ranks)
  BY <1>5, <1>7, JoinedOf
<1>. HIDE DEF four
<1>9. Listed(five) /\ ToSet(five) = ToSet(four) \union ToSet(clusters)
  BY <1>5, <1>8, JoinedOf
<1>. HIDE DEF five
<1>10. Listed(six) /\ ToSet(six) = ToSet(five) \union ToSet(distincts)
  BY <1>5, <1>9, JoinedOf
<1>11. ops = six
  BY DEF two, three, four, five
<1>. HIDE DEF six, ops
<1>12. {x \in ToSet(six) : x.op \in Verifying} = ToSet(means)
  <2>1. ToSet(six) = ToSet(means) \union (ToSet(labels) \union ToSet(units) \union ToSet(ranks)
                       \union ToSet(clusters) \union ToSet(distincts))
    BY <1>6, <1>7, <1>8, <1>9, <1>10
  <2>2. \A x \in ToSet(labels) \union ToSet(units) \union ToSet(ranks)
                   \union ToSet(clusters) \union ToSet(distincts) : x.op \notin Verifying
    BY <1>3, <1>4, <1>5 DEF Verifying
  <2>3. \A x \in ToSet(means) : x.op \in Verifying
    BY <1>2 DEF Verifying
  <2>. QED BY <2>1, <2>2, <2>3
<1>13. Asked(ToSet(six), Verifying) = WherePairs(q.where)
  BY <1>2, <1>12 DEF Asked
<1>14. \A x \in ToSet(six) : UnitsWhole(x, q, registry)
  <2>1. \A x : x.op # "extract" => UnitsWhole(x, q, registry)
    BY DEF UnitsWhole
  <2>. QED BY <2>1, <1>2, <1>3, <1>4, <1>5, <1>6, <1>7, <1>8, <1>9, <1>10
<1>. QED BY <1>1, <1>10, <1>11, <1>13, <1>14

(***************************************************************************)
(* The physical plan: a filter becomes a verification of its conditions,   *)
(* behind a scan or not.                                                   *)
(***************************************************************************)
LEMMA PhysicalOpsOf ==
  ASSUME NEW op, NEW indices
  PROVE  /\ Listed(PhysicalOps(op, indices))
         /\ Asked(ToSet(PhysicalOps(op, indices)), {"verify", "classify"}) = Asked({op}, Verifying)
         /\ \A x \in ToSet(PhysicalOps(op, indices)) : x.op = "extract" => x = op
<1>. DEFINE verify == [op |-> "verify", text |-> op.text, conditions |-> op.conditions]
            scan == [op |-> "scan", text |-> op.text, conditions |-> op.conditions,
                     recall |-> op.recall]
            kinds == {"verify", "classify"}
<1>1. CASE op.op # "filter"
  <2>1. PhysicalOps(op, indices) = <<op>>
    BY <1>1 DEF PhysicalOps
  <2>2. Listed(<<op>>) /\ ToSet(<<op>>) = {op}
    BY DEF Listed, ToSet
  <2>3. {x \in {op} : x.op \in kinds} = {x \in {op} : x.op \in Verifying}
    BY <1>1 DEF Verifying
  <2>4. Asked({op}, kinds) = Asked({op}, Verifying)
    BY <2>3 DEF Asked
  <2>. QED BY <2>1, <2>2, <2>4
<1>2. CASE op.op = "filter"
  <2>1. verify.op = "verify" /\ scan.op = "scan" /\ Pairs(verify) = Pairs(op)
    BY DEF Pairs
  <2>2. PhysicalOps(op, indices) = <<verify>> \/ PhysicalOps(op, indices) = <<scan, verify>>
    BY <1>2 DEF PhysicalOps
  <2>. HIDE DEF verify, scan
  <2>3. Listed(<<verify>>) /\ ToSet(<<verify>>) = {verify}
        /\ Listed(<<scan, verify>>) /\ ToSet(<<scan, verify>>) = {scan, verify}
    BY DEF Listed, ToSet
  <2>4. {x \in {verify} : x.op \in kinds} = {verify}
        /\ {x \in {scan, verify} : x.op \in kinds} = {verify}
        /\ {x \in {op} : x.op \in Verifying} = {op}
    BY <1>2, <2>1 DEF Verifying
  <2>5. Asked({verify}, kinds) = Pairs(op) /\ Asked({scan, verify}, kinds) = Pairs(op)
        /\ Asked({op}, Verifying) = Pairs(op)
    BY <2>1, <2>4 DEF Asked
  <2>. QED BY <2>1, <2>2, <2>3, <2>5
<1>. QED BY <1>1, <1>2

LEMMA PhysicalOf ==
  ASSUME NEW ops, Listed(ops), NEW indices
  PROVE  /\ Listed(Physical(ops, indices))
         /\ Asked(ToSet(Physical(ops, indices)), {"verify", "classify"})
              = Asked(ToSet(ops), Verifying)
         /\ \A x \in ToSet(Physical(ops, indices)) : x.op = "extract" => x \in ToSet(ops)
<1>. DEFINE parts == [i \in DOMAIN ops |-> PhysicalOps(ops[i], indices)]
            kinds == {"verify", "classify"}
<1>1. Physical(ops, indices) = FlattenSeq(parts)
  BY DEF Physical
<1>2. /\ parts = [i \in DOMAIN ops |-> parts[i]]
      /\ \A i \in DOMAIN ops : parts[i] = PhysicalOps(ops[i], indices)
  OBVIOUS
<1>. HIDE DEF parts
<1>3. Listed(parts) /\ DOMAIN parts = DOMAIN ops
  BY <1>2, MappedOf
<1>4. ASSUME NEW i \in DOMAIN ops
      PROVE  /\ Listed(parts[i])
             /\ Asked(ToSet(parts[i]), kinds) = Asked({ops[i]}, Verifying)
             /\ \A x \in ToSet(parts[i]) : x.op = "extract" => x = ops[i]
  BY <1>2, PhysicalOpsOf
<1>5. /\ Listed(FlattenSeq(parts))
      /\ ToSet(FlattenSeq(parts)) = UNION {ToSet(parts[i]) : i \in DOMAIN parts}
  BY <1>3, <1>4, FlatOf
<1>6. Asked(ToSet(FlattenSeq(parts)), kinds) = UNION {Asked(ToSet(parts[i]), kinds) : i \in DOMAIN ops}
  BY <1>3, <1>5 DEF Asked
<1>7. Asked(ToSet(ops), Verifying) = UNION {Asked({ops[i]}, Verifying) : i \in DOMAIN ops}
  BY DEF Asked, ToSet
<1>8. {Asked(ToSet(parts[i]), kinds) : i \in DOMAIN ops} = {Asked({ops[i]}, Verifying) : i \in DOMAIN ops}
  BY <1>4
<1>9. \A x \in ToSet(FlattenSeq(parts)) : x.op = "extract" => x \in ToSet(ops)
  <2>1. \A i \in DOMAIN ops : ops[i] \in ToSet(ops)
    BY DEF ToSet
  <2>. QED BY <2>1, <1>3, <1>4, <1>5
<1>. QED BY <1>1, <1>5, <1>6, <1>7, <1>8, <1>9

(***************************************************************************)
(* What the engine holds of a statement from parsing it to its last event. *)
(* A session's plan is of its own statement; the types it was planned      *)
(* against are never replaced.                                             *)
(***************************************************************************)
Engine == {"parse", "optimize", "plan", "announce", "stream", "totals"}

Executing == {"announce", "stream", "totals"}

Planned(s, registry) ==
  LET q == Statements[s.string][s.at]
  IN  /\ s.at \in Nat \ {0}
      /\ s.string \in Strings \union {"none"}
      /\ s.pc \in Engine => /\ s.string \in Strings /\ s.string # "none"
                            /\ s.at \in DOMAIN Statements[s.string]
      /\ s.pc \in Engine \ {"parse"} => q.kind = "query"
      /\ s.pc = "optimize" => Resolved(q, registry)
      /\ s.pc \in {"plan"} \union Executing =>
           /\ Listed(s.ops)
           /\ \A x \in ToSet(s.ops) : UnitsWhole(x, q, registry)
      /\ s.pc = "plan" => Asked(ToSet(s.ops), Verifying) = WherePairs(q.where)
      /\ s.pc \in Executing =>
           Asked(ToSet(s.ops), {"verify", "classify"}) = WherePairs(q.where)

Registered(registry) == \A n \in DOMAIN registry : Sound(registry[n])

PlannedInv == Registered(types) /\ \A c \in Clients : Planned(session[c], types)

Extends(registry, wider) ==
  \A n \in DOMAIN registry : n \in DOMAIN wider /\ wider[n] = registry[n]

LEMMA PlannedWider ==
  ASSUME NEW s, NEW registry, NEW wider, Extends(registry, wider), Planned(s, registry)
  PROVE  Planned(s, wider)
<1>. DEFINE q == Statements[s.string][s.at]
<1>1. Resolved(q, registry) => Resolved(q, wider)
  BY DEF Resolved, Resolves, Extends
<1>2. \A x : UnitsWhole(x, q, registry) => UnitsWhole(x, q, wider)
  BY DEF UnitsWhole, Extends
<1>3. /\ s.pc = "optimize" => Resolved(q, wider)
      /\ s.pc \in {"plan"} \union Executing => \A x \in ToSet(s.ops) : UnitsWhole(x, q, wider)
  BY <1>1, <1>2 DEF Planned
<1>. QED BY <1>3 DEF Planned

LEMMA OnePlanned ==
  ASSUME PlannedInv, NEW c \in Clients, OneChanged(c),
         Extends(types, types'), Registered(types'), Planned(session'[c], types')
  PROVE  PlannedInv'
<1>1. \A d \in Clients : Planned(session'[d], types')
  <2>1. ASSUME NEW d \in Clients, d # c PROVE Planned(session'[d], types')
    <3>1. session'[d] = session[d] /\ Planned(session[d], types)
      BY <2>1 DEF OneChanged, PlannedInv
    <3>. QED BY <3>1, PlannedWider
  <2>. QED BY <2>1
<1>. QED BY <1>1 DEF PlannedInv, Registered, Planned

(* Outside the engine there is nothing to hold.                            *)
Idle(s, t) ==
  /\ t.pc \notin Engine
  /\ t.at \in {s.at, s.at + 1, 1}
  /\ t.string \in Strings \union {"none", s.string}

LEMMA IdlePlanned ==
  ASSUME NEW s, NEW t, NEW registry, NEW wider, Planned(s, registry), Idle(s, t)
  PROVE  Planned(t, wider)
<1>1. t.at \in Nat \ {0}
  <2>1. s.at \in Nat \ {0} /\ t.at \in {s.at, s.at + 1, 1}
    BY DEF Planned, Idle
  <2>. QED BY <2>1
<1>2. t.string \in Strings \union {"none"}
  BY DEF Planned, Idle
<1>3. t.pc \notin Engine /\ t.pc \notin Executing /\ t.pc \notin {"plan", "optimize", "parse"}
  BY DEF Idle, Engine, Executing
<1>. QED BY <1>1, <1>2, <1>3 DEF Planned

(* Nor does it change while a statement executes.                          *)
Going(s, t) ==
  /\ t.string = s.string /\ t.at = s.at /\ t.ops = s.ops
  /\ t.pc = s.pc \/ {s.pc, t.pc} \subseteq Executing

LEMMA GoingPlanned ==
  ASSUME NEW s, NEW t, NEW registry, Planned(s, registry), Going(s, t)
  PROVE  Planned(t, registry)
<1>1. CASE t.pc = s.pc
  BY <1>1 DEF Planned, Going
<1>2. CASE {s.pc, t.pc} \subseteq Executing
  <2>1. {s.pc, t.pc} \subseteq Engine \ {"parse"} /\ {s.pc, t.pc} \intersect {"plan", "optimize"} = {}
    BY <1>2 DEF Engine, Executing
  <2>. QED BY <1>2, <2>1 DEF Planned, Going
<1>. QED BY <1>1, <1>2 DEF Going

LEMMA StatementOf ==
  ASSUME NEW c \in Clients, Planned(session[c], types), session[c].pc \in Engine
  PROVE  /\ Statement(c) = Statements[session[c].string][session[c].at]
         /\ WellSaid(Statement(c))
<1>1. /\ session[c].string \in Strings /\ session[c].string # "none"
      /\ session[c].at \in DOMAIN Statements[session[c].string]
  BY DEF Planned
<1>2. Statement(c) = Statements[session[c].string][session[c].at]
  BY <1>1 DEF Statement, Split
<1>. QED BY <1>1, <1>2, StatementsAssumption

(***************************************************************************)
(* Each step keeps it.                                                     *)
(***************************************************************************)
LEMMA IdleSteps ==
  ASSUME SessionInv, PlannedInv, NEW c \in Clients,
         \/ Receive(c) \/ AnswerRouted(c) \/ EndString(c) \/ CreateIndex(c) \/ Totals(c)
         \/ Drain(c) \/ AnswerStatement(c) \/ EncodingFails(c) \/ SendResponses(c) \/ SendFails(c)
  PROVE  PlannedInv'
<1>. DEFINE s == session[c]
            t == session'[c]
<1>1. DOMAIN s = DOMAIN Fresh /\ DOMAIN session = Clients /\ Planned(s, types)
  BY DEF SessionInv, Good, PlannedInv
<1>2. types' = types
  BY DEF Receive, AnswerRouted, EndString, CreateIndex, Totals, Drain, Take, AnswerStatement,
         EncodingFails, SendResponses, SendFails
<1>3. OneChanged(c) /\ Idle(s, t)
  <2>1. CASE Receive(c)
    <3>. DEFINE New(string) == [Fresh EXCEPT !.pc = "route", !.string = string,
                                             !.strings = session[c].strings + 1]
    <3>1. PICK string \in Strings : session' = [session EXCEPT ![c] = New(string)]
      BY <2>1, Zenon DEF Receive
    <3>. DEFINE x == New(string)
    <3>2. x.pc = "route" /\ x.at = 1 /\ x.string = string
      BY DEF Fresh
    <3>. HIDE DEF x
    <3>3. OneChanged(c) /\ t = x
      BY <3>1, <1>1 DEF OneChanged, x
    <3>. QED BY <3>2, <3>3 DEF Idle, Engine
  <2>2. CASE AnswerRouted(c) \/ AnswerStatement(c)
    <3>1. PICK r : session' = [session EXCEPT ![c] = Respond(s, r)]
      BY <2>2 DEF AnswerRouted, AnswerStatement
    <3>2. t = Respond(s, r)
      BY <3>1, <1>1
    <3>3. t.pc \in {"route", "respond"} /\ t.at \in {s.at, s.at + 1} /\ t.string = s.string
      BY <3>2, <1>1 DEF Respond, Fresh
    <3>. QED BY <3>1, <3>3, <1>1 DEF OneChanged, Idle, Engine
  <2>3. CASE EndString(c)
    <3>1. t.pc = "respond" /\ t.at = s.at /\ t.string = s.string
      BY <2>3, <1>1 DEF EndString, Fresh
    <3>. QED BY <2>3, <3>1, <1>1 DEF EndString, OneChanged, Idle, Engine
  <2>4. CASE CreateIndex(c)
    <3>1. PICK r : session' = [session EXCEPT ![c] = Finish(s, r)]
      BY <2>4 DEF CreateIndex
    <3>2. t.pc = "finished" /\ t.at = s.at /\ t.string = s.string
      BY <3>1, <1>1 DEF Finish, Fresh
    <3>. QED BY <3>1, <3>2, <1>1 DEF OneChanged, Idle, Engine
  <2>5. CASE Totals(c)
    <3>. DEFINE x == Finish(Emit(s, <<"done">>), "ok")
    <3>1. session' = [session EXCEPT ![c] = x]
      BY <2>5 DEF Totals
    <3>2. x.pc = "finished" /\ x.at = s.at /\ x.string = s.string
      BY <1>1 DEF Finish, Emit, Fresh
    <3>. QED BY <3>1, <3>2, <1>1 DEF OneChanged, Idle, Engine
  <2>6. CASE Drain(c)
    <3>1. t.pc = "finished" /\ t.at = s.at /\ t.string = s.string
      BY <2>6, <1>1 DEF Drain, Take, Fresh
    <3>. QED BY <2>6, <3>1, <1>1 DEF Drain, Take, OneChanged, Idle, Engine
  <2>7. CASE EncodingFails(c)
    <3>1. t.pc = "respond" /\ t.at = s.at /\ t.string = s.string
      BY <2>7, <1>1 DEF EncodingFails, Fresh
    <3>. QED BY <2>7, <3>1, <1>1 DEF EncodingFails, OneChanged, Idle, Engine
  <2>8. CASE SendResponses(c)
    <3>1. t.pc = "ready" /\ t.at = s.at /\ t.string = s.string
      BY <2>8, <1>1 DEF SendResponses, Fresh
    <3>. QED BY <2>8, <3>1, <1>1 DEF SendResponses, OneChanged, Idle, Engine
  <2>9. CASE SendFails(c)
    <3>1. t = [Fresh EXCEPT !.pc = "closed", !.strings = s.strings]
      BY <2>9, <1>1 DEF SendFails
    <3>2. t.pc = "closed" /\ t.at = 1 /\ t.string = "none"
      BY <3>1 DEF Fresh
    <3>. QED BY <2>9, <3>2, <1>1 DEF SendFails, OneChanged, Idle, Engine
  <2>. QED BY <2>1, <2>2, <2>3, <2>4, <2>5, <2>6, <2>7, <2>8, <2>9
<1>4. Planned(t, types')
  BY <1>1, <1>3, IdlePlanned
<1>5. Extends(types, types') /\ Registered(types')
  BY <1>2 DEF Extends, PlannedInv
<1>. QED BY <1>3, <1>4, <1>5, OnePlanned

LEMMA GoingSteps ==
  ASSUME SessionInv, PlannedInv, NEW c \in Clients,
         Announce(c) \/ Tick(c) \/ EndOfStream(c) \/ Forward(c) \/ SendNotice(c)
  PROVE  PlannedInv'
<1>. DEFINE s == session[c]
            t == session'[c]
<1>1. DOMAIN s = DOMAIN Fresh /\ DOMAIN session = Clients /\ Planned(s, types)
  BY DEF SessionInv, Good, PlannedInv
<1>2. types' = types
  BY DEF Announce, Tick, EndOfStream, Forward, Take, SendNotice
<1>3. OneChanged(c) /\ (Going(s, t) \/ Idle(s, t))
  <2>1. CASE Announce(c)
    <3>. DEFINE x == [Emit(s, <<"plan", s.lines[1].op>>) EXCEPT
                        !.lines = Tail(@),
                        !.pc = IF Len(s.lines) = 1 THEN "stream" ELSE "announce"]
    <3>1. session' = [session EXCEPT ![c] = x] /\ s.pc = "announce"
      BY <2>1 DEF Announce
    <3>2. x.pc \in {"stream", "announce"} /\ x.at = s.at /\ x.string = s.string /\ x.ops = s.ops
      BY <1>1 DEF Emit, Fresh
    <3>. HIDE DEF x
    <3>. QED BY <3>1, <3>2, <1>1 DEF OneChanged, Going, Executing
  <2>2. CASE Tick(c)
    <3>. DEFINE x == [Emit(s, <<"funnel", s.ticks + 1>>) EXCEPT !.ticks = @ + 1]
    <3>1. session' = [session EXCEPT ![c] = x] /\ s.pc = "stream"
      BY <2>2 DEF Tick
    <3>2. x.pc = s.pc /\ x.at = s.at /\ x.string = s.string /\ x.ops = s.ops
      BY <1>1 DEF Emit, Fresh
    <3>. HIDE DEF x
    <3>. QED BY <3>1, <3>2, <1>1 DEF OneChanged, Going
  <2>3. CASE EndOfStream(c)
    <3>. DEFINE x == [s EXCEPT !.pc = "totals"]
    <3>1. PICK y : session' = [session EXCEPT ![c] = y]
                   /\ y \in {x, Finish(s, "ok"), Finish(s, "error")}
      BY <2>3 DEF EndOfStream
    <3>2. s.pc = "stream"
      BY <2>3 DEF EndOfStream
    <3>3. x.pc = "totals" /\ x.at = s.at /\ x.string = s.string /\ x.ops = s.ops
      BY <1>1 DEF Fresh
    <3>4. ASSUME NEW r
          PROVE  Finish(s, r).pc = "finished" /\ Finish(s, r).at = s.at /\ Finish(s, r).string = s.string
      BY <1>1 DEF Finish, Fresh
    <3>5. \/ y.pc = "totals" /\ y.at = s.at /\ y.string = s.string /\ y.ops = s.ops
          \/ y.pc = "finished" /\ y.at = s.at /\ y.string = s.string
      BY <3>1, <3>3, <3>4
    <3>. HIDE DEF x
    <3>6. t = y
      BY <3>1, <1>1
    <3>7. Going(s, t) \/ Idle(s, t)
      BY <3>2, <3>5, <3>6 DEF Going, Idle, Executing, Engine
    <3>. QED BY <3>1, <3>7, <1>1 DEF OneChanged
  <2>4. CASE Forward(c)
    <3>1. t.pc = s.pc /\ t.at = s.at /\ t.string = s.string /\ t.ops = s.ops
      BY <2>4, <1>1 DEF Forward, Take, Fresh
    <3>. QED BY <2>4, <3>1, <1>1 DEF Forward, Take, OneChanged, Going
  <2>5. CASE SendNotice(c)
    <3>1. t.pc = s.pc /\ t.at = s.at /\ t.string = s.string /\ t.ops = s.ops
      BY <2>5, <1>1 DEF SendNotice, Fresh
    <3>. QED BY <2>5, <3>1, <1>1 DEF SendNotice, OneChanged, Going
  <2>. QED BY <2>1, <2>2, <2>3, <2>4, <2>5
<1>4. Planned(t, types')
  BY <1>1, <1>2, <1>3, IdlePlanned, GoingPlanned
<1>5. Extends(types, types') /\ Registered(types')
  BY <1>2 DEF Extends, PlannedInv
<1>. QED BY <1>3, <1>4, <1>5, OnePlanned

LEMMA RunPlanned ==
  ASSUME SessionInv, PlannedInv, NEW c \in Clients, RunStatement(c)
  PROVE  PlannedInv'
<1>. DEFINE s == session[c]
            t == session'[c]
<1>1. DOMAIN s = DOMAIN Fresh /\ DOMAIN session = Clients /\ Planned(s, types)
  BY DEF SessionInv, Good, PlannedInv
<1>2. types' = types /\ OneChanged(c)
  BY <1>1 DEF RunStatement, OneChanged
<1>3. t.pc = "parse" /\ t.at = s.at /\ t.string = s.string
  BY <1>1 DEF RunStatement, Fresh
<1>4. s.string \in Strings /\ s.string # "none" /\ s.at \in DOMAIN Statements[s.string]
  <2>1. s.at \in Nat \ {0} /\ s.string \in Strings \union {"none"}
    BY <1>1 DEF Planned
  <2>2. s.at <= Len(Split(c))
    BY DEF RunStatement
  <2>3. s.string # "none"
    <3>1. CASE s.string = "none"
      <4>1. Split(c) = <<>>
        BY <3>1 DEF Split
      <4>. QED BY <4>1, <2>1, <2>2
    <3>. QED BY <3>1
  <2>4. Split(c) = Statements[s.string] /\ s.string \in Strings
    BY <2>1, <2>3 DEF Split
  <2>5. DOMAIN Statements[s.string] = 1 .. Len(Statements[s.string]) /\ Len(Statements[s.string]) \in Nat
    BY <2>4, StatementsAssumption, SequenceOf
  <2>. QED BY <2>1, <2>2, <2>3, <2>4, <2>5
<1>5. Planned(t, types')
  <2>1. s.at \in Nat \ {0}
    BY <1>1 DEF Planned
  <2>2. t.pc \notin Engine \ {"parse"} /\ t.pc \notin {"plan"} \union Executing
    BY <1>3 DEF Engine, Executing
  <2>. HIDE DEF s, t
  <2>. QED BY <1>3, <1>4, <2>1, <2>2 DEF Planned
<1>6. Extends(types, types') /\ Registered(types')
  BY <1>2 DEF Extends, PlannedInv
<1>. QED BY <1>2, <1>5, <1>6, OnePlanned

(* DDL registers a type of its own, and only where its name is free.       *)
LEMMA RegisterPlanned ==
  ASSUME SessionInv, PlannedInv, NEW c \in Clients, Register(c)
  PROVE  PlannedInv'
<1>. DEFINE s == session[c]
            t == session'[c]
            ddl == Statement(c)
            name == Lower[ddl.name]
<1>1. DOMAIN s = DOMAIN Fresh /\ DOMAIN session = Clients /\ Planned(s, types)
  BY DEF SessionInv, Good, PlannedInv
<1>2. s.pc = "parse" /\ ddl.kind = "type"
  BY DEF Register
<1>3. PICK r : session' = [session EXCEPT ![c] = Finish(s, r)]
  BY DEF Register
<1>4. OneChanged(c) /\ t = Finish(s, r)
  BY <1>1, <1>3 DEF OneChanged
<1>5. Idle(s, t)
  <2>1. t.pc = "finished" /\ t.at = s.at /\ t.string = s.string
    BY <1>1, <1>4 DEF Finish, Fresh
  <2>. QED BY <2>1 DEF Idle, Engine
<1>6. \/ types' = types
      \/ /\ WellFormed(ddl.entries) /\ name \notin DOMAIN types
         /\ types' = [n \in DOMAIN types \union {name} |->
                        IF n = name THEN TypeOf(ddl.entries) ELSE types[n]]
  BY DEF Register
<1>7. WellFormed(ddl.entries) => Sound(TypeOf(ddl.entries))
  <2>1. WellSaid(ddl)
    <3>1. s.pc \in Engine
      BY <1>2 DEF Engine
    <3>. QED BY <1>1, <3>1, StatementOf
  <2>2. IsSequence(ddl.entries) /\ \A i \in DOMAIN ddl.entries : IsSequence(ddl.entries[i].fields)
    BY <1>2, <2>1 DEF WellSaid
  <2>. HIDE DEF ddl
  <2>. QED BY <2>2, SoundOf
<1>8. Registered(types)
  BY DEF PlannedInv
<1>. HIDE DEF ddl, name
<1>9. Extends(types, types') /\ Registered(types')
  <2>1. CASE types' = types
    BY <2>1, <1>8 DEF Extends
  <2>2. CASE /\ WellFormed(ddl.entries) /\ name \notin DOMAIN types
             /\ types' = [n \in DOMAIN types \union {name} |->
                            IF n = name THEN TypeOf(ddl.entries) ELSE types[n]]
    BY <2>2, <1>7, <1>8 DEF Extends, Registered
  <2>. QED BY <1>6, <2>1, <2>2
<1>10. Planned(t, types')
  BY <1>1, <1>5, IdlePlanned
<1>. QED BY <1>4, <1>9, <1>10, OnePlanned

LEMMA ExtractsListed ==
  ASSUME NEW q, WellSaid(q), q.kind = "query"
  PROVE  Listed(q.extracts)
<1>1. IsSequence(q["extracts"])
  BY DEF WellSaid
<1>. QED BY <1>1, SequenceOf DEF Listed

LEMMA ParsePlanned ==
  ASSUME SessionInv, PlannedInv, NEW c \in Clients, Parse(c)
  PROVE  PlannedInv'
<1>. DEFINE s == session[c]
            t == session'[c]
            q == Statement(c)
<1>1. DOMAIN s = DOMAIN Fresh /\ DOMAIN session = Clients /\ Planned(s, types)
  BY DEF SessionInv, Good, PlannedInv
<1>2. s.pc = "parse" /\ q.kind = "query" /\ types' = types
  BY DEF Parse
<1>3. q = Statements[s.string][s.at] /\ WellSaid(q)
  <2>1. s.pc \in Engine
    BY <1>2 DEF Engine
  <2>. QED BY <1>1, <2>1, StatementOf
<1>4. OneChanged(c) /\ t = IF Plannable(q, types) THEN [s EXCEPT !.pc = "optimize"]
                           ELSE Finish(s, "error")
  BY <1>1 DEF Parse, OneChanged
<1>. HIDE DEF q
<1>5. Planned(t, types)
  <2>1. CASE Plannable(q, types)
    <3>1. t.pc = "optimize" /\ t.at = s.at /\ t.string = s.string
      BY <2>1, <1>1, <1>4 DEF Fresh
    <3>2. Resolved(q, types)
      <4>1. Listed(q.extracts)
        BY <1>2, <1>3, ExtractsListed
      <4>. QED BY <2>1, <4>1 DEF Plannable, Resolved
    <3>3. /\ t.at \in Nat \ {0} /\ t.string \in Strings /\ t.string # "none"
          /\ t.at \in DOMAIN Statements[t.string]
      <4>1. s.pc \in Engine
        BY <1>2 DEF Engine
      <4>. HIDE DEF s, t
      <4>. QED BY <1>1, <3>1, <4>1 DEF Planned
    <3>4. t.pc \notin {"plan"} \union Executing
      BY <3>1 DEF Executing
    <3>5. q = Statements[t.string][t.at]
      BY <3>1, <1>3
    <3>. HIDE DEF s, t
    <3>. QED BY <3>1, <3>2, <3>3, <3>4, <3>5, <1>2 DEF Planned
  <2>2. CASE ~Plannable(q, types)
    <3>1. t.pc = "finished" /\ t.at = s.at /\ t.string = s.string
      BY <2>2, <1>1, <1>4 DEF Finish, Fresh
    <3>2. Idle(s, t)
      BY <3>1 DEF Idle, Engine
    <3>. QED BY <3>2, <1>1, IdlePlanned
  <2>. QED BY <2>1, <2>2
<1>6. Extends(types, types') /\ Registered(types') /\ Planned(t, types')
  BY <1>2, <1>5 DEF Extends, PlannedInv
<1>. QED BY <1>4, <1>6, OnePlanned

LEMMA OptimizePlanned ==
  ASSUME SessionInv, PlannedInv, NEW c \in Clients, Optimize(c)
  PROVE  PlannedInv'
<1>. DEFINE s == session[c]
            t == session'[c]
            q == Statement(c)
            ops == Optimized(q, types, indexed)
<1>1. DOMAIN s = DOMAIN Fresh /\ DOMAIN session = Clients /\ Planned(s, types)
  BY DEF SessionInv, Good, PlannedInv
<1>2. s.pc = "optimize" /\ s.pc \in Engine \ {"parse"} /\ types' = types
  BY DEF Optimize, Engine
<1>3. /\ q = Statements[s.string][s.at] /\ WellSaid(q)
      /\ q.kind = "query" /\ Resolved(q, types)
  <2>1. q = Statements[s.string][s.at] /\ WellSaid(q)
    BY <1>1, <1>2, StatementOf
  <2>. HIDE DEF q, s
  <2>. QED BY <2>1, <1>1, <1>2 DEF Planned
<1>4. OneChanged(c) /\ t = IF Optimizable(q) THEN [s EXCEPT !.pc = "plan", !.ops = ops]
                           ELSE Finish(s, "error")
  BY <1>1 DEF Optimize, OneChanged
<1>5. /\ Listed(ops) /\ Asked(ToSet(ops), Verifying) = WherePairs(q.where)
      /\ \A x \in ToSet(ops) : UnitsWhole(x, q, types)
  <2>1. \A n \in DOMAIN types : Sound(types[n])
    BY DEF PlannedInv, Registered
  <2>. HIDE DEF q
  <2>. QED BY <1>3, <2>1, OptimizedOf
<1>. HIDE DEF q, ops
<1>6. Planned(t, types)
  <2>1. CASE Optimizable(q)
    <3>1. t.pc = "plan" /\ t.at = s.at /\ t.string = s.string /\ t.ops = ops
      BY <2>1, <1>1, <1>4 DEF Fresh
    <3>2. /\ t.at \in Nat \ {0} /\ t.string \in Strings /\ t.string # "none"
          /\ t.at \in DOMAIN Statements[t.string]
      <4>. HIDE DEF s, t
      <4>. QED BY <1>1, <1>2, <3>1 DEF Planned
    <3>3. t.pc \notin Executing
      BY <3>1 DEF Executing
    <3>4. q = Statements[t.string][t.at]
      BY <3>1, <1>3
    <3>. HIDE DEF s, t
    <3>. QED BY <3>1, <3>2, <3>3, <3>4, <1>3, <1>5 DEF Planned
  <2>2. CASE ~Optimizable(q)
    <3>1. t.pc = "finished" /\ t.at = s.at /\ t.string = s.string
      BY <2>2, <1>1, <1>4 DEF Finish, Fresh
    <3>2. Idle(s, t)
      BY <3>1 DEF Idle, Engine
    <3>. QED BY <3>2, <1>1, IdlePlanned
  <2>. QED BY <2>1, <2>2
<1>7. Extends(types, types') /\ Registered(types') /\ Planned(t, types')
  BY <1>2, <1>6 DEF Extends, PlannedInv
<1>. QED BY <1>4, <1>7, OnePlanned

LEMMA PhysicalPlanned ==
  ASSUME SessionInv, PlannedInv, NEW c \in Clients, PlanPhysically(c)
  PROVE  PlannedInv'
<1>. DEFINE s == session[c]
            t == session'[c]
            q == Statements[s.string][s.at]
            ops == Physical(s.ops, indexed)
<1>1. DOMAIN s = DOMAIN Fresh /\ DOMAIN session = Clients /\ Planned(s, types)
  BY DEF SessionInv, Good, PlannedInv
<1>2. s.pc = "plan" /\ s.pc \in Engine \ {"parse"} /\ types' = types
  BY DEF PlanPhysically, Engine
<1>3. /\ q.kind = "query" /\ Listed(s.ops)
      /\ \A x \in ToSet(s.ops) : UnitsWhole(x, q, types)
      /\ Asked(ToSet(s.ops), Verifying) = WherePairs(q.where)
  <2>. HIDE DEF s
  <2>. QED BY <1>1, <1>2 DEF Planned
<1>4. OneChanged(c) /\ t = IF Executable(s.ops, indexed)
                           THEN [s EXCEPT !.ops = ops, !.lines = Reverse(ops),
                                          !.pc = IF ops = <<>> THEN "stream" ELSE "announce"]
                           ELSE Finish(s, "error")
  BY <1>1 DEF PlanPhysically, OneChanged
<1>5. /\ Listed(ops) /\ Asked(ToSet(ops), {"verify", "classify"}) = WherePairs(q.where)
      /\ \A x \in ToSet(ops) : UnitsWhole(x, q, types)
  <2>1. /\ Listed(ops)
        /\ Asked(ToSet(ops), {"verify", "classify"}) = Asked(ToSet(s.ops), Verifying)
        /\ \A x \in ToSet(ops) : x.op = "extract" => x \in ToSet(s.ops)
    BY <1>3, PhysicalOf
  <2>2. \A x : x.op # "extract" => UnitsWhole(x, q, types)
    BY DEF UnitsWhole
  <2>. HIDE DEF ops, q
  <2>. QED BY <1>3, <2>1, <2>2
<1>. HIDE DEF ops
<1>6. Planned(t, types)
  <2>1. CASE Executable(s.ops, indexed)
    <3>1. t.pc \in {"stream", "announce"} /\ t.at = s.at /\ t.string = s.string /\ t.ops = ops
      BY <2>1, <1>1, <1>4 DEF Fresh
    <3>2. /\ t.at \in Nat \ {0} /\ t.string \in Strings /\ t.string # "none"
          /\ t.at \in DOMAIN Statements[t.string]
      <4>. HIDE DEF s, t
      <4>. QED BY <1>1, <1>2, <3>1 DEF Planned
    <3>3. t.pc \notin {"plan", "optimize"}
      BY <3>1
    <3>4. q = Statements[t.string][t.at]
      BY <3>1
    <3>. HIDE DEF s, t, q
    <3>. QED BY <3>1, <3>2, <3>3, <3>4, <1>3, <1>5 DEF Planned
  <2>2. CASE ~Executable(s.ops, indexed)
    <3>1. t.pc = "finished" /\ t.at = s.at /\ t.string = s.string
      BY <2>2, <1>1, <1>4 DEF Finish, Fresh
    <3>2. Idle(s, t)
      BY <3>1 DEF Idle, Engine
    <3>. QED BY <3>2, <1>1, IdlePlanned
  <2>. QED BY <2>1, <2>2
<1>7. Extends(types, types') /\ Registered(types') /\ Planned(t, types')
  BY <1>2, <1>6 DEF Extends, PlannedInv
<1>. QED BY <1>4, <1>7, OnePlanned

LEMMA PlannedInitInv == Init => PlannedInv
<1>. SUFFICES ASSUME Init PROVE PlannedInv
  OBVIOUS
<1>1. Registered(types)
  BY DEF Init, Registered
<1>2. ASSUME NEW c \in Clients PROVE Planned(session[c], types)
  <2>. DEFINE s == session[c]
  <2>1. s.pc = "ready" /\ s.at = 1 /\ s.string = "none"
    BY DEF Init, Fresh
  <2>2. s.pc \notin Engine /\ s.pc \notin {"plan"} \union Executing
    BY <2>1 DEF Engine, Executing
  <2>. HIDE DEF s
  <2>3. Planned(s, types)
    BY <2>1, <2>2 DEF Planned
  <2>. QED BY <2>3 DEF s
<1>. QED BY <1>1, <1>2 DEF PlannedInv

LEMMA PlannedNextInv == SessionInv /\ PlannedInv /\ [Next]_vars => PlannedInv'
<1>1. SessionInv /\ PlannedInv /\ UNCHANGED vars => PlannedInv'
  BY DEF vars, PlannedInv, Registered, Planned
<1>2. SessionInv /\ PlannedInv /\ Next => PlannedInv'
  BY IdleSteps, GoingSteps, RunPlanned, RegisterPlanned, ParsePlanned, OptimizePlanned,
     PhysicalPlanned
     DEF Next, PlanStep, RunStep, ClientStep
<1>. QED BY <1>1, <1>2

LEMMA PlannedMatches == PlannedInv => WhereKeepsMatches
<1>. SUFFICES ASSUME PlannedInv, NEW c \in Clients,
                     session[c].pc \in {"announce", "stream", "totals"}
              PROVE  LET ops == session[c].ops
                         asking == {i \in DOMAIN ops : ops[i].op \in {"verify", "classify"}}
                         where == Statement(c).where
                     IN  UNION {{<<ops[i].text, ops[i].conditions[n]>> : n \in DOMAIN ops[i].conditions} :
                                  i \in asking}
                           = {<<where[i].text, where[i].condition>> : i \in DOMAIN where}
  BY DEF WhereKeepsMatches
<1>. DEFINE s == session[c]
            ops == s.ops
            kinds == {"verify", "classify"}
            asking == {i \in DOMAIN ops : ops[i].op \in kinds}
<1>1. Planned(s, types) /\ s.pc \in Executing /\ s.pc \in Engine
  BY DEF PlannedInv, Executing, Engine
<1>2. Statement(c) = Statements[s.string][s.at]
  BY <1>1, StatementOf
<1>3. Asked(ToSet(ops), kinds) = WherePairs(Statement(c).where)
  <2>. HIDE DEF s
  <2>. QED BY <1>1, <1>2 DEF Planned
<1>. HIDE DEF ops
<1>4. Asked(ToSet(ops), kinds) = UNION {Pairs(ops[i]) : i \in asking}
  BY DEF Asked, ToSet
<1>5. UNION {Pairs(ops[i]) : i \in asking} = WherePairs(Statement(c).where)
  BY <1>3, <1>4
<1>. QED BY <1>5 DEF Pairs, WherePairs, ops

LEMMA PlannedUnits == PlannedInv => UnitsAskedWhole
<1>. SUFFICES ASSUME PlannedInv, NEW c \in Clients,
                     session[c].pc \in {"plan", "announce", "stream", "totals"},
                     NEW i \in DOMAIN session[c].ops
              PROVE  LET op == session[c].ops[i]
                         named == Referenced(Named(Statement(c)), [source |-> op.text, type |-> op.type])
                     IN  op.op = "extract" /\ op.type # Inline =>
                           ToSet(GenerationUnits(op.target)) =
                             {u \in ToSet(GenerationUnits(types[op.type])) :
                                Whole \in named \/ ToSet(u) \intersect named # {}}
  BY DEF UnitsAskedWhole
<1>. DEFINE s == session[c]
            q == Statements[s.string][s.at]
            op == s.ops[i]
<1>1. Planned(s, types) /\ s.pc \in {"plan"} \union Executing /\ s.pc \in Engine
  BY DEF PlannedInv, Executing, Engine
<1>2. Statement(c) = q
  BY <1>1, StatementOf
<1>3. op \in ToSet(s.ops)
  BY DEF ToSet
<1>4. UnitsWhole(op, q, types)
  <2>1. \A x \in ToSet(s.ops) : UnitsWhole(x, q, types)
    <3>. HIDE DEF s
    <3>. QED BY <1>1 DEF Planned
  <2>. HIDE DEF op, q
  <2>. QED BY <1>3, <2>1
<1>5. UnitsWhole(op, Statement(c), types)
  BY <1>2, <1>4
<1>. QED BY <1>5 DEF UnitsWhole

(***************************************************************************)
(* A client sees every event of its query string, in the order the engine  *)
(* sent them, and only then the responses: with any number of sessions and *)
(* statements, and a channel of any capacity. (run_statement.)             *)
(***************************************************************************)
THEOREM NoticesFirst == Spec => []NoticesThenResponse
<1>1. SessionInv => NoticesThenResponse
  BY DEF SessionInv, Good, Ordered, NoticesThenResponse
<1> QED
  BY SessionInitInv, SessionNextInv, <1>1, PTL DEF Spec

(***************************************************************************)
(* Whatever the conditions, their texts and targets, whatever was grouped, *)
(* fused or put first, and whichever indexes appeared between optimizing   *)
(* and planning: an executing WHERE asks every MEANS it holds, of its own  *)
(* text, and nothing else. (MeansRewriteRule, plan_extension.)             *)
(***************************************************************************)
THEOREM MatchesKept == Spec => []WhereKeepsMatches
<1>1. Init => SessionInv /\ PlannedInv
  BY SessionInitInv, PlannedInitInv
<1>2. (SessionInv /\ PlannedInv) /\ [Next]_vars => (SessionInv /\ PlannedInv)'
  BY SessionNextInv, PlannedNextInv
<1>. QED BY <1>1, <1>2, PlannedMatches, PTL DEF Spec

(***************************************************************************)
(* Whatever types are registered, and by whom: an extraction asks for the  *)
(* units of its type that hold a field the query names, each of them whole *)
(* and in the order every other query asks it. (pruned, generation_units,  *)
(* TypeRegistry.register.)                                                 *)
(***************************************************************************)
THEOREM WholeUnits == Spec => []UnitsAskedWhole
<1>1. Init => SessionInv /\ PlannedInv
  BY SessionInitInv, PlannedInitInv
<1>2. (SessionInv /\ PlannedInv) /\ [Next]_vars => (SessionInv /\ PlannedInv)'
  BY SessionNextInv, PlannedNextInv
<1>. QED BY <1>1, <1>2, PlannedUnits, PTL DEF Spec
============================================================================
