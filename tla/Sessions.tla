------------------------------ MODULE Sessions ------------------------------
(***************************************************************************)
(* Client sessions of the server. A session sends a query string; its      *)
(* handler splits it, answers the session chatter itself and runs the rest *)
(* through the engine, one statement at a time, forwarding the engine's    *)
(* progress as notices over a bounded channel while the statement runs.    *)
(* Responses are held back until the string ends. Sessions share the type  *)
(* registry and the indexes.                                               *)
(***************************************************************************)
EXTENDS StatementPlanning

CONSTANTS
    Clients,
    Strings,          \* query strings
    Statements,       \* Statements[string]: the statements it splits into
    Texts,            \* texts an index may cover
    ChannelCapacity,  \* the progress channel's
    MaxTicks,         \* bound on counter changes seen per statement
    MaxStrings        \* bound on query strings per session

\* What a statement says: lists of what it says it of.
IsSequence(s) == Len(s) \in Nat /\ s = [i \in 1 .. Len(s) |-> s[i]]

Marker(m) == m = [text |-> m.text, condition |-> m.condition, recall |-> m.recall]

WellSaid(statement) ==
    /\ statement.kind = "type" =>
         /\ IsSequence(statement.entries)
         /\ \A i \in DOMAIN statement.entries :
              /\ IsSequence(statement.entries[i].fields)
              /\ statement.entries[i].together \in BOOLEAN
    /\ statement.kind = "query" =>
         /\ \A list \in {"where", "labels", "extracts", "scores", "groups", "distincts"} :
              IsSequence(statement[list])
         /\ \A i \in DOMAIN statement.where : Marker(statement.where[i])

ASSUME StatementsAssumption ==
    \A string \in Strings :
      /\ IsSequence(Statements[string])
      /\ \A i \in DOMAIN Statements[string] : WellSaid(Statements[string][i])

ASSUME SessionsAssumption ==
    /\ ChannelCapacity \in Nat \ {0}
    /\ {MaxTicks, MaxStrings} \subseteq Nat

VARIABLES
    types,    \* the registry, by lowercased name
    indexed,  \* the texts an index is registered for
    session   \* what each client's handler is doing

vars == <<types, indexed, session>>

Fresh == [pc |-> "ready", string |-> "none", at |-> 1, ops |-> <<>>, lines |-> <<>>, ticks |-> 0,
          channel |-> <<>>, hand |-> <<>>, emitted |-> <<>>, outcome |-> "none", responses |-> <<>>,
          wire |-> <<>>, strings |-> 0]

Running == {"parse", "optimize", "plan", "announce", "stream", "totals"}

Split(c) == IF session[c].string = "none" THEN <<>> ELSE Statements[session[c].string]

Statement(c) == Split(c)[session[c].at]

Init ==
    /\ types = <<>>
    /\ indexed = {}
    /\ session = [c \in Clients |-> Fresh]

Receive(c) ==
    /\ session[c].pc = "ready"
    /\ session[c].strings < MaxStrings
    /\ \E string \in Strings :
         session' = [session EXCEPT ![c] = [Fresh EXCEPT !.pc = "route", !.string = string,
                                                         !.strings = session[c].strings + 1]]
    /\ UNCHANGED <<types, indexed>>

(***************************************************************************)
(* do_query: a statement's response; the first error ends the string.      *)
(***************************************************************************)
Respond(s, response) ==
    [s EXCEPT !.responses = Append(@, response),
              !.pc = IF response = "error" THEN "respond" ELSE "route",
              !.at = IF response = "error" THEN @ ELSE @ + 1]

\* Chatter and job statements are answered without the engine.
AnswerRouted(c) ==
    /\ session[c].pc = "route"
    /\ session[c].at <= Len(Split(c))
    /\ \E response \in CASE Statement(c).kind \in {"noop", "canned"} -> {"ok"}
                         [] Statement(c).kind \in {"submit", "cancel"} -> {"ok", "error"}
                         [] Statement(c).kind = "joberror" -> {"error"}
                         [] OTHER -> {} :
         session' = [session EXCEPT ![c] = Respond(@, response)]
    /\ UNCHANGED <<types, indexed>>

RunStatement(c) ==
    /\ session[c].pc = "route"
    /\ session[c].at <= Len(Split(c))
    /\ Statement(c).kind \in {"type", "index", "query"}
    /\ session' = [session EXCEPT ![c].pc = "parse", ![c].ticks = 0, ![c].ops = <<>>]
    /\ UNCHANGED <<types, indexed>>

EndString(c) ==
    /\ session[c].pc = "route"
    /\ session[c].at > Len(Split(c))
    /\ session' = [session EXCEPT ![c].pc = "respond",
                                  ![c].responses = IF @ = <<>> THEN <<"empty">> ELSE @]
    /\ UNCHANGED <<types, indexed>>

(***************************************************************************)
(* execute_into. DDL takes effect while it is parsed.                      *)
(***************************************************************************)
Finish(s, outcome) == [s EXCEPT !.pc = "finished", !.outcome = outcome]

Register(c) ==
    LET ddl == Statement(c)
        name == Lower[ddl.name]
        accepted == WellFormed(ddl.entries) /\ name \notin DOMAIN types
    IN  /\ session[c].pc = "parse" /\ ddl.kind = "type"
        /\ types' = IF accepted
                    THEN [n \in DOMAIN types \union {name} |->
                            IF n = name THEN TypeOf(ddl.entries) ELSE types[n]]
                    ELSE types
        /\ session' = [session EXCEPT ![c] = Finish(@, IF accepted THEN "ok" ELSE "error")]
        /\ UNCHANGED indexed

CreateIndex(c) ==
    /\ session[c].pc = "parse" /\ Statement(c).kind = "index"
    /\ \/ /\ indexed' = indexed \union {Statement(c).text}
          /\ session' = [session EXCEPT ![c] = Finish(@, "ok")]
       \/ /\ session' = [session EXCEPT ![c] = Finish(@, "error")]
          /\ UNCHANGED indexed
    /\ UNCHANGED types

Parse(c) ==
    /\ session[c].pc = "parse" /\ Statement(c).kind = "query"
    /\ session' = [session EXCEPT ![c] =
                     IF Plannable(Statement(c), types) THEN [@ EXCEPT !.pc = "optimize"]
                     ELSE Finish(@, "error")]
    /\ UNCHANGED <<types, indexed>>

Optimize(c) ==
    /\ session[c].pc = "optimize"
    /\ session' = [session EXCEPT ![c] =
                     IF Optimizable(Statement(c))
                     THEN [@ EXCEPT !.pc = "plan", !.ops = Optimized(Statement(c), types, indexed)]
                     ELSE Finish(@, "error")]
    /\ UNCHANGED <<types, indexed>>

PlanPhysically(c) ==
    LET ops == Physical(session[c].ops, indexed)
    IN  /\ session[c].pc = "plan"
        /\ session' = [session EXCEPT ![c] =
                         IF Executable(session[c].ops, indexed)
                         THEN [@ EXCEPT !.ops = ops, !.lines = Reverse(ops),
                                        !.pc = IF ops = <<>> THEN "stream" ELSE "announce"]
                         ELSE Finish(@, "error")]
        /\ UNCHANGED <<types, indexed>>

(***************************************************************************)
(* Progress. Sending waits for room in the channel. The statement's future *)
(* runs only while its task waits for the next event, not while the task   *)
(* has one in hand, which the client has yet to take.                      *)
(***************************************************************************)
Polled(s) == s.hand = <<>>
Room(s) == Len(s.channel) < ChannelCapacity
Emit(s, event) == [s EXCEPT !.channel = Append(@, event), !.emitted = Append(@, event)]

Announce(c) ==
    LET s == session[c]
    IN  /\ s.pc = "announce" /\ Polled(s) /\ Room(s)
        /\ session' = [session EXCEPT ![c] =
                         [Emit(s, <<"plan", s.lines[1].op>>) EXCEPT
                            !.lines = Tail(@),
                            !.pc = IF Len(s.lines) = 1 THEN "stream" ELSE "announce"]]
        /\ UNCHANGED <<types, indexed>>

Tick(c) ==
    LET s == session[c]
    IN  /\ s.pc = "stream" /\ s.ops # <<>> /\ s.ticks < MaxTicks
        /\ Polled(s) /\ Room(s)
        /\ session' = [session EXCEPT ![c] =
                         [Emit(s, <<"funnel", s.ticks + 1>>) EXCEPT !.ticks = @ + 1]]
        /\ UNCHANGED <<types, indexed>>

EndOfStream(c) ==
    LET s == session[c]
    IN  /\ s.pc = "stream" /\ Polled(s)
        /\ \/ session' = [session EXCEPT ![c] = IF s.ops = <<>> THEN Finish(s, "ok")
                                                ELSE [s EXCEPT !.pc = "totals"]]
           \/ session' = [session EXCEPT ![c] = Finish(s, "error")]
        /\ UNCHANGED <<types, indexed>>

Totals(c) ==
    LET s == session[c]
    IN  /\ s.pc = "totals" /\ Polled(s) /\ Room(s)
        /\ session' = [session EXCEPT ![c] = Finish(Emit(s, <<"done">>), "ok")]
        /\ UNCHANGED <<types, indexed>>

(***************************************************************************)
(* run_statement: an event is taken from the channel while the statement   *)
(* runs, or after it, and goes out when the client takes it. When nothing  *)
(* is left, the statement's response joins the others. Encoding the rows   *)
(* may fail, which drops the others.                                       *)
(***************************************************************************)
Take(c) ==
    /\ session[c].hand = <<>> /\ session[c].channel # <<>>
    /\ session' = [session EXCEPT ![c].channel = Tail(@),
                                  ![c].hand = <<session[c].channel[1]>>]
    /\ UNCHANGED <<types, indexed>>

\* Mutant: events are taken when the statement is over.
ForwardLate(c) == FALSE

Forward(c) == session[c].pc \in Running /\ Take(c)

Drain(c) == session[c].pc = "finished" /\ Take(c)

SendNotice(c) ==
    /\ session[c].hand # <<>>
    /\ session' = [session EXCEPT ![c].hand = <<>>, ![c].wire = @ \o session[c].hand]
    /\ UNCHANGED <<types, indexed>>

Drained(s) == s.hand = <<>> /\ s.channel = <<>>

\* Mutant: the channel is dropped with what it holds.
AnswerUndrained(c) ==
    /\ session[c].pc = "finished"
    /\ session[c].hand = <<>>
    /\ session' = [session EXCEPT ![c] = [Respond(@, session[c].outcome) EXCEPT !.channel = <<>>]]
    /\ UNCHANGED <<types, indexed>>

AnswerStatement(c) ==
    /\ session[c].pc = "finished" /\ Drained(session[c])
    /\ session' = [session EXCEPT ![c] = Respond(@, session[c].outcome)]
    /\ UNCHANGED <<types, indexed>>

EncodingFails(c) ==
    /\ session[c].pc = "finished" /\ Drained(session[c])
    /\ session[c].outcome = "ok" /\ Statement(c).kind = "query"
    /\ session' = [session EXCEPT ![c].pc = "respond", ![c].responses = <<"error">>]
    /\ UNCHANGED <<types, indexed>>

SendResponses(c) ==
    /\ session[c].pc = "respond"
    /\ session' = [session EXCEPT ![c].pc = "ready", ![c].wire = @ \o session[c].responses]
    /\ UNCHANGED <<types, indexed>>

(***************************************************************************)
(* The client is gone: the first send to it drops what is running.         *)
(***************************************************************************)
SendFails(c) ==
    /\ session[c].pc = "respond" \/ session[c].hand # <<>>
    /\ session' = [session EXCEPT ![c] = [Fresh EXCEPT !.pc = "closed",
                                                       !.strings = session[c].strings]]
    /\ UNCHANGED <<types, indexed>>

PlanStep(c) ==
    Register(c) \/ CreateIndex(c) \/ Parse(c) \/ Optimize(c) \/ PlanPhysically(c)

RunStep(c) ==
    \/ AnswerRouted(c) \/ RunStatement(c) \/ EndString(c)
    \/ Announce(c) \/ Tick(c) \/ EndOfStream(c) \/ Totals(c)
    \/ Forward(c) \/ Drain(c) \/ AnswerStatement(c) \/ EncodingFails(c)

ClientStep(c) == SendNotice(c) \/ SendResponses(c)

Next == \E c \in Clients :
          Receive(c) \/ PlanStep(c) \/ RunStep(c) \/ ClientStep(c) \/ SendFails(c)

Spec == Init /\ [][Next]_vars

(***************************************************************************)
(* The runtime polls every connection's task; streams end because every    *)
(* provider call does. A planning step is enabled exactly while its        *)
(* statement is being planned, so its weak fairness says that planning     *)
(* ends; written that way, TLC need not plan again to evaluate ENABLED.    *)
(* Nothing in the code bounds a send: that a client reads what it is sent, *)
(* or goes away, is assumed of it.                                         *)
(***************************************************************************)
PlanningEnds == \A c \in Clients : []<>(session[c].pc \notin {"parse", "optimize", "plan"})

ClientReads(c) == WF_vars(ClientStep(c) \/ SendFails(c))

FairSpec == Spec /\ PlanningEnds /\ \A c \in Clients : WF_vars(RunStep(c)) /\ ClientReads(c)

(***************************************************************************)
(* Properties                                                              *)
(***************************************************************************)

\* A client sees every event of its string, in the order the engine sent them,
\* across statements, errors and a full channel, and only then the responses.
\* (run_statement: the select loop and the drain after it.)
NoticesThenResponse ==
    \A c \in Clients :
      IF session[c].pc = "ready"
      THEN session[c].wire = session[c].emitted \o session[c].responses
      ELSE session[c].wire \o session[c].hand \o session[c].channel = session[c].emitted

\* The plan of a WHERE asks every MEANS it holds, of its own text and nothing
\* else, whichever were grouped, fused or reordered and whatever indexes appeared
\* between optimizing and planning. (MeansRewriteRule, plan_extension.)
WhereKeepsMatches ==
    \A c \in Clients : session[c].pc \in {"announce", "stream", "totals"} =>
      LET ops == session[c].ops
          asking == {i \in DOMAIN ops : ops[i].op \in {"verify", "classify"}}
          where == Statement(c).where
      IN  UNION {{<<ops[i].text, ops[i].conditions[n]>> : n \in DOMAIN ops[i].conditions} :
                   i \in asking}
            = {<<where[i].text, where[i].condition>> : i \in DOMAIN where}

\* What an extraction asks the model for are units of the type as it is
\* registered, whole, and the ones that hold a field its query names: TOGETHER
\* members "are co-generated in one shot; the planner never prunes one member
\* without the others". (pruned, generation_units, TypeRegistry.register.)
UnitsAskedWhole ==
    \A c \in Clients : session[c].pc \in {"plan", "announce", "stream", "totals"} =>
      \A i \in DOMAIN session[c].ops :
        LET op == session[c].ops[i]
            named == Referenced(Named(Statement(c)), [source |-> op.text, type |-> op.type])
        IN  op.op = "extract" /\ op.type # Inline =>
              ToSet(GenerationUnits(op.target)) =
                {u \in ToSet(GenerationUnits(types[op.type])) :
                   Whole \in named \/ ToSet(u) \intersect named # {}}

\* Every query string is answered, or its connection is gone: neither a channel
\* full of progress nor a client that takes its time over a notice holds a
\* statement up for good. (run_statement.)
EveryStringAnswered ==
    \A c \in Clients : session[c].pc = "route" ~> session[c].pc \in {"ready", "closed"}
============================================================================
