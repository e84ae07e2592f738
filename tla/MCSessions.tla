----------------------------- MODULE MCSessions -----------------------------
EXTENDS Sessions

LowerDef == [n \in {"Review", "review", "Tag"} |->
               CASE n \in {"Review", "review"} -> "review" [] n = "Tag" -> "tag"]

AutoKDef == -1

Plain ==
    [kind |-> "query", malformed |-> FALSE, with |-> <<>>, where |-> <<>>, labels |-> <<>>,
     extracts |-> <<>>, scores |-> <<>>, limits |-> <<>>, groups |-> <<>>, uses |-> {},
     semantic |-> FALSE, distincts |-> <<>>, misplaced |-> FALSE]

Means(text, condition, recall) == [text |-> text, condition |-> condition, recall |-> recall]
Index(text) == [kind |-> "index", text |-> text]
Type(name, entries) == [kind |-> "type", name |-> name, entries |-> entries]
Alone(field) == [together |-> FALSE, fields |-> <<field>>]
Group(fields) == [together |-> TRUE, fields |-> fields]
Cast(source, type, field) == [source |-> source, type |-> type, field |-> field]
On(text, branch) == [text |-> text, branch |-> branch]
Key(text, k, label) == [text |-> text, k |-> k, label |-> label]

\* Two conditions on one text, one on another, a third of its own target.
Filters == [Plain EXCEPT !.where = <<Means("body", "angry", 0), Means("title", "short", 0),
                                     Means("body", "refund", 0)>>]
Targets == [Plain EXCEPT !.with = <<<<"recall", 90>>, <<"confidence", 95>>>>,
                         !.where = <<Means("title", "short", 80), Means("body", "angry", 0),
                                     Means("body", "refund", 0)>>]
ReviewType == Type("Review", <<Group(<<"stars", "mood">>), Alone("topic"), Group(<<"who", "where">>)>>)
OtherReview == Type("review", <<Group(<<"stars", "topic">>), Alone("mood")>>)
Casts == [Plain EXCEPT !.extracts = <<Cast("body", "review", "mood"), Cast("body", "Review", "topic"),
                                      Cast("title", "Review", "where"), Cast("body", Inline, "date"),
                                      Cast("body", Inline, "date")>>]
WholeCast == [Plain EXCEPT !.extracts = <<Cast("body", "Review", Whole)>>]
Ranks == [Plain EXCEPT !.scores = <<<<"body", "late?">>, <<"body", "late?">>>>, !.limits = <<5, 9>>]
Groups == [Plain EXCEPT !.groups = <<Key("body", AutoK, "g"), Key("body", 3, "h")>>, !.uses = {"g"},
                        !.semantic = TRUE, !.distincts = <<On("title", TRUE), On("body", FALSE)>>,
                        !.with = <<<<"similarity", 80>>>>]

\* Query strings: what several sessions race over, chatter and errors between.
StatementsDef ==
    [empty    |-> <<>>,
     filters  |-> <<[kind |-> "noop"], Index("body"), Filters>>,
     targets  |-> <<Targets, Index("title")>>,
     whole    |-> <<ReviewType, Casts, WholeCast>>,
     fields   |-> <<OtherReview, Casts>>,
     ranks    |-> <<Ranks, Groups>>,
     jobs     |-> <<[kind |-> "canned"], [kind |-> "submit"], [kind |-> "cancel"], Plain>>,
     labels   |-> <<[Filters EXCEPT !.labels = <<[text |-> "body", conditions |-> <<"a", "b">>]>>]>>,
     badsql   |-> <<[Plain EXCEPT !.malformed = TRUE], Filters>>,
     badplace |-> <<[Plain EXCEPT !.misplaced = TRUE], Filters>>,
     badlimit |-> <<[Ranks EXCEPT !.limits = <<>>]>>,
     badk     |-> <<[Groups EXCEPT !.groups[2].k = 0]>>,
     badlabel |-> <<[Groups EXCEPT !.uses = {"x"}]>>,
     badwith  |-> <<[Filters EXCEPT !.with = <<<<"recall", 100>>, <<"confidence", 95>>>>]>>,
     badknob  |-> <<[Filters EXCEPT !.with = <<<<"recall", 90>>, <<"recall", 80>>>>]>>,
     badconf  |-> <<[Filters EXCEPT !.with = <<<<"recall", 90>>, <<"confidence", 100>>>>], Filters>>,
     badunion |-> <<[Groups EXCEPT !.distincts = <<On("body", TRUE)>>]>>,
     badgroup |-> <<Type("Tag", <<Group(<<"only">>)>>)>>,
     badfield |-> <<Type("Tag", <<Alone("a"), Alone("a")>>)>>,
     badjob   |-> <<[kind |-> "joberror"], Filters>>]

StringsDef == DOMAIN StatementsDef
============================================================================
