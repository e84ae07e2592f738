------------------------- MODULE StatementPlanning -------------------------
(***************************************************************************)
(* What the engine makes of one SQL statement: its trailing clauses, the   *)
(* markers its semantic syntax leaves in the plan, the optimizer rules     *)
(* that turn markers into operators, and the physical plan over the        *)
(* indexes there are.                                                      *)
(*                                                                         *)
(* A query is a record of what it says semantically:                       *)
(*   malformed  the parser rejects it                                      *)
(*   with       its trailing WITH clauses, <<knob, percentage>>            *)
(*   where      the MEANS conjuncts of its WHERE                           *)
(*   labels     the MEANS of its SELECT list, grouped by text and guard    *)
(*   extracts   its typed-extraction markers, in order                     *)
(*   scores     its RELEVANCE TO markers, <<text, question>>               *)
(*   limits     the literal LIMIT + OFFSET of its nodes, root first        *)
(*   groups     its MEANING OF keys: text, k (AutoK without INTO), label   *)
(*   uses       the labels its SELECT list names                           *)
(*   semantic   the word SEMANTIC qualifies some DISTINCT in it            *)
(*   distincts  its DISTINCT ONs: text, and whether its SELECT is a branch *)
(*              of a set operation, as of a UNION                          *)
(*   misplaced  a marker stands where no rule accepts it                   *)
(* A text stands for the expression that reads it.                         *)
(***************************************************************************)
EXTENDS SemanticTypes

CONSTANTS
    Whole,      \* what a marker of the whole struct has for a field
    Inline,     \* what the marker of an EXTRACT(...) has for a type
    Lower,      \* Lower[n]: a type name as the registry keys it
    AutoK,      \* AUTO_K_SENTINEL
    DefaultSimilarity   \* DEFAULT_SIMILARITY, in percent

ASSUME SentinelAssumption == AutoK \in Int \ Nat

(***************************************************************************)
(* trailing_clauses: known knobs, each once, each a fraction in (0, 1].    *)
(***************************************************************************)
ClausesParse(with) ==
    /\ IsInjective([i \in DOMAIN with |-> with[i][1]])
    /\ \A i \in DOMAIN with :
         with[i][1] \in {"recall", "confidence", "similarity"} /\ with[i][2] \in 1 .. 100

None == 0
Clause(with, knob) ==
    LET said == {i \in DOMAIN with : with[i][1] = knob}
    IN  IF said = {} THEN None ELSE with[CHOOSE i \in said : TRUE][2]

(***************************************************************************)
(* WITH RECALL goes to every MEANS that names no target of its own; a      *)
(* confidence needs a target below 1 to qualify.                           *)
(***************************************************************************)
RecallApplies(q) ==
    LET recall == Clause(q.with, "recall")
    IN  IF Clause(q.with, "confidence") # None
        THEN recall \in 1 .. 99
        ELSE TRUE

Untargeted(q) == {i \in DOMAIN q.where : q.where[i].recall = None}

ApplyRecall(q) ==
    [i \in DOMAIN q.where |->
       IF i \in Untargeted(q) THEN [q.where[i] EXCEPT !.recall = Clause(q.with, "recall")]
       ELSE q.where[i]]

(***************************************************************************)
(* A statement that reads SEMANTIC DISTINCT anywhere has every DISTINCT ON *)
(* wrapped whose SELECT is all of its query: the branches of a set         *)
(* operation are no queries of their own.                                  *)
(***************************************************************************)
Keys(q) ==
    LET wrapped == At(q.distincts, {i \in DOMAIN q.distincts : q.semantic /\ ~q.distincts[i].branch})
    IN  [n \in DOMAIN wrapped |-> wrapped[n].text]

(***************************************************************************)
(* sql(): up to the logical plan. Casts and their fields are resolved      *)
(* against the types registered by then.                                   *)
(***************************************************************************)
Resolves(marker, types) ==
    \/ marker.type = Inline
    \/ /\ Lower[marker.type] \in DOMAIN types
       /\ marker.field = Whole \/ marker.field \in ToSet(types[Lower[marker.type]].fields)

Plannable(q, types) ==
    /\ ~q.malformed
    /\ ClausesParse(q.with)
    /\ q.semantic => Keys(q) # <<>>
    /\ \A i \in DOMAIN q.extracts : Resolves(q.extracts[i], types)
    /\ q.uses \subseteq {q.groups[i].label : i \in DOMAIN q.groups}
    /\ RecallApplies(q)
    /\ Clause(q.with, "recall") # None => Untargeted(q) # {} \/ q.labels # <<>>
    /\ Clause(q.with, "similarity") # None => Keys(q) # <<>>

(***************************************************************************)
(* MeansRewriteRule. MEANS over one text form a group. A group without an  *)
(* index and without targets asks its conditions in one call; any other    *)
(* asks them one filter after another. Indexed groups run first.           *)
(***************************************************************************)
\* Mutant: a text keeps the first condition asked of it.
GroupByTextFirst(where) ==
    LET texts == Firsts([i \in DOMAIN where |-> where[i].text])
    IN  [n \in DOMAIN texts |-> <<At(where, {i \in DOMAIN where : where[i].text = texts[n]})[1]>>]

GroupByText(where) ==
    LET texts == Firsts([i \in DOMAIN where |-> where[i].text])
    IN  [n \in DOMAIN texts |-> At(where, {i \in DOMAIN where : where[i].text = texts[n]})]

Conditions(group) == Firsts([i \in DOMAIN group |-> group[i].condition])

Fusable(group, indexed) ==
    /\ group[1].text \notin indexed
    /\ \A i \in DOMAIN group : group[i].recall = None
    /\ Len(Conditions(group)) > 1

Stages(group, indexed) ==
    IF Fusable(group, indexed)
    THEN <<[op |-> "classify", text |-> group[1].text, conditions |-> Conditions(group)]>>
    ELSE [i \in DOMAIN group |->
            [op |-> "filter", text |-> group[i].text, conditions |-> <<group[i].condition>>,
             recall |-> group[i].recall]]

RewriteMeans(where, indexed) ==
    LET groups == GroupByText(where)
        hinted == {n \in DOMAIN groups : groups[n][1].text \in indexed}
        ordered == At(groups, hinted) \o At(groups, DOMAIN groups \ hinted)
    IN  FlattenSeq([i \in DOMAIN ordered |-> Stages(ordered[i], indexed)])

(***************************************************************************)
(* ExtractRewriteRule: one node per source and registered type, holding    *)
(* the fields its markers reach; then one per source, field and type of    *)
(* the inline ones.                                                        *)
(***************************************************************************)
Named(q) == At(q.extracts, {i \in DOMAIN q.extracts : q.extracts[i].type # Inline})
InlineMarkers(q) == At(q.extracts, {i \in DOMAIN q.extracts : q.extracts[i].type = Inline})

Referenced(markers, node) ==
    {m.field : m \in {x \in ToSet(markers) :
                        x.source = node.source /\ Lower[x.type] = node.type}}

NamedNodes(markers, types) ==
    LET nodes == Firsts([i \in DOMAIN markers |->
                           [source |-> markers[i].source, type |-> Lower[markers[i].type]]])
        target(node) == LET fields == Referenced(markers, node)
                        IN  IF Whole \in fields THEN types[node.type]
                            ELSE Pruned(types[node.type], fields)
    IN  [n \in DOMAIN nodes |->
           [op |-> "extract", text |-> nodes[n].source, type |-> nodes[n].type,
            target |-> target(nodes[n])]]

InlineNodes(markers) ==
    LET nodes == Firsts([i \in DOMAIN markers |->
                           [source |-> markers[i].source, field |-> markers[i].field]])
    IN  [n \in DOMAIN nodes |->
           [op |-> "extract", text |-> nodes[n].source, type |-> Inline,
            target |-> [fields |-> <<nodes[n].field>>, together |-> {}]]]

RewriteExtract(q, types) == NamedNodes(Named(q), types) \o InlineNodes(InlineMarkers(q))

(***************************************************************************)
(* RelevanceRewriteRule, ClusterRewriteRule, DistinctRewriteRule: one node *)
(* per distinct marker. The first limit from the root sizes every ranking. *)
(***************************************************************************)
RewriteRelevance(q) ==
    LET markers == Firsts(q.scores)
    IN  [n \in DOMAIN markers |->
           [op |-> "rank", text |-> markers[n][1], limit |-> q.limits[1]]]

RewriteCluster(q) ==
    LET markers == Firsts([i \in DOMAIN q.groups |-> [text |-> q.groups[i].text, k |-> q.groups[i].k]])
    IN  [n \in DOMAIN markers |-> [op |-> "cluster", text |-> markers[n].text, k |-> markers[n].k]]

RewriteDistinct(q) ==
    LET markers == Firsts(Keys(q))
        similarity == Clause(q.with, "similarity")
    IN  [n \in DOMAIN markers |->
           [op |-> "distinct", text |-> markers[n],
            similarity |-> IF similarity = None THEN DefaultSimilarity ELSE similarity]]

(***************************************************************************)
(* The rules in the order the session state has them, each stacking its    *)
(* operators on the ones before; and when one of them refuses.             *)
(***************************************************************************)
Optimizable(q) ==
    /\ ~q.misplaced
    /\ Untargeted(q) # {} => Clause(q.with, "confidence") # 100
    /\ q.labels # <<>> => Clause(q.with, "recall") = None
    /\ q.scores # <<>> => q.limits # <<>>
    /\ \A i \in DOMAIN q.groups : q.groups[i].k = AutoK \/ q.groups[i].k > 0

Optimized(q, types, indexed) ==
    RewriteMeans(ApplyRecall(q), indexed)
      \o [i \in DOMAIN q.labels |->
            [op |-> "label", text |-> q.labels[i].text, conditions |-> q.labels[i].conditions]]
      \o RewriteExtract(q, types)
      \o RewriteRelevance(q) \o RewriteCluster(q) \o RewriteDistinct(q)

(***************************************************************************)
(* SemcastExtensionPlanner: a filter over an indexed text is a scan and a  *)
(* verification; ranking, clustering and dedupe need the index.            *)
(***************************************************************************)
NeedsIndex(op) == op.op \in {"rank", "cluster", "distinct"}

Executable(ops, indexed) ==
    \A i \in DOMAIN ops : NeedsIndex(ops[i]) => ops[i].text \in indexed

PhysicalOps(op, indexed) ==
    LET verify == [op |-> "verify", text |-> op.text, conditions |-> op.conditions]
    IN  IF op.op # "filter" THEN <<op>>
        ELSE IF op.text \notin indexed THEN <<verify>>
        ELSE <<[op |-> "scan", text |-> op.text, conditions |-> op.conditions,
                recall |-> op.recall], verify>>

Physical(ops, indexed) == FlattenSeq([i \in DOMAIN ops |-> PhysicalOps(ops[i], indexed)])
============================================================================
