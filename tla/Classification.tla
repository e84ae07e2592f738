--------------------------- MODULE Classification ---------------------------
(***************************************************************************)
(* MEANS as a label: a CASE in the SELECT list whose branches mix ordinary *)
(* conditions with MEANS. The rewrite collects the MEANS conditions into   *)
(* one operator that answers them together, one call per row, behind a     *)
(* guard made of the ordinary branches before the first of them. The       *)
(* verdicts are cached one by one, next to those of MEANS in a WHERE.      *)
(***************************************************************************)
EXTENDS Integers, Sequences, FiniteSets

CONSTANTS
    Rows,           \* the rows of the relation
    Text,           \* Text[r]: the text of a row that has one
    Conditions,     \* what MEANS asks
    Cases,          \* CASEs: sequences of conditions and ordinary branches
    Outcomes,       \* Outcomes[r]: a row's ordinary branches, "true", "false" or "null"
    MaxStatements   \* bound on statements

ASSUME CasesAssumption ==
    \A c \in Cases : /\ DOMAIN c \subseteq Nat \ {0}
                    /\ \E i \in DOMAIN c : c[i] \in Conditions
ASSUME StatementsAssumption == DOMAIN Text \subseteq Rows /\ MaxStatements \in Nat

VARIABLES
    answers,     \* the verdict cache: by text, condition and prompt
    answered,    \* texts and conditions a model has answered so far
    statements,  \* statements begun
    label        \* the statement running

classificationVars == <<answers, answered, statements, label>>

Texts == {Text[r] : r \in DOMAIN Text}
Verdicts == {"yes", "no"}
Key == Texts \X Conditions \X {"means", "classify"}

NoVerdicts == [r \in Rows |-> <<>>]

ClassificationInit ==
    /\ answers = <<>>
    /\ answered = {}
    /\ statements = 0
    /\ label = [pc |-> "idle", case |-> <<>>, gated |-> {}, verdicts |-> NoVerdicts,
                pending |-> [r \in Rows |-> {}]]

(***************************************************************************)
(* The rewrite: the conditions of a CASE, and the branches that gate them. *)
(***************************************************************************)
Asked(case) == {case[i] : i \in DOMAIN case} \intersect Conditions

Leading(case) ==
    {i \in DOMAIN case : \A j \in 1 .. i : case[j] \notin Conditions}

\* Mutant: the guard is NOT rather than IS NOT TRUE, and NULL admits nothing.
AdmittedByNot(case, r) == \A i \in Leading(case) : Outcomes[r][case[i]] = "false"

Admitted(case, r) == \A i \in Leading(case) : Outcomes[r][case[i]] # "true"

(***************************************************************************)
(* A verdict is looked up under the prompt of a request for n conditions,  *)
(* then under the one a WHERE ... MEANS uses.                              *)
(***************************************************************************)
Prompt(n) == IF n = 1 THEN "means" ELSE "classify"

\* Mutant: only the entry this request would write is tried.
CachedOwn(text, condition, n) ==
    {answers[key] : key \in {<<text, condition, Prompt(n)>>} \intersect DOMAIN answers}

Cached(text, condition, n) ==
    LET own == <<text, condition, Prompt(n)>>
        verify == <<text, condition, "means">>
    IN  IF own \in DOMAIN answers THEN {answers[own]}
        ELSE {answers[key] : key \in {verify} \intersect DOMAIN answers}

(***************************************************************************)
(* A row the guard refuses and a row without text are "no" throughout and  *)
(* cost no call; of the others, what the cache holds is taken from it.     *)
(***************************************************************************)
BeginLabel(case) ==
    LET asked == Asked(case)
        n == Cardinality(asked)
        refused == {r \in Rows : ~Admitted(case, r) \/ r \notin DOMAIN Text}
        known(r) == {c \in asked : Cached(Text[r], c, n) # {}}
    IN  /\ label.pc \in {"idle", "done"}
        /\ statements < MaxStatements
        /\ statements' = statements + 1
        /\ label' = [pc |-> "label", case |-> case,
                     gated |-> {r \in Rows : ~Admitted(case, r)},
                     verdicts |-> [r \in Rows |->
                        IF r \in refused THEN [c \in asked |-> "no"]
                        ELSE [c \in known(r) |-> CHOOSE v \in Cached(Text[r], c, n) : TRUE]],
                     pending |-> [r \in Rows |-> IF r \in refused THEN {} ELSE asked \ known(r)]]
        /\ UNCHANGED <<answers, answered>>

(***************************************************************************)
(* One request for each row with pending conditions: the verify prompt for *)
(* one, the fused one for several. The model answers some of them; what it *)
(* answers is cached.                                                      *)
(***************************************************************************)
Pending == UNION {{<<r, c>> : c \in label.pending[r]} : r \in Rows}

Later(f, g) == [x \in DOMAIN f \union DOMAIN g |-> IF x \in DOMAIN g THEN g[x] ELSE f[x]]

\* What a batch of answers writes to the cache; of equal keys the last row's stays.
Entries(decoded) ==
    LET key(x) == <<Text[x[1]], x[2], Prompt(Cardinality(label.pending[x[1]]))>>
        last(k) == CHOOSE x \in DOMAIN decoded :
                     key(x) = k /\ \A y \in DOMAIN decoded : key(y) = k => y[1] <= x[1]
    IN  [k \in {key(x) : x \in DOMAIN decoded} |-> decoded[last(k)]]

Apply ==
    /\ label.pc = "label"
    /\ \E some \in SUBSET Pending : \E decoded \in [some -> Verdicts] :
         /\ answers' = Later(answers, Entries(decoded))
         /\ answered' = answered \union {<<Text[x[1]], x[2]>> : x \in some}
         /\ label' = [label EXCEPT !.pc = "done",
                        !.verdicts = [r \in Rows |->
                           LET new == {c \in Conditions : <<r, c>> \in some}
                           IN  Later(@[r], [c \in new |-> decoded[<<r, c>>]])],
                        !.pending = [r \in Rows |-> {}]]
    /\ UNCHANGED statements

(***************************************************************************)
(* A WHERE ... MEANS over the same text, without an index.                 *)
(***************************************************************************)
Filter(c) ==
    LET misses == {t \in Texts : <<t, c, "means">> \notin DOMAIN answers}
    IN  /\ label.pc \in {"idle", "done"}
        /\ statements < MaxStatements
        /\ statements' = statements + 1
        /\ \E some \in SUBSET misses : \E verdict \in [some -> Verdicts] :
             /\ answers' = Later(answers, [key \in {<<t, c, "means">> : t \in some} |->
                                             verdict[key[1]]])
             /\ answered' = answered \union {<<t, c>> : t \in some}
        /\ UNCHANGED label

ClassificationNext ==
    \/ \E case \in Cases : BeginLabel(case)
    \/ Apply
    \/ \E c \in Conditions : Filter(c)

(***************************************************************************)
(* Properties                                                              *)
(***************************************************************************)
CaseOver(case, r, verdict) ==
    LET holds(b) == IF b \in Conditions THEN b \in DOMAIN verdict /\ verdict[b] = "yes"
                    ELSE Outcomes[r][b] = "true"
        matching == {i \in DOMAIN case : holds(case[i])}
        first == {i \in matching : \A j \in matching : i <= j}
    IN  IF first = {} THEN 0 ELSE CHOOSE i \in first : TRUE

\* A row the guard keeps from the model takes the branch it would take
\* whatever the model said. (rewrite_case: "it never skips one that is needed".)
GuardSkipsNothingNeeded ==
    label.pc = "done" =>
      \A r \in label.gated : \A truth \in [Asked(label.case) -> Verdicts] :
        CaseOver(label.case, r, truth) = CaseOver(label.case, r, label.verdicts[r])

\* A CASE of several conditions asks about no text a condition it has an answer
\* to, whether the answer came from another CASE, from this one before it was
\* edited, or from a WHERE. (Classifier.apply: "editing one branch of a CASE
\* leaves the others warm".)
AnswersStayWarm ==
    label.pc = "label" /\ Cardinality(Asked(label.case)) > 1 =>
      \A r \in Rows : \A c \in label.pending[r] : <<Text[r], c>> \notin answered
============================================================================
