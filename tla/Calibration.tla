---------------------------- MODULE Calibration -----------------------------
(***************************************************************************)
(* WITH RECALL: an index scan that learns its floor. A sample of the       *)
(* documents in the input is labelled by the model, a tranche at a time;   *)
(* the highest floor at which enough of the sample's matches survive       *)
(* decides which rows the model reads. WITH CONFIDENCE certifies the       *)
(* target instead of estimating it.                                        *)
(*                                                                         *)
(* A document is its place in the draw order of sample_priority. Targets   *)
(* are percentages. The Wilson bound is compared, never computed: that it  *)
(* reaches a target is a polynomial inequality over the counts and z^2.    *)
(***************************************************************************)
EXTENDS Integers, Sequences, FiniteSets, FiniteSetsExt, Subsequences

CONSTANTS
    Sampled,        \* the documents the input may hold: a set of naturals
    Similarities,   \* the scores a document may have in the index
    Probabilities,  \* the scores a fitted proxy may give
    DefaultFloor,   \* SearchParams.score_floor
    Target,         \* WITH RECALL, in percent
    SampleSize,     \* documents per tranche
    LabelBudget,    \* CALIBRATION_LABEL_BUDGET
    MinExamples,    \* MIN_TRAINING_EXAMPLES
    Quantiles       \* Quantiles[m] = 100 z^2 for the error split over m floors

ASSUME SampledAssumption == Sampled \subseteq Nat /\ IsFiniteSet(Sampled)
ASSUME TargetAssumption == Target \in 1 .. 100
ASSUME SizesAssumption == SampleSize \in Nat \ {0} /\ LabelBudget \in Nat
ASSUME QuantilesAssumption ==
    /\ Quantiles \in Seq(Nat)
    /\ Cardinality(Sampled) <= Len(Quantiles)
    /\ \A m, n \in DOMAIN Quantiles : m <= n => Quantiles[m] <= Quantiles[n]

VARIABLES
    input,     \* the non-null documents of the buffered input
    best,      \* the best chunk score of every indexed document
    verdicts,  \* the cached full-text verdicts on the condition
    scan       \* the calibrated scan

calibrationVars == <<input, best, verdicts, scan>>

Labels == {"yes", "no", "unknown"}
NegInf == -1000     \* below every score

ASSUME ScoresAssumption ==
    \A score \in Similarities \union Probabilities \union {DefaultFloor} :
      score \in Int /\ score > NegInf

(***************************************************************************)
(* A sample against the index. A failed label counts by its score alone.   *)
(***************************************************************************)
ScoreLabels(labels, scores, indexed) ==
    LET labelled(l) == {labels[i].doc : i \in {j \in DOMAIN labels : labels[j].label = l}}
    IN  [positive   |-> labelled("yes") \intersect DOMAIN scores,
         unindexed  |-> labelled("yes") \ (DOMAIN scores \union indexed),
         lost       |-> (labelled("yes") \union labelled("unknown"))
                          \intersect (indexed \ DOMAIN scores),
         unverified |-> labelled("unknown") \intersect DOMAIN scores,
         best       |-> scores]

AtLeast(docs, floor, s) == {d \in docs : s.best[d] >= floor}

(***************************************************************************)
(* Matches kept and matches in all: a failed label below the floor is      *)
(* taken for a lost match, one above it for nothing.                       *)
(***************************************************************************)
RecallAt(floor, s) ==
    [kept  |-> Cardinality(AtLeast(s.positive, floor, s)) + Cardinality(s.unindexed),
     total |-> Cardinality(s.positive) + Cardinality(s.unindexed) + Cardinality(s.lost)
                 + Cardinality(s.unverified \ AtLeast(s.unverified, floor, s))]

MeetsTarget(r) == r.total = 0 \/ 100 * r.kept >= Target * r.total

CandidateFloors(s) == {s.best[d] : d \in s.positive \union s.unverified}

HighestOr(floors, otherwise) == IF floors = {} THEN otherwise ELSE Max(floors)

PointEstimateFloor(s, known) ==
    LET wanted == (Target * known + 99) \div 100
        needed == IF wanted > Cardinality(s.unindexed)
                  THEN wanted - Cardinality(s.unindexed) ELSE 0
        enough == {s.best[d] : d \in {p \in s.positive :
                     Cardinality(AtLeast(s.positive, s.best[p], s)) >= needed}}
    IN  IF needed = 0 THEN DefaultFloor ELSE HighestOr(enough, NegInf)

EstimatedFloor(s, known) ==
    LET floor == PointEstimateFloor(s, known)
    IN  IF MeetsTarget(RecallAt(floor, s)) THEN floor
        ELSE HighestOr({c \in CandidateFloors(s) : c < floor /\ MeetsTarget(RecallAt(c, s))},
                       NegInf)

(***************************************************************************)
(* The Wilson lower bound, its error split over m floors, is at least the  *)
(* target. It stays below 1, and is 0 without trials.                      *)
(***************************************************************************)
CertifiedOver(m, r) ==
    LET excess == 100 * r.kept - Target * r.total
    IN  /\ r.total > 0
        /\ Target < 100
        /\ excess >= 0
        /\ 100 * excess * excess >= Quantiles[m] * r.total * Target * (100 - Target)

\* Mutant: a failed label above every match is a candidate like the others.
CertifiableAnywhere(s) == CandidateFloors(s)

Certifiable(s) ==
    {c \in CandidateFloors(s) : \E d \in s.positive : s.best[d] >= c}

CertifiedFloor(s) ==
    LET certified == {c \in Certifiable(s) :
                        CertifiedOver(Cardinality(Certifiable(s)), RecallAt(c, s))}
    IN  HighestOr(certified, NegInf)

(***************************************************************************)
(* calibrate_threshold, and whether what it reports meets the target.      *)
(***************************************************************************)
Calibrate(certify, s) ==
    LET known == Cardinality(s.positive) + Cardinality(s.unindexed) + Cardinality(s.lost)
        floor == IF known = 0 /\ s.unverified = {} THEN DefaultFloor
                 ELSE IF certify /\ known > 0 THEN CertifiedFloor(s)
                 ELSE EstimatedFloor(s, known)
        r == RecallAt(floor, s)
    IN  [floor |-> floor,
         meets |-> \/ known = 0 /\ s.unverified = {}
                   \/ r.total = 0
                   \/ IF certify THEN CertifiedOver(1, r) ELSE MeetsTarget(r)]

(***************************************************************************)
(* The scan                                                                *)
(***************************************************************************)
NotCalibrated == [floor |-> NegInf, meets |-> FALSE, scores |-> <<>>, labels |-> <<>>]

CalibrationInit ==
    /\ input \in SUBSET Sampled
    /\ best \in UNION {[indexed -> Similarities] : indexed \in SUBSET Sampled}
    /\ verdicts \in {[d \in Sampled |-> IF d \in known THEN "yes" ELSE "none"] :
                       known \in SUBSET Sampled}
    /\ scan = [pc |-> "idle", certify |-> FALSE, pool |-> {}, labels |-> <<>>,
               outcome |-> NotCalibrated, pruned |-> {}]

FirstOf(docs, n) == {d \in docs : Cardinality({e \in docs : e <= d}) <= n}

(***************************************************************************)
(* The input is buffered, the exhaustive search done, the pool drawn.      *)
(***************************************************************************)
DrawSample(certify) ==
    /\ scan.pc = "idle"
    /\ scan' = [scan EXCEPT
                  !.pc = IF input = {} THEN "calibrate" ELSE "label",
                  !.certify = certify,
                  !.pool = FirstOf(input, IF certify /\ LabelBudget > SampleSize
                                          THEN LabelBudget ELSE SampleSize)]
    /\ UNCHANGED <<input, best, verdicts>>

(***************************************************************************)
(* label_sample: cached verdicts first, then the model's answers, which    *)
(* are cached unless the call failed.                                      *)
(***************************************************************************)
LabelTranche ==
    LET drawn == {scan.labels[i].doc : i \in DOMAIN scan.labels}
        tranche == FirstOf(scan.pool \ drawn, SampleSize)
        hits == InOrder({d \in tranche : verdicts[d] # "none"})
        misses == InOrder({d \in tranche : verdicts[d] = "none"})
    IN  /\ scan.pc = "label"
        /\ \E answer \in [{misses[i] : i \in DOMAIN misses} -> Labels] :
             /\ verdicts' = [d \in Sampled |->
                               IF d \in DOMAIN answer /\ answer[d] # "unknown"
                               THEN answer[d] ELSE verdicts[d]]
             /\ scan' = [scan EXCEPT !.pc = "calibrate",
                           !.labels = @ \o [i \in DOMAIN hits |->
                                              [doc |-> hits[i], label |-> verdicts[hits[i]]]]
                                        \o [i \in DOMAIN misses |->
                                              [doc |-> misses[i], label |-> answer[misses[i]]]]]
        /\ UNCHANGED <<input, best>>

(***************************************************************************)
(* The proxies the labels support: cosine over every label, or, when the   *)
(* first half of them can train one, a fitted proxy over the other half.   *)
(* vectors are the documents whose vectors the index supplies.             *)
(***************************************************************************)
Training == SubSeq(scan.labels, 1, Len(scan.labels) \div 2)
HeldOut == SubSeq(scan.labels, Len(scan.labels) \div 2 + 1, Len(scan.labels))

CanFit(vectors) ==
    LET examples == {Training[i] : i \in {j \in DOMAIN Training :
                       Training[j].doc \in vectors /\ Training[j].label # "unknown"}}
    IN  /\ Cardinality(examples) >= MinExamples
        /\ {x.label : x \in examples} = {"yes", "no"}
        /\ DOMAIN best \subseteq vectors

Proxies ==
    {[scores |-> best, labels |-> scan.labels]}
      \union
    (IF CanFit(DOMAIN best)
     THEN {[scores |-> learned, labels |-> HeldOut] : learned \in [DOMAIN best -> Probabilities]}
     ELSE {})

(***************************************************************************)
(* An estimate settles for one tranche; a certificate that does not meet   *)
(* its target draws another, while the pool lasts.                         *)
(***************************************************************************)
CalibrateOverBestProxy ==
    /\ scan.pc = "calibrate"
    /\ \E proxy \in Proxies :
         LET c == Calibrate(scan.certify,
                            ScoreLabels(proxy.labels, proxy.scores, DOMAIN best))
             settled == ~scan.certify \/ c.meets \/ Len(scan.labels) = Cardinality(scan.pool)
         IN  scan' = [scan EXCEPT
                        !.pc = IF settled THEN "prune" ELSE "label",
                        !.outcome = [floor |-> c.floor, meets |-> c.meets,
                                     scores |-> proxy.scores, labels |-> proxy.labels]]
    /\ UNCHANGED <<input, best, verdicts>>

(***************************************************************************)
(* The evidence keeps the documents whose score, on the scale the floor    *)
(* was set on, reaches it; the buffered rows go by that. Any `?` before    *)
(* fails the query.                                                        *)
(***************************************************************************)
\* Mutant: survivors are decided on the cosine scores.
PruneByCosine ==
    /\ scan.pc = "prune"
    /\ scan' = [scan EXCEPT !.pc = "done",
                  !.pruned = {d \in input \intersect DOMAIN best : best[d] < scan.outcome.floor}]
    /\ UNCHANGED <<input, best, verdicts>>

Prune ==
    /\ scan.pc = "prune"
    /\ scan' = [scan EXCEPT !.pc = "done",
                  !.pruned = {d \in input \intersect DOMAIN best :
                                scan.outcome.scores[d] < scan.outcome.floor}]
    /\ UNCHANGED <<input, best, verdicts>>

ScanFails ==
    /\ scan.pc = "idle"
    /\ scan' = [scan EXCEPT !.pc = "failed"]
    /\ UNCHANGED <<input, best, verdicts>>

CalibrationNext ==
    \/ \E certify \in BOOLEAN : DrawSample(certify)
    \/ LabelTranche
    \/ CalibrateOverBestProxy
    \/ Prune
    \/ ScanFails

(***************************************************************************)
(* Properties                                                              *)
(***************************************************************************)
Judged(l) == {scan.outcome.labels[i].doc :
                i \in {j \in DOMAIN scan.outcome.labels : scan.outcome.labels[j].label = l}}

\* When the scan reports its target met, that share of the matches it was
\* calibrated on reaches the model, even if every document it could not label
\* and pruned was a match. (calibrated_prefilter: the floor and the survivors
\* are on one scale; recall_at assumes the worst.)
SampleSurvives ==
    scan.pc = "done" /\ scan.outcome.meets =>
      LET lost == Judged("unknown") \intersect scan.pruned
      IN  100 * Cardinality(Judged("yes") \ scan.pruned)
            >= Target * (Cardinality(Judged("yes")) + Cardinality(lost))

\* A label that failed never makes the scan prune more than it would have
\* without that document in the sample. (certified_floor: "A failed label can
\* only lower the floor, never raise it".)
FailureOnlyLowersFloor ==
    scan.pc \in {"prune", "done"} =>
      LET labels == scan.outcome.labels
          answered == At(labels, {i \in DOMAIN labels : labels[i].label # "unknown"})
          without == ScoreLabels(answered, scan.outcome.scores, DOMAIN best)
      IN  scan.outcome.floor <= Calibrate(scan.certify, without).floor
============================================================================
