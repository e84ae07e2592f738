-------------------------- MODULE CalibrationProofs --------------------------
(***************************************************************************)
(* Proofs about Calibration, for every input, index, set of labels, proxy  *)
(* and target.                                                             *)
(*                                                                         *)
(* Every state keeps what the floor was computed from: the labels and the  *)
(* scores of the proxy chosen. So both properties are facts about          *)
(* Calibrate and one sample.                                               *)
(***************************************************************************)
EXTENDS Calibration, SubsequenceProofs, SequenceTheorems

(***************************************************************************)
(* A sample as ScoreLabels makes it of a proxy that scores what is         *)
(* indexed: no label is lost.                                              *)
(***************************************************************************)
IsSample(s) ==
  /\ IsFiniteSet(s.positive) /\ IsFiniteSet(s.unindexed) /\ IsFiniteSet(s.unverified)
  /\ s.lost = {}
  /\ s.positive \union s.unverified \in SUBSET Sampled
  /\ \A d \in s.positive \union s.unverified : s.best[d] \in Int /\ s.best[d] > NegInf

LEMMA RecallOf ==
  ASSUME NEW s, IsSample(s), NEW floor \in Int
  PROVE  /\ Cardinality(s.positive) \in Nat /\ Cardinality(s.unindexed) \in Nat
         /\ Cardinality(AtLeast(s.positive, floor, s)) \in Nat
         /\ Cardinality(s.unverified \ AtLeast(s.unverified, floor, s)) \in Nat
         /\ RecallAt(floor, s).kept
              = Cardinality(AtLeast(s.positive, floor, s)) + Cardinality(s.unindexed)
         /\ RecallAt(floor, s).total
              = Cardinality(s.positive) + Cardinality(s.unindexed)
                  + Cardinality(s.unverified \ AtLeast(s.unverified, floor, s))
<1>1. IsFiniteSet(s.positive) /\ IsFiniteSet(s.unindexed) /\ IsFiniteSet(s.unverified) /\ s.lost = {}
  BY DEF IsSample
<1>2. /\ IsFiniteSet(AtLeast(s.positive, floor, s))
      /\ IsFiniteSet(s.unverified \ AtLeast(s.unverified, floor, s))
  <2>1. AtLeast(s.positive, floor, s) \in SUBSET s.positive
    BY DEF AtLeast
  <2>2. s.unverified \ AtLeast(s.unverified, floor, s) \in SUBSET s.unverified
    OBVIOUS
  <2>. QED BY <1>1, <2>1, <2>2, FS_Subset
<1>3. Cardinality(s.lost) = 0
  BY <1>1, FS_EmptySet
<1>4. /\ Cardinality(s.positive) \in Nat /\ Cardinality(s.unindexed) \in Nat
      /\ Cardinality(AtLeast(s.positive, floor, s)) \in Nat
      /\ Cardinality(s.unverified \ AtLeast(s.unverified, floor, s)) \in Nat
  BY <1>1, <1>2, FS_CardinalityType
<1>. QED BY <1>3, <1>4 DEF RecallAt

LEMMA HighestOf ==
  ASSUME NEW floors \in SUBSET Int, IsFiniteSet(floors), NEW otherwise \in Int
  PROVE  /\ HighestOr(floors, otherwise) \in Int
         /\ floors = {} => HighestOr(floors, otherwise) = otherwise
         /\ floors # {} => HighestOr(floors, otherwise) \in floors
         /\ \A x \in floors : x <= HighestOr(floors, otherwise)
<1>1. floors # {} => Max(floors) \in floors /\ \A x \in floors : x <= Max(floors)
  BY MaxOf
<1>. QED BY <1>1 DEF HighestOr

LEMMA CandidatesOf ==
  ASSUME NEW s, IsSample(s)
  PROVE  /\ CandidateFloors(s) \in SUBSET Int /\ IsFiniteSet(CandidateFloors(s))
         /\ \A c \in CandidateFloors(s) : c > NegInf
         /\ Cardinality(CandidateFloors(s)) <= Len(Quantiles)
<1>. DEFINE both == s.positive \union s.unverified
<1>1. /\ IsFiniteSet(s.positive) /\ IsFiniteSet(s.unverified) /\ both \in SUBSET Sampled
      /\ \A d \in both : s.best[d] \in Int /\ s.best[d] > NegInf
  BY DEF IsSample
<1>2. CandidateFloors(s) = {s.best[d] : d \in both}
  BY DEF CandidateFloors
<1>3. IsFiniteSet(both) /\ Cardinality(both) <= Cardinality(Sampled)
  BY <1>1, FS_Subset, SampledAssumption
<1>4. IsFiniteSet({s.best[d] : d \in both}) /\ Cardinality({s.best[d] : d \in both}) <= Cardinality(both)
  BY <1>3, ImageOf
<1>5. /\ Cardinality(CandidateFloors(s)) \in Nat /\ Cardinality(both) \in Nat
      /\ Cardinality(Sampled) \in Nat /\ Len(Quantiles) \in Nat
  BY <1>2, <1>3, <1>4, FS_CardinalityType, SampledAssumption, QuantilesAssumption
<1>6. Cardinality(CandidateFloors(s)) <= Len(Quantiles)
  <2>. HIDE DEF both
  <2>. QED BY <1>2, <1>3, <1>4, <1>5, QuantilesAssumption
<1>. QED BY <1>1, <1>2, <1>4, <1>6

LEMMA PointOf ==
  ASSUME NEW s, IsSample(s), NEW known \in Nat
  PROVE  /\ PointEstimateFloor(s, known) \in Int /\ PointEstimateFloor(s, known) >= NegInf
         /\ known = 0 => PointEstimateFloor(s, known) = DefaultFloor
         /\ PointEstimateFloor(s, known) # NegInf =>
              100 * RecallAt(PointEstimateFloor(s, known), s).kept >= Target * known
<1>. DEFINE x == Cardinality(s.unindexed)
            wanted == (Target * known + 99) \div 100
            needed == IF wanted > x THEN wanted - x ELSE 0
            some == {p \in s.positive : Cardinality(AtLeast(s.positive, s.best[p], s)) >= needed}
            enough == {s.best[d] : d \in some}
            floor == PointEstimateFloor(s, known)
<1>1. floor = IF needed = 0 THEN DefaultFloor ELSE HighestOr(enough, NegInf)
  BY DEF PointEstimateFloor
<1>2. x \in Nat /\ DefaultFloor \in Int /\ DefaultFloor > NegInf /\ NegInf \in Int
  <2>1. x \in Nat
    BY FS_CardinalityType DEF IsSample
  <2>. QED BY <2>1, ScoresAssumption DEF NegInf
<1>3. wanted \in Nat /\ 100 * wanted >= Target * known /\ (known = 0 => wanted = 0)
  <2>1. Target * known \in Nat /\ (known = 0 => Target * known = 0)
    BY TargetAssumption
  <2>. QED BY <2>1
<1>4. /\ enough \in SUBSET Int /\ IsFiniteSet(enough) /\ \A e \in enough : e > NegInf
  <2>1. some \in SUBSET s.positive /\ IsFiniteSet(s.positive)
    BY DEF IsSample
  <2>2. IsFiniteSet(some)
    <3>. HIDE DEF some
    <3>. QED BY <2>1, FS_Subset
  <2>3. IsFiniteSet(enough)
    <3>. HIDE DEF some
    <3>. QED BY <2>2, ImageOf
  <2>4. \A d \in some : s.best[d] \in Int /\ s.best[d] > NegInf
    <3>. HIDE DEF some
    <3>. QED BY <2>1 DEF IsSample
  <2>. HIDE DEF some
  <2>. QED BY <2>3, <2>4
<1>5. \A e \in enough : Cardinality(AtLeast(s.positive, e, s)) >= needed
  OBVIOUS
<1>. HIDE DEF enough
<1>6. /\ HighestOr(enough, NegInf) \in Int
      /\ enough = {} => HighestOr(enough, NegInf) = NegInf
      /\ enough # {} => HighestOr(enough, NegInf) \in enough
  BY <1>2, <1>4, HighestOf
<1>7. needed \in Nat /\ (needed = 0 => wanted <= x) /\ (needed # 0 => needed + x = wanted)
  <2>. HIDE DEF wanted, x
  <2>. QED BY <1>2, <1>3
<1>8. known = 0 => needed = 0
  <2>. HIDE DEF wanted, x
  <2>. QED BY <1>2, <1>3
<1>. HIDE DEF wanted, x, needed
<1>9. floor \in Int /\ floor >= NegInf
  <2>1. \A e \in enough : e \in Int /\ e >= NegInf
    BY <1>4, <1>2
  <2>. QED BY <1>1, <1>2, <1>6, <2>1
<1>. HIDE DEF floor
<1>10. ASSUME floor # NegInf PROVE 100 * RecallAt(floor, s).kept >= Target * known
  <2>1. /\ Cardinality(AtLeast(s.positive, floor, s)) \in Nat
        /\ RecallAt(floor, s).kept = Cardinality(AtLeast(s.positive, floor, s)) + x
    BY <1>9, RecallOf DEF x
  <2>2. Cardinality(AtLeast(s.positive, floor, s)) + x >= wanted
    <3>1. CASE needed = 0
      BY <3>1, <2>1, <1>2, <1>3, <1>7
    <3>2. CASE needed # 0
      <4>1. floor \in enough
        BY <3>2, <1>1, <1>6, <1>10
      <4>2. Cardinality(AtLeast(s.positive, floor, s)) >= needed
        BY <4>1, <1>5
      <4>. QED BY <4>2, <3>2, <2>1, <1>2, <1>3, <1>7
    <3>. QED BY <3>1, <3>2
  <2>3. Target * known \in Nat
    BY TargetAssumption
  <2>. QED BY <2>1, <2>2, <2>3, <1>2, <1>3
<1>. QED BY <1>1, <1>8, <1>9, <1>10 DEF floor

(***************************************************************************)
(* The floor of an estimate is at most the one counted on the matches      *)
(* alone, and that one unless a failed label is in the way.                *)
(***************************************************************************)
LEMMA EstimateOf ==
  ASSUME NEW s, IsSample(s), NEW known \in Nat
  PROVE  /\ EstimatedFloor(s, known) \in Int /\ EstimatedFloor(s, known) >= NegInf
         /\ EstimatedFloor(s, known) <= PointEstimateFloor(s, known)
<1>. DEFINE floor == PointEstimateFloor(s, known)
            below == {c \in CandidateFloors(s) : c < floor /\ MeetsTarget(RecallAt(c, s))}
<1>1. floor \in Int /\ floor >= NegInf
  BY PointOf
<1>2. below \in SUBSET CandidateFloors(s) /\ \A c \in below : c < floor
  OBVIOUS
<1>3. EstimatedFloor(s, known) = IF MeetsTarget(RecallAt(floor, s)) THEN floor
                                 ELSE HighestOr(below, NegInf)
  BY DEF EstimatedFloor
<1>. HIDE DEF below, floor
<1>4. below \in SUBSET Int /\ IsFiniteSet(below) /\ \A c \in below : c > NegInf
  <2>1. /\ CandidateFloors(s) \in SUBSET Int /\ IsFiniteSet(CandidateFloors(s))
        /\ \A c \in CandidateFloors(s) : c > NegInf
    BY CandidatesOf
  <2>2. IsFiniteSet(below)
    BY <1>2, <2>1, FS_Subset
  <2>. QED BY <1>2, <2>1, <2>2
<1>5. NegInf \in Int
  BY DEF NegInf
<1>6. /\ HighestOr(below, NegInf) \in Int
      /\ below = {} => HighestOr(below, NegInf) = NegInf
      /\ below # {} => HighestOr(below, NegInf) \in below
  BY <1>4, <1>5, HighestOf
<1>7. \A c \in below : c \in Int /\ c >= NegInf /\ c <= floor
  BY <1>1, <1>2, <1>4, <1>5
<1>8. HighestOr(below, NegInf) >= NegInf /\ HighestOr(below, NegInf) <= floor
  BY <1>1, <1>5, <1>6, <1>7
<1>. QED BY <1>1, <1>3, <1>6, <1>8 DEF floor

(***************************************************************************)
(* Two samples that differ in the failed labels only, one having none.     *)
(***************************************************************************)
Without(s, t) ==
  /\ IsSample(s) /\ IsSample(t)
  /\ t.positive = s.positive /\ t.unindexed = s.unindexed /\ t.best = s.best
  /\ t.unverified = {}

LEMMA RecallWithout ==
  ASSUME NEW s, NEW t, Without(s, t), NEW floor \in Int
  PROVE  /\ RecallAt(floor, t).kept = RecallAt(floor, s).kept
         /\ RecallAt(floor, t).total = Cardinality(t.positive) + Cardinality(t.unindexed)
         /\ RecallAt(floor, t).total <= RecallAt(floor, s).total
         /\ RecallAt(floor, s).kept \in Nat /\ RecallAt(floor, s).total \in Nat
         /\ RecallAt(floor, t).total \in Nat
<1>1. /\ IsSample(s) /\ IsSample(t)
      /\ t.positive = s.positive /\ t.unindexed = s.unindexed /\ t.best = s.best
      /\ t.unverified = {}
  BY DEF Without
<1>2. AtLeast(t.positive, floor, t) = AtLeast(s.positive, floor, s)
  BY <1>1 DEF AtLeast
<1>3. Cardinality(t.unverified \ AtLeast(t.unverified, floor, t)) = 0
  <2>1. t.unverified \ AtLeast(t.unverified, floor, t) = {}
    BY <1>1
  <2>. QED BY <2>1, FS_EmptySet
<1>4. /\ Cardinality(s.positive) \in Nat /\ Cardinality(s.unindexed) \in Nat
      /\ Cardinality(AtLeast(s.positive, floor, s)) \in Nat
      /\ Cardinality(s.unverified \ AtLeast(s.unverified, floor, s)) \in Nat
      /\ RecallAt(floor, s).kept
           = Cardinality(AtLeast(s.positive, floor, s)) + Cardinality(s.unindexed)
      /\ RecallAt(floor, s).total
           = Cardinality(s.positive) + Cardinality(s.unindexed)
               + Cardinality(s.unverified \ AtLeast(s.unverified, floor, s))
  BY <1>1, RecallOf
<1>5. /\ RecallAt(floor, t).kept
           = Cardinality(AtLeast(t.positive, floor, t)) + Cardinality(t.unindexed)
      /\ RecallAt(floor, t).total
           = Cardinality(t.positive) + Cardinality(t.unindexed)
               + Cardinality(t.unverified \ AtLeast(t.unverified, floor, t))
  BY <1>1, RecallOf
<1>. QED BY <1>1, <1>2, <1>3, <1>4, <1>5

LEMMA EstimateLowered ==
  ASSUME NEW s, NEW t, Without(s, t), NEW known,
         known = Cardinality(t.positive) + Cardinality(t.unindexed)
  PROVE  EstimatedFloor(s, known) <= EstimatedFloor(t, known)
<1>1. /\ IsSample(s) /\ IsSample(t)
      /\ t.positive = s.positive /\ t.unindexed = s.unindexed /\ t.best = s.best
  BY DEF Without
<1>2. known \in Nat
  <2>1. Cardinality(t.positive) \in Nat /\ Cardinality(t.unindexed) \in Nat
    BY <1>1, FS_CardinalityType DEF IsSample
  <2>. QED BY <2>1
<1>. DEFINE floor == PointEstimateFloor(t, known)
<1>3. PointEstimateFloor(s, known) = floor
  BY <1>1 DEF PointEstimateFloor, AtLeast
<1>4. /\ floor \in Int /\ floor >= NegInf
      /\ floor # NegInf => 100 * RecallAt(floor, t).kept >= Target * known
  BY <1>1, <1>2, PointOf
<1>5. EstimatedFloor(s, known) \in Int /\ EstimatedFloor(s, known) <= floor
  BY <1>1, <1>2, <1>3, EstimateOf
<1>6. EstimatedFloor(t, known) \in Int /\ EstimatedFloor(t, known) >= NegInf
  BY <1>1, <1>2, EstimateOf
<1>7. CASE floor = NegInf
  BY <1>5, <1>6, <1>7 DEF NegInf
<1>8. CASE floor # NegInf
  <2>1. RecallAt(floor, t).total = known
    BY <1>4, RecallWithout
  <2>2. MeetsTarget(RecallAt(floor, t))
    BY <2>1, <1>4, <1>8 DEF MeetsTarget
  <2>3. EstimatedFloor(t, known) = floor
    BY <2>2 DEF EstimatedFloor
  <2>. QED BY <2>3, <1>5
<1>. QED BY <1>7, <1>8

(***************************************************************************)
(* A certificate of k in n trials is one of k in fewer trials, and one     *)
(* over more floors is one over fewer.                                     *)
(***************************************************************************)
LEMMA TimesAtMost ==
  ASSUME NEW a \in Nat, NEW b \in Nat, NEW c \in Nat, NEW d \in Nat, a <= b, c <= d
  PROVE  a * c <= b * d /\ a * c \in Nat /\ b * d \in Nat
<1>. DEFINE e == b - a
            f == d - c
<1>1. e \in Nat /\ f \in Nat /\ b = a + e /\ d = c + f
  OBVIOUS
<1>. HIDE DEF e, f
<1>2. b * d = a * c + (a * f + (e * c + e * f))
  BY <1>1
<1>3. a * c \in Nat /\ a * f \in Nat /\ e * c \in Nat /\ e * f \in Nat
  BY <1>1
<1>. QED BY <1>2, <1>3

LEMMA CertifiedFewer ==
  ASSUME NEW m \in DOMAIN Quantiles, NEW n \in DOMAIN Quantiles, m <= n,
         NEW r, NEW q,
         q.kept \in Nat, r.kept = q.kept, q.total \in Nat, r.total \in Nat \ {0},
         r.total <= q.total, CertifiedOver(n, q)
  PROVE  CertifiedOver(m, r)
<1>. DEFINE x == 100 * q.kept - Target * q.total
            y == 100 * r.kept - Target * r.total
            side == Target * (100 - Target)
<1>1. Target \in Nat \ {0} /\ Target < 100 /\ 100 - Target \in Nat
  BY TargetAssumption DEF CertifiedOver
<1>2. x \in Int /\ x >= 0 /\ 100 * x * x >= Quantiles[n] * q.total * Target * (100 - Target)
  BY <1>1 DEF CertifiedOver
<1>3. Target * r.total <= Target * q.total /\ Target * r.total \in Nat /\ Target * q.total \in Nat
  BY <1>1, TimesAtMost
<1>4. y \in Int /\ x <= y
  <2>1. 100 * q.kept \in Nat
    OBVIOUS
  <2>. QED BY <2>1, <1>3
<1>5. Quantiles[m] \in Nat /\ Quantiles[n] \in Nat /\ Quantiles[m] <= Quantiles[n]
  BY QuantilesAssumption
<1>6. side \in Nat
  BY <1>1, TimesAtMost
<1>. HIDE DEF x, y
<1>7. x * x <= y * y /\ x * x \in Nat /\ y * y \in Nat
  BY <1>2, <1>4, TimesAtMost
<1>8. /\ Quantiles[m] * r.total <= Quantiles[n] * q.total
      /\ Quantiles[m] * r.total \in Nat /\ Quantiles[n] * q.total \in Nat
  BY <1>5, TimesAtMost
<1>. HIDE DEF side
<1>9. (Quantiles[m] * r.total) * side <= (Quantiles[n] * q.total) * side
  <2>1. side <= side
    BY <1>6
  <2>. QED BY <1>6, <1>8, <2>1, TimesAtMost
<1>10. /\ (Quantiles[m] * r.total) * side \in Nat /\ (Quantiles[n] * q.total) * side \in Nat
  <2>1. side <= side
    BY <1>6
  <2>. QED BY <1>6, <1>8, <2>1, TimesAtMost
<1>11. /\ Quantiles[m] * r.total * Target * (100 - Target) = (Quantiles[m] * r.total) * side
       /\ Quantiles[n] * q.total * Target * (100 - Target) = (Quantiles[n] * q.total) * side
  BY <1>1, <1>5, <1>8 DEF side
<1>12. 100 * x * x = 100 * (x * x) /\ 100 * y * y = 100 * (y * y)
  BY <1>2, <1>4
<1>13. 100 * y * y >= Quantiles[m] * r.total * Target * (100 - Target)
  BY <1>2, <1>7, <1>9, <1>10, <1>11, <1>12
<1>14. y >= 0
  BY <1>2, <1>4
<1>. QED BY <1>1, <1>13, <1>14 DEF CertifiedOver, y

(***************************************************************************)
(* The floors that could be certified are those up to the best match; the  *)
(* next match at or above one keeps as many, of no more in all.            *)
(***************************************************************************)
LEMMA CertifiableOf ==
  ASSUME NEW s, IsSample(s)
  PROVE  /\ Certifiable(s) \in SUBSET CandidateFloors(s)
         /\ Certifiable(s) \in SUBSET Int /\ IsFiniteSet(Certifiable(s))
         /\ Cardinality(Certifiable(s)) \in Nat
         /\ Cardinality(Certifiable(s)) <= Len(Quantiles)
         /\ Certifiable(s) # {} => Cardinality(Certifiable(s)) \in DOMAIN Quantiles
<1>1. Certifiable(s) \in SUBSET CandidateFloors(s)
  BY DEF Certifiable
<1>2. /\ CandidateFloors(s) \in SUBSET Int /\ IsFiniteSet(CandidateFloors(s))
      /\ Cardinality(CandidateFloors(s)) <= Len(Quantiles)
  BY CandidatesOf
<1>3. /\ IsFiniteSet(Certifiable(s))
      /\ Cardinality(Certifiable(s)) <= Cardinality(CandidateFloors(s))
  BY <1>1, <1>2, FS_Subset
<1>4. /\ Cardinality(Certifiable(s)) \in Nat /\ Cardinality(CandidateFloors(s)) \in Nat
      /\ Certifiable(s) # {} => Cardinality(Certifiable(s)) # 0
  BY <1>2, <1>3, FS_CardinalityType, FS_EmptySet
<1>5. Cardinality(Certifiable(s)) <= Len(Quantiles)
  BY <1>2, <1>3, <1>4, QuantilesAssumption
<1>6. Certifiable(s) # {} => Cardinality(Certifiable(s)) \in DOMAIN Quantiles
  BY <1>4, <1>5, QuantilesAssumption
<1>. QED BY <1>1, <1>2, <1>3, <1>4, <1>5, <1>6

LEMMA NextMatch ==
  ASSUME NEW s, IsSample(s), NEW c \in Certifiable(s)
  PROVE  \E e \in {s.best[d] : d \in s.positive} :
           /\ c <= e
           /\ AtLeast(s.positive, e, s) = AtLeast(s.positive, c, s)
<1>. DEFINE above == {d \in s.positive : s.best[d] >= c}
            T == {s.best[d] - c : d \in above}
<1>1. c \in Int /\ \A d \in s.positive : s.best[d] \in Int
  BY CertifiableOf DEF IsSample
<1>2. above # {}
  BY DEF Certifiable
<1>3. T \in SUBSET Nat /\ T # {}
  BY <1>1, <1>2
<1>4. PICK x \in T : \A y \in T : x <= y
  <2>. HIDE DEF T
  <2>. QED BY <1>3, LeastNat
<1>5. PICK d \in above : x = s.best[d] - c
  OBVIOUS
<1>6. \A o \in above : s.best[d] <= s.best[o]
  <2>1. ASSUME NEW o \in above PROVE s.best[d] <= s.best[o]
    <3>1. s.best[o] - c \in T /\ s.best[o] \in Int /\ s.best[d] \in Int
      BY <1>1
    <3>2. x <= s.best[o] - c
      BY <3>1, <1>4
    <3>. QED BY <3>1, <3>2, <1>5, <1>1
  <2>. QED BY <2>1
<1>7. c <= s.best[d] /\ s.best[d] \in Int /\ d \in s.positive
  BY <1>1
<1>8. AtLeast(s.positive, s.best[d], s) = AtLeast(s.positive, c, s)
  <2>1. ASSUME NEW o \in s.positive PROVE s.best[o] >= s.best[d] <=> s.best[o] >= c
    BY <1>1, <1>6, <1>7
  <2>. QED BY <2>1 DEF AtLeast
<1>. QED BY <1>7, <1>8

LEMMA CertificateOf ==
  ASSUME NEW s, IsSample(s)
  PROVE  LET certified == {c \in Certifiable(s) :
                 CertifiedOver(Cardinality(Certifiable(s)), RecallAt(c, s))}
         IN  /\ CertifiedFloor(s) \in Int /\ CertifiedFloor(s) >= NegInf
             /\ certified = {} => CertifiedFloor(s) = NegInf
             /\ certified # {} => CertifiedFloor(s) \in certified
             /\ \A c \in certified : c <= CertifiedFloor(s)
<1>. DEFINE certified == {c \in Certifiable(s) :
                 CertifiedOver(Cardinality(Certifiable(s)), RecallAt(c, s))}
<1>1. certified \in SUBSET Certifiable(s)
  OBVIOUS
<1>2. CertifiedFloor(s) = HighestOr(certified, NegInf)
  BY DEF CertifiedFloor
<1>. HIDE DEF certified
<1>3. certified \in SUBSET Int /\ IsFiniteSet(certified) /\ \A c \in certified : c > NegInf
  <2>1. /\ Certifiable(s) \in SUBSET CandidateFloors(s)
        /\ Certifiable(s) \in SUBSET Int /\ IsFiniteSet(Certifiable(s))
    BY CertifiableOf
  <2>2. \A c \in CandidateFloors(s) : c > NegInf
    BY CandidatesOf
  <2>3. IsFiniteSet(certified)
    BY <1>1, <2>1, FS_Subset
  <2>. QED BY <1>1, <2>1, <2>2, <2>3
<1>4. NegInf \in Int
  BY DEF NegInf
<1>5. /\ HighestOr(certified, NegInf) \in Int
      /\ certified = {} => HighestOr(certified, NegInf) = NegInf
      /\ certified # {} => HighestOr(certified, NegInf) \in certified
      /\ \A c \in certified : c <= HighestOr(certified, NegInf)
  BY <1>3, <1>4, HighestOf
<1>6. HighestOr(certified, NegInf) >= NegInf
  BY <1>3, <1>4, <1>5
<1>. QED BY <1>2, <1>5, <1>6 DEF certified

LEMMA CertificateLowered ==
  ASSUME NEW s, NEW t, Without(s, t), Cardinality(t.positive) + Cardinality(t.unindexed) > 0
  PROVE  CertifiedFloor(s) <= CertifiedFloor(t)
<1>. DEFINE certified(u) == {c \in Certifiable(u) :
                 CertifiedOver(Cardinality(Certifiable(u)), RecallAt(c, u))}
<1>1. /\ IsSample(s) /\ IsSample(t)
      /\ t.positive = s.positive /\ t.unindexed = s.unindexed /\ t.best = s.best
      /\ t.unverified = {}
  BY DEF Without
<1>2. /\ CertifiedFloor(s) \in Int /\ CertifiedFloor(t) \in Int /\ CertifiedFloor(t) >= NegInf
      /\ certified(s) = {} => CertifiedFloor(s) = NegInf
      /\ certified(s) # {} => CertifiedFloor(s) \in certified(s)
      /\ \A c \in certified(t) : c <= CertifiedFloor(t)
  BY <1>1, CertificateOf
<1>3. CASE certified(s) = {}
  <2>. HIDE DEF certified
  <2>. QED BY <1>2, <1>3 DEF NegInf
<1>4. CASE certified(s) # {}
  <2>. DEFINE c == CertifiedFloor(s)
              m == Cardinality(Certifiable(t))
              n == Cardinality(Certifiable(s))
  <2>1. c \in Certifiable(s) /\ CertifiedOver(n, RecallAt(c, s))
    BY <1>2, <1>4
  <2>. HIDE DEF certified, c
  <2>2. PICK e \in {s.best[d] : d \in s.positive} :
          /\ c <= e
          /\ AtLeast(s.positive, e, s) = AtLeast(s.positive, c, s)
    BY <1>1, <2>1, NextMatch
  <2>3. c \in Int /\ e \in Int
    BY <1>1, <2>1, CertifiableOf DEF IsSample
  <2>4. e \in Certifiable(t)
    <3>1. PICK d \in s.positive : e = s.best[d]
      OBVIOUS
    <3>. QED BY <1>1, <2>3, <3>1 DEF Certifiable, CandidateFloors
  <2>5. Certifiable(t) \in SUBSET Certifiable(s)
    BY <1>1 DEF Certifiable, CandidateFloors
  <2>6. m \in DOMAIN Quantiles /\ n \in DOMAIN Quantiles /\ m <= n
    <3>1. IsFiniteSet(Certifiable(s)) /\ m \in DOMAIN Quantiles /\ n \in DOMAIN Quantiles
      BY <1>1, <2>1, <2>4, CertifiableOf
    <3>. QED BY <3>1, <2>5, FS_Subset
  <2>. HIDE DEF m, n
  <2>7. /\ RecallAt(c, s).kept \in Nat /\ RecallAt(c, s).total \in Nat
        /\ RecallAt(c, t).kept = RecallAt(c, s).kept
        /\ RecallAt(c, t).total <= RecallAt(c, s).total
        /\ RecallAt(c, t).total = Cardinality(t.positive) + Cardinality(t.unindexed)
        /\ RecallAt(c, t).total \in Nat \ {0}
    <3>1. /\ RecallAt(c, s).kept \in Nat /\ RecallAt(c, s).total \in Nat
          /\ RecallAt(c, t).kept = RecallAt(c, s).kept
          /\ RecallAt(c, t).total <= RecallAt(c, s).total
          /\ RecallAt(c, t).total = Cardinality(t.positive) + Cardinality(t.unindexed)
          /\ RecallAt(c, t).total \in Nat
      BY <2>3, RecallWithout
    <3>. QED BY <3>1
  <2>8. RecallAt(e, t).kept = RecallAt(c, t).kept /\ RecallAt(e, t).total = RecallAt(c, t).total
    <3>1. /\ RecallAt(e, t).kept
               = Cardinality(AtLeast(t.positive, e, t)) + Cardinality(t.unindexed)
          /\ RecallAt(c, t).kept
               = Cardinality(AtLeast(t.positive, c, t)) + Cardinality(t.unindexed)
      BY <1>1, <2>3, RecallOf
    <3>2. AtLeast(t.positive, e, t) = AtLeast(t.positive, c, t)
      BY <1>1, <2>2 DEF AtLeast
    <3>3. /\ RecallAt(e, t).total = Cardinality(t.positive) + Cardinality(t.unindexed)
          /\ RecallAt(c, t).total = Cardinality(t.positive) + Cardinality(t.unindexed)
      BY <2>3, RecallWithout
    <3>. QED BY <3>1, <3>2, <3>3
  <2>9. CertifiedOver(m, RecallAt(e, t))
    <3>. DEFINE q == RecallAt(c, s)
                r == RecallAt(e, t)
    <3>1. /\ q.kept \in Nat /\ r.kept = q.kept /\ q.total \in Nat
          /\ r.total \in Nat \ {0} /\ r.total <= q.total
      BY <2>7, <2>8
    <3>2. CertifiedOver(n, q)
      BY <2>1 DEF n
    <3>. HIDE DEF q, r
    <3>3. CertifiedOver(m, r)
      BY <2>6, <3>1, <3>2, CertifiedFewer
    <3>. QED BY <3>3 DEF r
  <2>10. e \in certified(t)
    BY <2>4, <2>9 DEF certified, m
  <2>11. e <= CertifiedFloor(t)
    BY <2>10, <1>2
  <2>. QED BY <2>2, <2>3, <2>11, <1>2 DEF c
<1>. QED BY <1>3, <1>4

(***************************************************************************)
(* Calibrate, of one sample and of two.                                    *)
(***************************************************************************)
KnownOf(s) == Cardinality(s.positive) + Cardinality(s.unindexed)

LEMMA KnownNat ==
  ASSUME NEW s, IsSample(s)
  PROVE  /\ KnownOf(s) \in Nat
         /\ Cardinality(s.positive) + Cardinality(s.unindexed) + Cardinality(s.lost) = KnownOf(s)
         /\ KnownOf(s) = 0 => s.positive = {} /\ s.unindexed = {}
<1>1. IsFiniteSet(s.positive) /\ IsFiniteSet(s.unindexed) /\ s.lost = {}
  BY DEF IsSample
<1>2. /\ Cardinality(s.positive) \in Nat /\ Cardinality(s.unindexed) \in Nat
      /\ Cardinality(s.lost) = 0
      /\ Cardinality(s.positive) = 0 => s.positive = {}
      /\ Cardinality(s.unindexed) = 0 => s.unindexed = {}
  BY <1>1, FS_CardinalityType, FS_EmptySet
<1>. QED BY <1>2 DEF KnownOf

LEMMA CalibrateOf ==
  ASSUME NEW s, IsSample(s), NEW certify \in BOOLEAN
  PROVE  LET c == Calibrate(certify, s)
         IN  /\ c.floor = IF KnownOf(s) = 0 /\ s.unverified = {} THEN DefaultFloor
                          ELSE IF certify /\ KnownOf(s) > 0 THEN CertifiedFloor(s)
                          ELSE EstimatedFloor(s, KnownOf(s))
             /\ c.floor \in Int
             /\ c.meets =>
                  \/ KnownOf(s) = 0 /\ s.unverified = {}
                  \/ RecallAt(c.floor, s).total = 0
                  \/ 100 * RecallAt(c.floor, s).kept >= Target * RecallAt(c.floor, s).total
<1>. DEFINE floor == IF KnownOf(s) = 0 /\ s.unverified = {} THEN DefaultFloor
                     ELSE IF certify /\ KnownOf(s) > 0 THEN CertifiedFloor(s)
                     ELSE EstimatedFloor(s, KnownOf(s))
            r == RecallAt(floor, s)
<1>1. /\ KnownOf(s) \in Nat
      /\ Cardinality(s.positive) + Cardinality(s.unindexed) + Cardinality(s.lost) = KnownOf(s)
  BY KnownNat
<1>2. Calibrate(certify, s)
        = [floor |-> floor,
           meets |-> \/ KnownOf(s) = 0 /\ s.unverified = {}
                     \/ r.total = 0
                     \/ IF certify THEN CertifiedOver(1, r) ELSE MeetsTarget(r)]
  BY <1>1 DEF Calibrate
<1>3. floor \in Int
  BY <1>1, CertificateOf, EstimateOf, ScoresAssumption
<1>. HIDE DEF floor
<1>4. r.kept \in Nat /\ r.total \in Nat
  <2>1. /\ Cardinality(s.positive) \in Nat /\ Cardinality(s.unindexed) \in Nat
        /\ Cardinality(AtLeast(s.positive, floor, s)) \in Nat
        /\ Cardinality(s.unverified \ AtLeast(s.unverified, floor, s)) \in Nat
        /\ r.kept = Cardinality(AtLeast(s.positive, floor, s)) + Cardinality(s.unindexed)
        /\ r.total = Cardinality(s.positive) + Cardinality(s.unindexed)
                       + Cardinality(s.unverified \ AtLeast(s.unverified, floor, s))
    BY <1>3, RecallOf
  <2>. HIDE DEF r
  <2>. QED BY <2>1
<1>5. /\ CertifiedOver(1, r) => 100 * r.kept >= Target * r.total
      /\ MeetsTarget(r) => r.total = 0 \/ 100 * r.kept >= Target * r.total
  <2>1. Target * r.total \in Nat /\ 100 * r.kept \in Nat
    BY <1>4, TargetAssumption
  <2>. HIDE DEF r
  <2>. QED BY <2>1 DEF CertifiedOver, MeetsTarget
<1>6. /\ Calibrate(certify, s).floor = floor
      /\ Calibrate(certify, s).meets =>
           \/ KnownOf(s) = 0 /\ s.unverified = {}
           \/ r.total = 0
           \/ IF certify THEN CertifiedOver(1, r) ELSE MeetsTarget(r)
  BY <1>2
<1>7. Calibrate(certify, s).meets =>
        \/ KnownOf(s) = 0 /\ s.unverified = {}
        \/ r.total = 0
        \/ 100 * r.kept >= Target * r.total
  <2>. HIDE DEF r
  <2>. QED BY <1>5, <1>6
<1>. QED BY <1>3, <1>6, <1>7 DEF floor

LEMMA FloorLowered ==
  ASSUME NEW s, NEW t, Without(s, t), NEW certify \in BOOLEAN
  PROVE  Calibrate(certify, s).floor <= Calibrate(certify, t).floor
<1>1. /\ IsSample(s) /\ IsSample(t)
      /\ t.positive = s.positive /\ t.unindexed = s.unindexed /\ t.unverified = {}
  BY DEF Without
<1>. DEFINE known == KnownOf(t)
<1>2. KnownOf(s) = known /\ known \in Nat /\ known = Cardinality(t.positive) + Cardinality(t.unindexed)
  BY <1>1, KnownNat DEF KnownOf
<1>. HIDE DEF known
<1>3. Calibrate(certify, s).floor = IF known = 0 /\ s.unverified = {} THEN DefaultFloor
                                    ELSE IF certify /\ known > 0 THEN CertifiedFloor(s)
                                    ELSE EstimatedFloor(s, known)
  BY <1>1, <1>2, CalibrateOf
<1>4. Calibrate(certify, t).floor = IF known = 0 THEN DefaultFloor
                                    ELSE IF certify THEN CertifiedFloor(t)
                                    ELSE EstimatedFloor(t, known)
  BY <1>1, <1>2, CalibrateOf DEF known
<1>5. CASE known = 0
  <2>1. DefaultFloor \in Int
    BY ScoresAssumption
  <2>2. EstimatedFloor(s, known) <= DefaultFloor
    BY <1>1, <1>2, <1>5, EstimateOf, PointOf
  <2>. QED BY <2>1, <2>2, <1>3, <1>4, <1>5
<1>6. CASE known # 0
  <2>1. CertifiedFloor(s) <= CertifiedFloor(t)
    BY <1>2, <1>6, CertificateLowered
  <2>2. EstimatedFloor(s, known) <= EstimatedFloor(t, known)
    BY <1>2, EstimateLowered
  <2>3. known > 0
    BY <1>2, <1>6
  <2>. QED BY <2>1, <2>2, <2>3, <1>3, <1>4, <1>6
<1>. QED BY <1>5, <1>6

(***************************************************************************)
(* What the share counted on a sample says of its documents.               *)
(***************************************************************************)
LEMMA ShareSurvives ==
  ASSUME NEW s, IsSample(s), NEW certify \in BOOLEAN, NEW matches, NEW failures, NEW pruned,
         matches = s.positive \union s.unindexed, s.positive \intersect s.unindexed = {},
         Calibrate(certify, s).meets,
         matches \intersect pruned
           = s.positive \ AtLeast(s.positive, Calibrate(certify, s).floor, s),
         failures \intersect pruned
           = s.unverified \ AtLeast(s.unverified, Calibrate(certify, s).floor, s)
  PROVE  100 * Cardinality(matches \ pruned)
           >= Target * (Cardinality(matches) + Cardinality(failures \intersect pruned))
<1>. DEFINE floor == Calibrate(certify, s).floor
            kept == AtLeast(s.positive, floor, s)
            missed == s.unverified \ AtLeast(s.unverified, floor, s)
            r == RecallAt(floor, s)
<1>1. floor \in Int
  BY CalibrateOf
<1>2. \/ KnownOf(s) = 0 /\ s.unverified = {}
      \/ r.total = 0
      \/ 100 * r.kept >= Target * r.total
  BY CalibrateOf
<1>3. IsFiniteSet(s.positive) /\ IsFiniteSet(s.unindexed) /\ kept \in SUBSET s.positive
  BY DEF IsSample, AtLeast
<1>. HIDE DEF floor
<1>4. /\ Cardinality(s.positive) \in Nat /\ Cardinality(s.unindexed) \in Nat
      /\ Cardinality(kept) \in Nat /\ Cardinality(missed) \in Nat
      /\ r.kept = Cardinality(kept) + Cardinality(s.unindexed)
      /\ r.total = Cardinality(s.positive) + Cardinality(s.unindexed) + Cardinality(missed)
  BY <1>1, RecallOf
<1>5. matches \ pruned = kept \union s.unindexed
  <2>. HIDE DEF kept
  <2>. QED BY <1>3 DEF kept, floor
<1>6. IsFiniteSet(kept)
  <2>. HIDE DEF kept
  <2>. QED BY <1>3, FS_Subset
<1>7. Cardinality(matches \ pruned) = Cardinality(kept) + Cardinality(s.unindexed)
  <2>. HIDE DEF kept
  <2>1. kept \intersect s.unindexed = {}
    BY <1>3
  <2>2. Cardinality(kept \union s.unindexed)
          = Cardinality(kept) + Cardinality(s.unindexed) - Cardinality(kept \intersect s.unindexed)
    BY <1>3, <1>6, FS_Union
  <2>3. Cardinality(kept \intersect s.unindexed) = 0
    BY <2>1, FS_EmptySet
  <2>4. Cardinality(kept) \in Nat /\ Cardinality(s.unindexed) \in Nat
    BY <1>3, <1>6, FS_CardinalityType
  <2>5. \A a, b, c, e \in Int : a = b + c - e /\ e = 0 => a = b + c
    OBVIOUS
  <2>6. Cardinality(kept \union s.unindexed) \in Int
    <3>1. IsFiniteSet(kept \union s.unindexed)
      BY <1>3, <1>6, FS_Union
    <3>2. Cardinality(kept \union s.unindexed) \in Nat
      BY <3>1, FS_CardinalityType
    <3>. QED BY <3>2
  <2>7. Cardinality(kept \union s.unindexed) = Cardinality(kept) + Cardinality(s.unindexed)
    BY <2>2, <2>3, <2>4, <2>5, <2>6
  <2>. QED BY <1>5, <2>7
<1>8. Cardinality(matches) = Cardinality(s.positive) + Cardinality(s.unindexed)
  <2>1. Cardinality(s.positive \union s.unindexed)
          = Cardinality(s.positive) + Cardinality(s.unindexed)
              - Cardinality(s.positive \intersect s.unindexed)
    BY <1>3, FS_Union
  <2>2. Cardinality(s.positive \intersect s.unindexed) = 0
    BY FS_EmptySet
  <2>. QED BY <1>4, <2>1, <2>2
<1>9. failures \intersect pruned = missed
  BY DEF floor
<1>10. 100 * r.kept >= Target * r.total
  <2>. HIDE DEF r
  <2>1. Target * r.total \in Nat /\ (r.total = 0 => Target * r.total = 0)
    <3>1. r.total \in Nat
      BY <1>4
    <3>. QED BY <3>1, TargetAssumption
  <2>2. r.kept \in Nat
    BY <1>4
  <2>3. r.total = 0 => 100 * r.kept >= Target * r.total
    BY <2>1, <2>2
  <2>4. KnownOf(s) = 0 /\ s.unverified = {} => r.total = 0
    <3>1. s.unverified = {} => Cardinality(missed) = 0
      BY FS_EmptySet
    <3>. QED BY <3>1, <1>4 DEF KnownOf
  <2>. QED BY <2>3, <2>4, <1>2
<1>. HIDE DEF kept, missed, r
<1>. QED BY <1>4, <1>7, <1>8, <1>9, <1>10

(***************************************************************************)
(* The documents a sequence of labels gives one label.                     *)
(***************************************************************************)
Label == [doc : input, label : Labels]

LabelledIn(labels, l) == {labels[i].doc : i \in {j \in DOMAIN labels : labels[j].label = l}}

LEMMA ScoreLabelsOf ==
  ASSUME NEW labels \in Seq(Label), input \in SUBSET Sampled, NEW indexed,
         NEW scores \in [indexed -> Similarities \union Probabilities]
  PROVE  LET s == ScoreLabels(labels, scores, indexed)
         IN  /\ IsSample(s)
             /\ s.positive = LabelledIn(labels, "yes") \intersect indexed
             /\ s.unindexed = LabelledIn(labels, "yes") \ indexed
             /\ s.unverified = LabelledIn(labels, "unknown") \intersect indexed
             /\ s.best = scores
             /\ \A l : LabelledIn(labels, l) \in SUBSET input
<1>. DEFINE yes == LabelledIn(labels, "yes")
            unknown == LabelledIn(labels, "unknown")
            s == [positive   |-> yes \intersect indexed,
                  unindexed  |-> yes \ (indexed \union indexed),
                  lost       |-> (yes \union unknown) \intersect (indexed \ indexed),
                  unverified |-> unknown \intersect indexed,
                  best       |-> scores]
<1>1. ScoreLabels(labels, scores, indexed) = s
  <2>1. DOMAIN scores = indexed
    OBVIOUS
  <2>. QED BY <2>1 DEF ScoreLabels, LabelledIn
<1>2. \A l : LabelledIn(labels, l) \in SUBSET input
  <2>1. ASSUME NEW i \in DOMAIN labels PROVE labels[i].doc \in input
    <3>1. labels[i] \in Label
      OBVIOUS
    <3>. QED BY <3>1 DEF Label
  <2>. QED BY <2>1 DEF LabelledIn
<1>3. yes \in SUBSET Sampled /\ unknown \in SUBSET Sampled
  <2>. HIDE DEF yes, unknown
  <2>1. yes \in SUBSET input /\ unknown \in SUBSET input
    BY <1>2 DEF yes, unknown
  <2>. QED BY <2>1
<1>. HIDE DEF yes, unknown
<1>4. /\ IsFiniteSet(yes \intersect indexed) /\ IsFiniteSet(yes \ indexed)
      /\ IsFiniteSet(unknown \intersect indexed)
  <2>1. /\ yes \intersect indexed \in SUBSET Sampled /\ yes \ indexed \in SUBSET Sampled
        /\ unknown \intersect indexed \in SUBSET Sampled
    BY <1>3
  <2>. QED BY <2>1, FS_Subset, SampledAssumption
<1>5. /\ s.positive = yes \intersect indexed /\ s.unindexed = yes \ indexed
      /\ s.unverified = unknown \intersect indexed /\ s.best = scores /\ s.lost = {}
  OBVIOUS
<1>. HIDE DEF s
<1>6. s.positive \union s.unverified \in SUBSET Sampled
  BY <1>3, <1>5
<1>7. ASSUME NEW d \in s.positive \union s.unverified PROVE s.best[d] \in Int /\ s.best[d] > NegInf
  <2>1. scores[d] \in Similarities \union Probabilities
    BY <1>5
  <2>. QED BY <2>1, <1>5, ScoresAssumption
<1>8. IsSample(s)
  BY <1>4, <1>5, <1>6, <1>7 DEF IsSample
<1>. QED BY <1>1, <1>2, <1>5, <1>8 DEF yes, unknown

LEMMA AnsweredOf ==
  ASSUME NEW labels \in Seq(Label)
  PROVE  LET answered == At(labels, {i \in DOMAIN labels : labels[i].label # "unknown"})
         IN  /\ answered \in Seq(Label)
             /\ LabelledIn(answered, "yes") = LabelledIn(labels, "yes")
             /\ LabelledIn(answered, "unknown") = {}
<1>. DEFINE P == {i \in DOMAIN labels : labels[i].label # "unknown"}
            answered == At(labels, P)
<1>0. P \in SUBSET DOMAIN labels
  OBVIOUS
<1>1. \A i \in P : labels[i].label # "unknown"
  OBVIOUS
<1>2. \A i \in DOMAIN labels : labels[i].label = "yes" => i \in P
  OBVIOUS
<1>. HIDE DEF P
<1>3. /\ answered \in Seq(Label)
      /\ \A n \in DOMAIN answered : Nth(P, n) \in P /\ answered[n] = labels[Nth(P, n)]
      /\ \A i \in P : \E n \in DOMAIN answered : Nth(P, n) = i
  BY <1>0, AtOf
<1>. HIDE DEF answered
<1>4. LabelledIn(answered, "unknown") = {}
  BY <1>1, <1>3 DEF LabelledIn
<1>5. ASSUME NEW n \in DOMAIN answered, answered[n].label = "yes"
      PROVE  \E i \in DOMAIN labels : labels[i].label = "yes" /\ labels[i].doc = answered[n].doc
  BY <1>0, <1>3, <1>5
<1>6. ASSUME NEW i \in DOMAIN labels, labels[i].label = "yes"
      PROVE  \E n \in DOMAIN answered : answered[n].label = "yes" /\ labels[i].doc = answered[n].doc
  <2>1. PICK n \in DOMAIN answered : Nth(P, n) = i
    BY <1>2, <1>3, <1>6
  <2>. QED BY <2>1, <1>3, <1>6
<1>7. LabelledIn(answered, "yes") = LabelledIn(labels, "yes")
  BY <1>5, <1>6 DEF LabelledIn
<1>. QED BY <1>3, <1>4, <1>7 DEF answered, P

(***************************************************************************)
(* The invariant: the floor a scan goes by is the one its own labels and   *)
(* scores give, and what it pruned is what scores below.                   *)
(***************************************************************************)
CalibrationTypeOK ==
  /\ input \in SUBSET Sampled
  /\ best \in [DOMAIN best -> Similarities]
  /\ verdicts \in [Sampled -> Labels \union {"none"}]
  /\ scan = [pc |-> scan.pc, certify |-> scan.certify, pool |-> scan.pool,
             labels |-> scan.labels, outcome |-> scan.outcome, pruned |-> scan.pruned]
  /\ scan.certify \in BOOLEAN
  /\ scan.pool \in SUBSET input
  /\ scan.labels \in Seq(Label)

Calibrated(outcome, certify) ==
  LET c == Calibrate(certify, ScoreLabels(outcome.labels, outcome.scores, DOMAIN best))
  IN  /\ outcome.labels \in Seq(Label)
      /\ outcome.scores \in [DOMAIN best -> Similarities \union Probabilities]
      /\ outcome.floor = c.floor
      /\ outcome.meets = c.meets

CalibrationInv ==
  /\ CalibrationTypeOK
  /\ scan.pc \in {"prune", "done"} => Calibrated(scan.outcome, scan.certify)
  /\ scan.pc = "done" =>
       scan.pruned = {d \in input \intersect DOMAIN best :
                        scan.outcome.scores[d] < scan.outcome.floor}

LEMMA CalibrationImplies == CalibrationInv => SampleSurvives /\ FailureOnlyLowersFloor
<1> SUFFICES ASSUME CalibrationInv, scan.pc \in {"prune", "done"}
             PROVE  SampleSurvives /\ FailureOnlyLowersFloor
  BY DEF SampleSurvives, FailureOnlyLowersFloor
<1>. DEFINE labels == scan.outcome.labels
            scores == scan.outcome.scores
            s == ScoreLabels(labels, scores, DOMAIN best)
            answered == At(labels, {i \in DOMAIN labels : labels[i].label # "unknown"})
            t == ScoreLabels(answered, scores, DOMAIN best)
            c == Calibrate(scan.certify, s)
<1>1. /\ input \in SUBSET Sampled /\ scan.certify \in BOOLEAN
      /\ labels \in Seq(Label)
      /\ scores \in [DOMAIN best -> Similarities \union Probabilities]
      /\ scan.outcome.floor = c.floor /\ scan.outcome.meets = c.meets
      /\ scan.pc = "done" =>
           scan.pruned = {d \in input \intersect DOMAIN best : scores[d] < c.floor}
  BY DEF CalibrationInv, CalibrationTypeOK, Calibrated
<1>2. /\ answered \in Seq(Label)
      /\ LabelledIn(answered, "yes") = LabelledIn(labels, "yes")
      /\ LabelledIn(answered, "unknown") = {}
  <2>. HIDE DEF labels
  <2>. QED BY <1>1, AnsweredOf
<1>. HIDE DEF labels, scores, answered
<1>3. /\ IsSample(s)
      /\ s.positive = LabelledIn(labels, "yes") \intersect DOMAIN best
      /\ s.unindexed = LabelledIn(labels, "yes") \ DOMAIN best
      /\ s.unverified = LabelledIn(labels, "unknown") \intersect DOMAIN best
      /\ s.best = scores
      /\ \A l : LabelledIn(labels, l) \in SUBSET input
  BY <1>1, ScoreLabelsOf
<1>4. /\ IsSample(t)
      /\ t.positive = LabelledIn(labels, "yes") \intersect DOMAIN best
      /\ t.unindexed = LabelledIn(labels, "yes") \ DOMAIN best
      /\ t.unverified = {}
      /\ t.best = scores
  <2>1. /\ IsSample(t)
        /\ t.positive = LabelledIn(answered, "yes") \intersect DOMAIN best
        /\ t.unindexed = LabelledIn(answered, "yes") \ DOMAIN best
        /\ t.unverified = LabelledIn(answered, "unknown") \intersect DOMAIN best
        /\ t.best = scores
    BY <1>1, <1>2, ScoreLabelsOf
  <2>. HIDE DEF t
  <2>. QED BY <2>1, <1>2
<1>5. FailureOnlyLowersFloor
  <2>1. Without(s, t)
    <3>. HIDE DEF s, t
    <3>. QED BY <1>3, <1>4 DEF Without
  <2>2. Calibrate(scan.certify, s).floor <= Calibrate(scan.certify, t).floor
    <3>. HIDE DEF s, t
    <3>. QED BY <2>1, <1>1, FloorLowered
  <2>. QED BY <2>2, <1>1 DEF FailureOnlyLowersFloor, labels, scores, answered
<1>6. ASSUME scan.pc = "done", scan.outcome.meets PROVE SampleSurvives
  <2>. DEFINE matches == LabelledIn(labels, "yes")
              failures == LabelledIn(labels, "unknown")
              pruned == scan.pruned
  <2>1. matches = Judged("yes") /\ failures = Judged("unknown")
    BY DEF Judged, LabelledIn, labels
  <2>. HIDE DEF s, matches, failures
  <2>2. c.floor \in Int
    BY <1>1, <1>3, CalibrateOf
  <2>3. \A d \in DOMAIN best : scores[d] \in Int
    <3>1. ASSUME NEW d \in DOMAIN best PROVE scores[d] \in Int
      <4>1. scores[d] \in Similarities \union Probabilities
        BY <1>1
      <4>. QED BY <4>1, ScoresAssumption
    <3>. QED BY <3>1
  <2>4. pruned = {d \in input \intersect DOMAIN best : scores[d] < c.floor}
    BY <1>1, <1>6
  <2>5. matches \in SUBSET input /\ failures \in SUBSET input
    BY <1>3 DEF matches, failures
  <2>6. /\ s.positive = matches \intersect DOMAIN best
        /\ s.unindexed = matches \ DOMAIN best
        /\ s.unverified = failures \intersect DOMAIN best
        /\ s.best = scores
    BY <1>3 DEF matches, failures
  <2>. HIDE DEF c, pruned
  <2>7. /\ matches \intersect pruned = s.positive \ AtLeast(s.positive, c.floor, s)
        /\ failures \intersect pruned = s.unverified \ AtLeast(s.unverified, c.floor, s)
    BY <2>2, <2>3, <2>4, <2>5, <2>6 DEF AtLeast
  <2>8. matches = s.positive \union s.unindexed /\ s.positive \intersect s.unindexed = {}
    BY <2>6
  <2>9. c.meets
    BY <1>1, <1>6
  <2>10. 100 * Cardinality(matches \ pruned)
           >= Target * (Cardinality(matches) + Cardinality(failures \intersect pruned))
    <3>1. IsSample(s) /\ scan.certify \in BOOLEAN
      BY <1>1, <1>3
    <3>2. /\ Calibrate(scan.certify, s).meets
          /\ matches \intersect pruned
               = s.positive \ AtLeast(s.positive, Calibrate(scan.certify, s).floor, s)
          /\ failures \intersect pruned
               = s.unverified \ AtLeast(s.unverified, Calibrate(scan.certify, s).floor, s)
      BY <2>7, <2>9 DEF c
    <3>. QED BY <2>8, <3>1, <3>2, ShareSurvives
  <2>. QED BY <2>1, <2>10 DEF SampleSurvives, pruned
<1>. QED BY <1>5, <1>6 DEF SampleSurvives

LEMMA CalibrationInitInv == CalibrationInit => CalibrationInv
<1> SUFFICES ASSUME CalibrationInit PROVE CalibrationInv
  OBVIOUS
<1>1. scan = [pc |-> "idle", certify |-> FALSE, pool |-> {}, labels |-> <<>>,
              outcome |-> NotCalibrated, pruned |-> {}]
  BY DEF CalibrationInit
<1>2. input \in SUBSET Sampled /\ best \in [DOMAIN best -> Similarities]
  BY DEF CalibrationInit
<1>3. verdicts \in [Sampled -> Labels \union {"none"}]
  <2>1. PICK known \in SUBSET Sampled :
          verdicts = [d \in Sampled |-> IF d \in known THEN "yes" ELSE "none"]
    BY DEF CalibrationInit
  <2>. QED BY <2>1 DEF Labels
<1>. QED BY <1>1, <1>2, <1>3 DEF CalibrationInv, CalibrationTypeOK

LEMMA CalibrationNextInv == CalibrationInv /\ [CalibrationNext]_calibrationVars => CalibrationInv'
<1> SUFFICES ASSUME CalibrationInv, [CalibrationNext]_calibrationVars PROVE CalibrationInv'
  OBVIOUS
<1>0. CalibrationTypeOK
  BY DEF CalibrationInv
<1>1. ASSUME NEW certify \in BOOLEAN, DrawSample(certify) PROVE CalibrationInv'
  <2>. DEFINE pool == FirstOf(input, IF certify /\ LabelBudget > SampleSize
                                     THEN LabelBudget ELSE SampleSize)
              place == IF input = {} THEN "calibrate" ELSE "label"
  <2>1. /\ scan' = [scan EXCEPT !.pc = place, !.certify = certify, !.pool = pool]
        /\ UNCHANGED <<input, best, verdicts>>
    BY <1>1 DEF DrawSample
  <2>2. pool \in SUBSET input /\ place \notin {"prune", "done"}
    BY DEF FirstOf
  <2>. HIDE DEF pool, place
  <2>3. Label' = Label
    BY <2>1 DEF Label
  <2>4. CalibrationTypeOK'
    BY <1>0, <2>1, <2>2, <2>3 DEF CalibrationTypeOK
  <2>. QED BY <1>0, <2>1, <2>2, <2>4 DEF CalibrationInv, CalibrationTypeOK
<1>2. CASE LabelTranche
  <2>. DEFINE drawn == {scan.labels[i].doc : i \in DOMAIN scan.labels}
              tranche == FirstOf(scan.pool \ drawn, SampleSize)
              known == {d \in tranche : verdicts[d] # "none"}
              unknown == {d \in tranche : verdicts[d] = "none"}
              hits == InOrder(known)
              misses == InOrder(unknown)
  <2>1. PICK answer \in [{misses[i] : i \in DOMAIN misses} -> Labels] :
          /\ verdicts' = [d \in Sampled |-> IF d \in DOMAIN answer /\ answer[d] # "unknown"
                                            THEN answer[d] ELSE verdicts[d]]
          /\ scan' = [scan EXCEPT !.pc = "calibrate",
                        !.labels = @ \o [i \in DOMAIN hits |->
                                           [doc |-> hits[i], label |-> verdicts[hits[i]]]]
                                     \o [i \in DOMAIN misses |->
                                           [doc |-> misses[i], label |-> answer[misses[i]]]]]
          /\ UNCHANGED <<input, best>>
    BY <1>2 DEF LabelTranche
  <2>. DEFINE old == [i \in DOMAIN hits |-> [doc |-> hits[i], label |-> verdicts[hits[i]]]]
              new == [i \in DOMAIN misses |-> [doc |-> misses[i], label |-> answer[misses[i]]]]
  <2>2. tranche \in SUBSET input
    BY <1>0 DEF CalibrationTypeOK, FirstOf
  <2>. HIDE DEF tranche
  <2>3. known \in SUBSET input /\ unknown \in SUBSET input
    BY <2>2
  <2>4. \A d \in known : verdicts[d] \in Labels
    BY <1>0, <2>2 DEF CalibrationTypeOK
  <2>. HIDE DEF known, unknown
  <2>5. /\ known \in SUBSET Int /\ IsFiniteSet(known)
        /\ unknown \in SUBSET Int /\ IsFiniteSet(unknown)
    <3>1. input \in SUBSET Sampled /\ Sampled \in SUBSET Nat /\ IsFiniteSet(Sampled)
      BY <1>0, SampledAssumption DEF CalibrationTypeOK
    <3>2. known \in SUBSET Sampled /\ unknown \in SUBSET Sampled
      BY <2>3, <3>1
    <3>3. known \in SUBSET Int /\ unknown \in SUBSET Int
      BY <3>1, <3>2
    <3>4. IsFiniteSet(known) /\ IsFiniteSet(unknown)
      BY <3>1, <3>2, FS_Subset
    <3>. QED BY <3>3, <3>4
  <2>6. /\ hits \in Seq(known)
        /\ misses \in Seq(unknown)
        /\ {misses[i] : i \in DOMAIN misses} = unknown
    BY <2>5, InOrderOf
  <2>. HIDE DEF hits, misses
  <2>7. old \in Seq(Label)
    <3>1. ASSUME NEW i \in DOMAIN hits
          PROVE  [doc |-> hits[i], label |-> verdicts[hits[i]]] \in Label
      <4>1. hits[i] \in known
        BY <2>6
      <4>. QED BY <4>1, <2>3, <2>4 DEF Label
    <3>2. DOMAIN hits = 1 .. Len(hits) /\ Len(hits) \in Nat
      BY <2>6
    <3>. QED BY <3>1, <3>2
  <2>8. new \in Seq(Label)
    <3>1. ASSUME NEW i \in DOMAIN misses
          PROVE  [doc |-> misses[i], label |-> answer[misses[i]]] \in Label
      <4>1. misses[i] \in unknown
        BY <2>6
      <4>2. answer[misses[i]] \in Labels
        BY <2>1
      <4>. QED BY <4>1, <4>2, <2>3 DEF Label
    <3>2. DOMAIN misses = 1 .. Len(misses) /\ Len(misses) \in Nat
      BY <2>6
    <3>. QED BY <3>1, <3>2
  <2>9. scan' = [scan EXCEPT !.pc = "calibrate", !.labels = @ \o old \o new]
    BY <2>1
  <2>. HIDE DEF old, new
  <2>10. scan.labels \o old \o new \in Seq(Label)
    <3>1. scan.labels \in Seq(Label)
      BY <1>0 DEF CalibrationTypeOK
    <3>. QED BY <3>1, <2>7, <2>8
  <2>11. verdicts' \in [Sampled -> Labels \union {"none"}]
    BY <1>0, <2>1 DEF CalibrationTypeOK
  <2>12. Label' = Label /\ input' = input /\ best' = best
    BY <2>1 DEF Label
  <2>13. CalibrationTypeOK'
    BY <1>0, <2>9, <2>10, <2>11, <2>12 DEF CalibrationTypeOK
  <2>. QED BY <1>0, <2>9, <2>13 DEF CalibrationInv, CalibrationTypeOK
<1>3. CASE CalibrateOverBestProxy
  <2>1. PICK proxy \in Proxies :
          LET c == Calibrate(scan.certify, ScoreLabels(proxy.labels, proxy.scores, DOMAIN best))
              settled == ~scan.certify \/ c.meets \/ Len(scan.labels) = Cardinality(scan.pool)
          IN  scan' = [scan EXCEPT
                         !.pc = IF settled THEN "prune" ELSE "label",
                         !.outcome = [floor |-> c.floor, meets |-> c.meets,
                                      scores |-> proxy.scores, labels |-> proxy.labels]]
    BY <1>3 DEF CalibrateOverBestProxy
  <2>2. UNCHANGED <<input, best, verdicts>>
    BY <1>3 DEF CalibrateOverBestProxy
  <2>3. /\ proxy.labels \in Seq(Label)
        /\ proxy.scores \in [DOMAIN best -> Similarities \union Probabilities]
    <3>1. scan.labels \in Seq(Label) /\ best \in [DOMAIN best -> Similarities]
      BY <1>0 DEF CalibrationTypeOK
    <3>2. HeldOut \in Seq(Label)
      <4>. DEFINE from == Len(scan.labels) \div 2 + 1
                  to == Len(scan.labels)
      <4>1. from \in Int /\ to \in Int /\ from >= 1 /\ to = Len(scan.labels)
        <5>1. Len(scan.labels) \in Nat
          BY <3>1
        <5>2. ASSUME NEW n \in Nat PROVE n \div 2 \in Int /\ n \div 2 >= 0
          OBVIOUS
        <5>3. Len(scan.labels) \div 2 \in Int /\ Len(scan.labels) \div 2 >= 0
          BY <5>1, <5>2
        <5>4. \A n \in Int : n >= 0 => n + 1 \in Int /\ n + 1 >= 1
          OBVIOUS
        <5>5. from \in Int /\ from >= 1
          BY <5>3, <5>4
        <5>. HIDE DEF from
        <5>. QED BY <5>1, <5>5
      <4>2. \A i \in from .. to : scan.labels[i] \in Label
        <5>. HIDE DEF from
        <5>. QED BY <3>1, <4>1
      <4>. HIDE DEF from, to
      <4>3. SubSeq(scan.labels, from, to) \in Seq(Label)
        BY <4>1, <4>2, SubSeqProperties
      <4>. QED BY <4>3 DEF HeldOut, from, to
    <3>3. CASE proxy = [scores |-> best, labels |-> scan.labels]
      BY <3>1, <3>3
    <3>4. CASE proxy \in {[scores |-> learned, labels |-> HeldOut] :
                            learned \in [DOMAIN best -> Probabilities]}
      BY <3>2, <3>4
    <3>. QED BY <2>1, <3>3, <3>4 DEF Proxies
  <2>. DEFINE c == Calibrate(scan.certify, ScoreLabels(proxy.labels, proxy.scores, DOMAIN best))
              place == IF ~scan.certify \/ c.meets \/ Len(scan.labels) = Cardinality(scan.pool)
                       THEN "prune" ELSE "label"
              outcome == [floor |-> c.floor, meets |-> c.meets,
                          scores |-> proxy.scores, labels |-> proxy.labels]
  <2>4. scan' = [scan EXCEPT !.pc = place, !.outcome = outcome]
    BY <2>1
  <2>5. Calibrated(outcome, scan.certify)
    <3>. HIDE DEF c
    <3>. QED BY <2>3 DEF Calibrated, c
  <2>6. place # "done"
    OBVIOUS
  <2>. HIDE DEF c, place, outcome
  <2>7. Label' = Label /\ DOMAIN best' = DOMAIN best /\ scan'.certify = scan.certify
    BY <1>0, <2>2, <2>4 DEF Label, CalibrationTypeOK
  <2>8. CalibrationTypeOK'
    BY <1>0, <2>2, <2>4, <2>7 DEF CalibrationTypeOK
  <2>9. scan'.outcome = outcome /\ scan'.pc = place
    BY <1>0, <2>4 DEF CalibrationTypeOK
  <2>10. Calibrated(scan.outcome, scan.certify)'
    BY <2>5, <2>7, <2>9 DEF Calibrated
  <2>. QED BY <2>6, <2>8, <2>9, <2>10 DEF CalibrationInv
<1>4. CASE Prune
  <2>. DEFINE pruned == {d \in input \intersect DOMAIN best :
                           scan.outcome.scores[d] < scan.outcome.floor}
  <2>1. /\ scan.pc = "prune"
        /\ scan' = [scan EXCEPT !.pc = "done", !.pruned = pruned]
        /\ UNCHANGED <<input, best, verdicts>>
    BY <1>4 DEF Prune
  <2>2. Calibrated(scan.outcome, scan.certify)
    BY <2>1 DEF CalibrationInv
  <2>. HIDE DEF pruned
  <2>3. /\ scan'.outcome = scan.outcome /\ scan'.certify = scan.certify
        /\ scan'.pruned = pruned /\ input' = input /\ best' = best
    BY <1>0, <2>1 DEF CalibrationTypeOK
  <2>4. Label' = Label
    BY <2>1 DEF Label
  <2>5. CalibrationTypeOK'
    BY <1>0, <2>1, <2>4 DEF CalibrationTypeOK
  <2>6. Calibrated(scan.outcome, scan.certify)'
    BY <2>2, <2>3, <2>4 DEF Calibrated
  <2>. QED BY <2>3, <2>5, <2>6 DEF CalibrationInv, pruned
<1>5. CASE ScanFails
  <2>1. /\ scan' = [scan EXCEPT !.pc = "failed"]
        /\ UNCHANGED <<input, best, verdicts>>
    BY <1>5 DEF ScanFails
  <2>2. Label' = Label
    BY <2>1 DEF Label
  <2>. QED BY <1>0, <2>1, <2>2 DEF CalibrationInv, CalibrationTypeOK
<1>6. CASE UNCHANGED calibrationVars
  <2>1. Label' = Label
    BY <1>6 DEF Label, calibrationVars
  <2>. QED BY <1>6, <2>1 DEF calibrationVars, CalibrationInv, CalibrationTypeOK, Calibrated
<1>. QED BY <1>1, <1>2, <1>3, <1>4, <1>5, <1>6 DEF CalibrationNext
=============================================================================
