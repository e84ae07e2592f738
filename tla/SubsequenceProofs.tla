------------------------- MODULE SubsequenceProofs --------------------------
(***************************************************************************)
(* Facts the proofs about the operators and the planner share: least and   *)
(* greatest elements, the enumeration of a finite set of integers, the     *)
(* part of a sequence at some positions, and a flattened sequence.         *)
(***************************************************************************)
EXTENDS Subsequences, SequencesExt, FiniteSetTheorems, NaturalsInduction,
        WellFoundedInduction, TLAPS

(***************************************************************************)
(* Induction, with sets where the library has operators.                   *)
(***************************************************************************)
LEMMA LeastNat ==
  ASSUME NEW T \in SUBSET Nat, T # {}
  PROVE  \E x \in T : \A y \in T : x <= y
<1>1. PICK x \in T : \A y \in T : ~ (<<y, x>> \in OpToRel(<, Nat))
  BY NatLessThanWellFounded, WFMin, Zenon
<1>2. ASSUME NEW y \in T PROVE ~ (y < x)
  <2>1. y \in Nat /\ x \in Nat
    OBVIOUS
  <2>2. y < x => <<y, x>> \in OpToRel(<, Nat)
    BY <2>1, Zenon DEF OpToRel
  <2>. QED BY <2>2, <1>1
<1>3. ASSUME NEW y \in T PROVE x <= y
  <2>1. y \in Int /\ x \in Int /\ ~ (y < x)
    BY <1>2
  <2>. QED BY <2>1
<1>. QED BY <1>3

LEMMA AllNat ==
  ASSUME NEW T \in SUBSET Nat, 0 \in T, \A n \in T : n + 1 \in T
  PROVE  T = Nat
<1>. DEFINE R == Nat \ T
<1>. SUFFICES ASSUME R # {} PROVE FALSE
  OBVIOUS
<1>1. PICK x \in R : \A y \in R : x <= y
  BY LeastNat
<1>2. x # 0 /\ x - 1 \in Nat /\ x - 1 \in T
  BY <1>1
<1>. QED BY <1>1, <1>2

(***************************************************************************)
(* The same up to a bound.                                                 *)
(***************************************************************************)
LEMMA UpTo ==
  ASSUME NEW N \in Nat, NEW T \in SUBSET Nat, 0 \in T,
         \A n \in T : n < N => n + 1 \in T
  PROVE  0 .. N \subseteq T
<1>. DEFINE U == T \union {n \in Nat : n > N}
<1>1. U \in SUBSET Nat /\ 0 \in U
  OBVIOUS
<1>2. ASSUME NEW n \in U PROVE n + 1 \in U
  OBVIOUS
<1>3. U = Nat
  <2>. HIDE DEF U
  <2>. QED BY <1>1, <1>2, AllNat
<1>. QED BY <1>3

LEMMA MaxOf ==
  ASSUME NEW S \in SUBSET Int, IsFiniteSet(S), S # {}
  PROVE  /\ Max(S) \in S
         /\ \A x \in S : x <= Max(S)
<1>. DEFINE Above(e) == {x \in S : x > e}
            T == {Cardinality(Above(e)) : e \in S}
<1>1. ASSUME NEW e \in S
      PROVE  IsFiniteSet(Above(e)) /\ Cardinality(Above(e)) \in Nat
  BY FS_Subset, FS_CardinalityType
<1>2. T \in SUBSET Nat /\ T # {}
  BY <1>1
<1>3. PICK m \in S : \A e \in S : Cardinality(Above(m)) <= Cardinality(Above(e))
  <2>1. PICK t \in T : \A u \in T : t <= u
    <3>. HIDE DEF T
    <3>. QED BY <1>2, LeastNat
  <2>. QED BY <2>1
<1>4. ASSUME NEW x \in S, x > m PROVE FALSE
  <2>1. Above(x) \in SUBSET Above(m) /\ x \in Above(m) /\ x \notin Above(x)
    <3>1. m \in Int /\ x \in Int /\ x > m
      BY <1>4
    <3>2. ASSUME NEW z \in S, z > x PROVE z > m
      <4>1. z \in Int
        OBVIOUS
      <4>. QED BY <4>1, <3>1, <3>2
    <3>3. Above(x) \subseteq Above(m)
      BY <3>2
    <3>4. x \in Above(m) /\ x \notin Above(x)
      BY <3>1
    <3>. HIDE DEF Above
    <3>. QED BY <3>3, <3>4
  <2>2. Cardinality(Above(x)) <= Cardinality(Above(m)) /\ Cardinality(Above(x)) # Cardinality(Above(m))
    BY <2>1, <1>1, FS_Subset
  <2>. QED BY <2>2, <1>3, <1>1
<1>5. m \in S /\ \A x \in S : m >= x
  BY <1>4
<1>6. Max(S) \in S /\ \A x \in S : Max(S) >= x
  BY <1>5 DEF Max
<1>. QED BY <1>6

LEMMA MinOf ==
  ASSUME NEW S \in SUBSET Nat, S # {}
  PROVE  /\ Min(S) \in S
         /\ \A x \in S : Min(S) <= x
<1>1. \E m \in S : \A x \in S : m <= x
  BY LeastNat
<1>. QED BY <1>1 DEF Min

(***************************************************************************)
(* The enumeration of a finite set of integers: each n names one element,  *)
(* each element is named, and in ascending order.                          *)
(***************************************************************************)
UpThrough(S, e) == {x \in S : x <= e}

LEMMA Ranks ==
  ASSUME NEW S \in SUBSET Int, IsFiniteSet(S)
  PROVE  /\ \A e \in S : Cardinality(UpThrough(S, e)) \in 1 .. Cardinality(S)
         /\ \A e, f \in S : e < f => Cardinality(UpThrough(S, e)) < Cardinality(UpThrough(S, f))
         /\ Cardinality(S) \in Nat
<1>1. ASSUME NEW e \in S
      PROVE  /\ IsFiniteSet(UpThrough(S, e))
             /\ Cardinality(UpThrough(S, e)) \in Nat
             /\ Cardinality(UpThrough(S, e)) <= Cardinality(S)
             /\ e \in UpThrough(S, e)
  BY FS_Subset, FS_CardinalityType DEF UpThrough
<1>2. Cardinality(S) \in Nat
  BY FS_CardinalityType
<1>3. ASSUME NEW e \in S PROVE Cardinality(UpThrough(S, e)) # 0
  BY <1>1, FS_EmptySet
<1>4. ASSUME NEW e \in S, NEW f \in S, e < f
      PROVE  Cardinality(UpThrough(S, e)) < Cardinality(UpThrough(S, f))
  <2>1. UpThrough(S, e) \in SUBSET UpThrough(S, f) /\ f \in UpThrough(S, f) /\ f \notin UpThrough(S, e)
    <3>1. e \in Int /\ f \in Int /\ e < f /\ S \subseteq Int
      BY <1>4
    <3>2. ASSUME NEW z \in S, z <= e PROVE z <= f
      <4>1. z \in Int
        OBVIOUS
      <4>. QED BY <4>1, <3>1, <3>2
    <3>3. UpThrough(S, e) \subseteq UpThrough(S, f)
      BY <3>2 DEF UpThrough
    <3>4. f \in UpThrough(S, f) /\ f \notin UpThrough(S, e)
      BY <3>1 DEF UpThrough
    <3>. QED BY <3>3, <3>4
  <2>2. /\ Cardinality(UpThrough(S, e)) <= Cardinality(UpThrough(S, f))
        /\ Cardinality(UpThrough(S, e)) # Cardinality(UpThrough(S, f))
    BY <2>1, <1>1, FS_Subset
  <2>. QED BY <2>2, <1>1
<1>. QED BY <1>1, <1>2, <1>3, <1>4

LEMMA NthOf ==
  ASSUME NEW S \in SUBSET Int, IsFiniteSet(S), NEW n \in 1 .. Cardinality(S)
  PROVE  /\ Nth(S, n) \in S
         /\ Cardinality(UpThrough(S, Nth(S, n))) = n
<1>. DEFINE rank == [e \in S |-> Cardinality(UpThrough(S, e))]
<1>1. rank \in [S -> 1 .. Cardinality(S)]
  BY Ranks
<1>2. \A e, f \in S : rank[e] = rank[f] => e = f
  BY Ranks
<1>3. rank \in Injection(S, 1 .. Cardinality(S))
  BY <1>1, <1>2 DEF Injection, IsInjective
<1>4. IsFiniteSet(1 .. Cardinality(S)) /\ Cardinality(1 .. Cardinality(S)) = Cardinality(S)
  BY Ranks, FS_Interval
<1>5. rank \in Surjection(S, 1 .. Cardinality(S))
  BY <1>3, <1>4, FS_Injection
<1>6. PICK e \in S : rank[e] = n
  BY <1>5 DEF Surjection
<1>7. Cardinality({x \in S : x <= e}) = n
  BY <1>6 DEF UpThrough
<1>. QED BY <1>7 DEF Nth, UpThrough

LEMMA NthOrder ==
  ASSUME NEW S \in SUBSET Int, IsFiniteSet(S)
  PROVE  /\ \A m, n \in 1 .. Cardinality(S) : m < n <=> Nth(S, m) < Nth(S, n)
         /\ \A m, n \in 1 .. Cardinality(S) : Nth(S, m) = Nth(S, n) => m = n
         /\ \A e \in S : /\ Cardinality(UpThrough(S, e)) \in 1 .. Cardinality(S)
                         /\ Nth(S, Cardinality(UpThrough(S, e))) = e
         /\ {Nth(S, n) : n \in 1 .. Cardinality(S)} = S
<1>1. ASSUME NEW m \in 1 .. Cardinality(S), NEW n \in 1 .. Cardinality(S)
      PROVE  (m < n <=> Nth(S, m) < Nth(S, n)) /\ (Nth(S, m) = Nth(S, n) => m = n)
  <2>1. /\ Nth(S, m) \in S /\ Cardinality(UpThrough(S, Nth(S, m))) = m
        /\ Nth(S, n) \in S /\ Cardinality(UpThrough(S, Nth(S, n))) = n
    BY NthOf
  <2>2. Nth(S, m) < Nth(S, n) => m < n
    BY <2>1, Ranks
  <2>3. Nth(S, n) < Nth(S, m) => n < m
    BY <2>1, Ranks
  <2>4. Nth(S, m) = Nth(S, n) => m = n
    BY <2>1
  <2>5. Nth(S, m) \in Int /\ Nth(S, n) \in Int /\ m \in Int /\ n \in Int
    <3>1. \A z \in S : z \in Int
      OBVIOUS
    <3>2. Nth(S, m) \in Int /\ Nth(S, n) \in Int
      BY <2>1, <3>1
    <3>. QED BY <3>2, Ranks
  <2>. HIDE DEF Nth
  <2>. QED BY <2>2, <2>3, <2>4, <2>5
<1>2. ASSUME NEW e \in S
      PROVE  /\ Cardinality(UpThrough(S, e)) \in 1 .. Cardinality(S)
             /\ Nth(S, Cardinality(UpThrough(S, e))) = e
  <2>. DEFINE n == Cardinality(UpThrough(S, e))
              f == Nth(S, n)
  <2>1. n \in 1 .. Cardinality(S)
    BY Ranks
  <2>2. f \in S /\ Cardinality(UpThrough(S, f)) = n
    BY <2>1, NthOf
  <2>3. ~ (e < f) /\ ~ (f < e)
    <3>1. n \in Int
      BY <2>1
    <3>. HIDE DEF f
    <3>. QED BY <3>1, <2>2, Ranks
  <2>4. e \in Int /\ f \in Int
    <3>1. \A z \in S : z \in Int
      OBVIOUS
    <3>. HIDE DEF f
    <3>. QED BY <3>1, <2>2
  <2>5. f = e
    <3>. HIDE DEF f
    <3>. QED BY <2>3, <2>4
  <2>. QED BY <2>1, <2>5
<1>3. {Nth(S, n) : n \in 1 .. Cardinality(S)} = S
  <2>1. \A n \in 1 .. Cardinality(S) : Nth(S, n) \in S
    BY NthOf
  <2>2. \A e \in S : \E n \in 1 .. Cardinality(S) : Nth(S, n) = e
    BY <1>2
  <2>. QED BY <2>1, <2>2
<1>. QED BY <1>1, <1>2, <1>3

LEMMA NthImage ==
  ASSUME NEW S \in SUBSET Int, IsFiniteSet(S), NEW Q \in SUBSET (1 .. Cardinality(S))
  PROVE  /\ IsFiniteSet(Q)
         /\ Cardinality({Nth(S, n) : n \in Q}) = Cardinality(Q)
<1>. DEFINE R == {Nth(S, n) : n \in Q}
            f == [n \in Q |-> Nth(S, n)]
<1>1. IsFiniteSet(Q)
  <2>1. IsFiniteSet(1 .. Cardinality(S))
    BY Ranks, FS_Interval
  <2>. QED BY <2>1, FS_Subset
<1>2. \A m, n \in Q : f[m] = f[n] => m = n
  BY NthOrder
<1>3. f \in Surjection(Q, R) /\ f \in Injection(Q, R)
  BY <1>2 DEF Surjection, Injection, IsInjective
<1>. HIDE DEF f, R
<1>4. Cardinality(R) = Cardinality(Q)
  BY <1>1, <1>3, FS_Surjection
<1>. QED BY <1>1, <1>4 DEF R

(***************************************************************************)
(* An enumeration of an enumerated set's positions enumerates what is      *)
(* there.                                                                  *)
(***************************************************************************)
LEMMA NthNth ==
  ASSUME NEW S \in SUBSET Int, IsFiniteSet(S), NEW Q \in SUBSET (1 .. Cardinality(S)),
         NEW m \in 1 .. Cardinality(Q)
  PROVE  Nth({Nth(S, n) : n \in Q}, m) = Nth(S, Nth(Q, m))
<1>. DEFINE R == {Nth(S, n) : n \in Q}
            q == Nth(Q, m)
            e == Nth(S, q)
<1>1. IsFiniteSet(Q) /\ Q \in SUBSET Int
  <2>1. Cardinality(S) \in Nat
    BY Ranks
  <2>2. IsFiniteSet(Q)
    BY NthImage
  <2>. QED BY <2>1, <2>2
<1>2. q \in Q /\ Cardinality(UpThrough(Q, q)) = m
  BY <1>1, NthOf
<1>3. R \in SUBSET S
  BY NthOf
<1>4. R \in SUBSET Int /\ IsFiniteSet(R)
  <2>. HIDE DEF R
  <2>. QED BY <1>3, FS_Subset
<1>5. UpThrough(R, e) = {Nth(S, n) : n \in UpThrough(Q, q)}
  <2>. HIDE DEF q
  <2>1. \A n \in Q : Nth(S, n) <= e <=> n <= q
    <3>1. ASSUME NEW n \in Q PROVE Nth(S, n) <= e <=> n <= q
      <4>1. n \in 1 .. Cardinality(S) /\ q \in 1 .. Cardinality(S)
        BY <1>2
      <4>2. (q < n <=> Nth(S, q) < Nth(S, n))
        BY <4>1, NthOrder
      <4>3. n \in Int /\ q \in Int
        BY <4>1, Ranks
      <4>4. Nth(S, n) \in S /\ Nth(S, q) \in S
        BY <4>1, NthOf
      <4>5. Nth(S, n) \in Int /\ Nth(S, q) \in Int
        BY <4>4
      <4>. HIDE DEF Nth
      <4>. QED BY <4>2, <4>3, <4>5
    <3>. QED BY <3>1
  <2>. HIDE DEF e
  <2>. QED BY <2>1 DEF UpThrough
<1>6. UpThrough(Q, q) \in SUBSET (1 .. Cardinality(S))
  BY DEF UpThrough
<1>7. Cardinality(UpThrough(R, e)) = m
  <2>. HIDE DEF R, e, q
  <2>1. Cardinality({Nth(S, n) : n \in UpThrough(Q, q)}) = Cardinality(UpThrough(Q, q))
    BY <1>6, NthImage
  <2>. QED BY <2>1, <1>5, <1>2
<1>8. e \in R
  BY <1>2
<1>. HIDE DEF R, e, q
<1>9. Nth(R, Cardinality(UpThrough(R, e))) = e
  BY <1>4, <1>8, NthOrder
<1>. QED BY <1>7, <1>9 DEF R, e, q

(***************************************************************************)
(* The part of a sequence at some positions.                               *)
(***************************************************************************)
LEMMA AtOf ==
  ASSUME NEW T, NEW s \in Seq(T), NEW P \in SUBSET DOMAIN s
  PROVE  /\ IsFiniteSet(P) /\ P \in SUBSET Int /\ Cardinality(P) \in Nat
         /\ At(s, P) \in Seq(T)
         /\ DOMAIN At(s, P) = 1 .. Cardinality(P)
         /\ Len(At(s, P)) = Cardinality(P)
         /\ \A n \in DOMAIN At(s, P) : Nth(P, n) \in P /\ At(s, P)[n] = s[Nth(P, n)]
         /\ \A i \in P : \E n \in DOMAIN At(s, P) : Nth(P, n) = i
<1>1. P \in SUBSET Int /\ DOMAIN s = 1 .. Len(s) /\ Len(s) \in Nat
  OBVIOUS
<1>2. IsFiniteSet(P)
  <2>1. IsFiniteSet(1 .. Len(s)) /\ P \in SUBSET (1 .. Len(s))
    BY <1>1, FS_Interval
  <2>. QED BY <2>1, FS_Subset
<1>3. Cardinality(P) \in Nat
  BY <1>2, FS_CardinalityType
<1>4. DOMAIN At(s, P) = 1 .. Cardinality(P)
  BY DEF At
<1>5. \A n \in 1 .. Cardinality(P) : Nth(P, n) \in P /\ At(s, P)[n] = s[Nth(P, n)]
  BY <1>1, <1>2, NthOf DEF At
<1>6. \A i \in P : \E n \in 1 .. Cardinality(P) : Nth(P, n) = i
  BY <1>1, <1>2, NthOrder
<1>7. \A i \in P : s[i] \in T
  BY <1>1
<1>8. At(s, P) = [n \in 1 .. Cardinality(P) |-> At(s, P)[n]]
  BY DEF At
<1>9. \A n \in 1 .. Cardinality(P) : At(s, P)[n] \in T
  BY <1>5, <1>7
<1>10. At(s, P) \in Seq(T)
  BY <1>3, <1>8, <1>9
<1>11. Len(At(s, P)) = Cardinality(P)
  BY <1>3, <1>4, <1>10
<1>. QED BY <1>1, <1>2, <1>3, <1>4, <1>5, <1>6, <1>10, <1>11

LEMMA AtSet ==
  ASSUME NEW T, NEW s \in Seq(T), NEW P \in SUBSET DOMAIN s
  PROVE  ToSet(At(s, P)) = {s[i] : i \in P}
<1>. /\ \A i \in P : \E n \in DOMAIN At(s, P) : Nth(P, n) = i
     /\ \A n \in DOMAIN At(s, P) : Nth(P, n) \in P /\ At(s, P)[n] = s[Nth(P, n)]
  BY AtOf
<1>1. ASSUME NEW i \in P PROVE \E n \in DOMAIN At(s, P) : At(s, P)[n] = s[i]
  <2>1. PICK n \in DOMAIN At(s, P) : Nth(P, n) = i
    OBVIOUS
  <2>. QED BY <2>1
<1>2. \A n \in DOMAIN At(s, P) : \E i \in P : At(s, P)[n] = s[i]
  OBVIOUS
<1>. QED BY <1>1, <1>2 DEF ToSet

LEMMA AtAt ==
  ASSUME NEW T, NEW s \in Seq(T), NEW P \in SUBSET DOMAIN s, NEW Q \in SUBSET DOMAIN At(s, P)
  PROVE  At(At(s, P), Q) = At(s, {Nth(P, n) : n \in Q})
<1>. DEFINE R == {Nth(P, n) : n \in Q}
<1>1. /\ P \in SUBSET Int /\ IsFiniteSet(P) /\ Q \in SUBSET (1 .. Cardinality(P))
      /\ Cardinality(P) \in Nat
  BY AtOf
<1>2. Cardinality(R) = Cardinality(Q)
  BY <1>1, NthImage
<1>3. IsFiniteSet(Q) /\ Q \in SUBSET Int
  <2>1. IsFiniteSet(Q)
    BY <1>1, NthImage
  <2>. QED BY <2>1, <1>1
<1>4. ASSUME NEW m \in 1 .. Cardinality(Q)
      PROVE  At(s, P)[Nth(Q, m)] = s[Nth(R, m)]
  <2>1. Nth(Q, m) \in Q
    BY <1>3, NthOf
  <2>2. At(s, P)[Nth(Q, m)] = s[Nth(P, Nth(Q, m))]
    BY <2>1, AtOf
  <2>. QED BY <2>2, <1>1, NthNth
<1>. HIDE DEF R
<1>5. [m \in 1 .. Cardinality(Q) |-> At(s, P)[Nth(Q, m)]] = [m \in 1 .. Cardinality(R) |-> s[Nth(R, m)]]
  BY <1>2, <1>4
<1>. QED BY <1>5, Zenon DEF At, R

(***************************************************************************)
(* The elements of a sequence that are in a set.                           *)
(***************************************************************************)
LEMMA OnlyOf ==
  ASSUME NEW T, NEW s \in Seq(T), NEW A
  PROVE  /\ Only(s, A) \in Seq(T)
         /\ ToSet(Only(s, A)) = ToSet(s) \intersect A
<1>. DEFINE P == {i \in DOMAIN s : s[i] \in A}
<1>1. Only(s, A) = At(s, P)
  BY DEF Only
<1>2. ToSet(s) \intersect A = {s[i] : i \in P}
  BY DEF ToSet
<1>3. P \in SUBSET DOMAIN s
  OBVIOUS
<1>. HIDE DEF P
<1>4. At(s, P) \in Seq(T)
  BY <1>3, AtOf
<1>5. ToSet(At(s, P)) = {s[i] : i \in P}
  BY <1>3, AtSet
<1>. QED BY <1>1, <1>2, <1>4, <1>5

LEMMA OnlyOnly ==
  ASSUME NEW T, NEW s \in Seq(T), NEW A, NEW B
  PROVE  Only(Only(s, A), B) = Only(s, A \intersect B)
<1>. DEFINE P == {i \in DOMAIN s : s[i] \in A}
            Q == {n \in DOMAIN At(s, P) : At(s, P)[n] \in B}
            R == {i \in DOMAIN s : s[i] \in A \intersect B}
<1>1. P \in SUBSET DOMAIN s /\ Q \in SUBSET DOMAIN At(s, P)
  OBVIOUS
<1>2. At(At(s, P), Q) = At(s, {Nth(P, n) : n \in Q})
  <2>. HIDE DEF P, Q
  <2>. QED BY <1>1, AtAt
<1>3. {Nth(P, n) : n \in Q} = R
  <2>. HIDE DEF P
  <2>1. ASSUME NEW n \in Q PROVE Nth(P, n) \in R
    <3>1. Nth(P, n) \in P /\ At(s, P)[n] = s[Nth(P, n)]
      BY <1>1, AtOf
    <3>. QED BY <3>1 DEF P
  <2>2. ASSUME NEW i \in R PROVE \E n \in Q : Nth(P, n) = i
    <3>1. i \in P
      BY DEF P
    <3>2. PICK n \in DOMAIN At(s, P) : Nth(P, n) = i
      BY <3>1, <1>1, AtOf
    <3>3. At(s, P)[n] = s[Nth(P, n)]
      BY <1>1, AtOf
    <3>. QED BY <3>2, <3>3
  <2>. QED BY <2>1, <2>2
<1>. QED BY <1>2, <1>3 DEF Only

(***************************************************************************)
(* Firsts holds every element once, where it first occurs.                 *)
(***************************************************************************)
LEMMA FirstPlace ==
  ASSUME NEW T, NEW s \in Seq(T), NEW i \in DOMAIN s
  PROVE  \E k \in DOMAIN s : k <= i /\ s[k] = s[i] /\ \A j \in 1 .. k - 1 : s[j] # s[k]
<1>. DEFINE P == {j \in DOMAIN s : s[j] = s[i]}
<1>1. P \in SUBSET Nat /\ P # {}
  OBVIOUS
<1>2. PICK k \in P : \A j \in P : k <= j
  <2>. HIDE DEF P
  <2>. QED BY <1>1, LeastNat
<1>3. \A j \in 1 .. k - 1 : j \in DOMAIN s
  OBVIOUS
<1>4. \A j \in 1 .. k - 1 : s[j] # s[k]
  BY <1>2, <1>3
<1>. QED BY <1>2, <1>4

LEMMA FirstsOf ==
  ASSUME NEW T, NEW s \in Seq(T)
  PROVE  /\ Firsts(s) \in Seq(T)
         /\ ToSet(Firsts(s)) = ToSet(s)
         /\ \A m, n \in DOMAIN Firsts(s) : Firsts(s)[m] = Firsts(s)[n] => m = n
<1>. DEFINE P == {i \in DOMAIN s : \A j \in 1 .. i - 1 : s[j] # s[i]}
<1>1. P \in SUBSET DOMAIN s /\ Firsts(s) = At(s, P)
  BY DEF Firsts
<1>2. {s[i] : i \in P} = ToSet(s)
  <2>1. \A i \in DOMAIN s : \E k \in P : s[k] = s[i]
    BY FirstPlace
  <2>. QED BY <2>1 DEF ToSet
<1>3. \A i, j \in P : s[i] = s[j] => i = j
  <2>1. ASSUME NEW i \in P, NEW j \in P, s[i] = s[j], i < j PROVE FALSE
    <3>1. i \in 1 .. j - 1
      BY <2>1
    <3>. QED BY <2>1, <3>1
  <2>2. P \in SUBSET Int
    OBVIOUS
  <2>. QED BY <2>1, <2>2
<1>. HIDE DEF P
<1>4. ASSUME NEW m \in DOMAIN At(s, P), NEW n \in DOMAIN At(s, P), At(s, P)[m] = At(s, P)[n]
      PROVE  m = n
  <2>1. /\ Nth(P, m) \in P /\ At(s, P)[m] = s[Nth(P, m)]
        /\ Nth(P, n) \in P /\ At(s, P)[n] = s[Nth(P, n)]
        /\ P \in SUBSET Int /\ IsFiniteSet(P) /\ m \in 1 .. Cardinality(P) /\ n \in 1 .. Cardinality(P)
    BY <1>1, AtOf
  <2>2. Nth(P, m) = Nth(P, n)
    BY <2>1, <1>3, <1>4
  <2>. QED BY <2>1, <2>2, NthOrder
<1>5. At(s, P) \in Seq(T)
  BY <1>1, AtOf
<1>6. ToSet(At(s, P)) = {s[i] : i \in P}
  BY <1>1, AtSet
<1>. QED BY <1>1, <1>2, <1>4, <1>5, <1>6

(***************************************************************************)
(* A flattened sequence of sequences: their elements and no others; and    *)
(* without repetition only if no two of them share an element.             *)
(***************************************************************************)
Concats(seqs, n, f) ==
  f = [i \in 1 .. n |-> IF i = 1 THEN seqs[i] ELSE f[i - 1] \o seqs[i]]

LEMMA ConcatsExist ==
  ASSUME NEW T, NEW seqs \in Seq(Seq(T)), NEW n \in 1 .. Len(seqs)
  PROVE  \E f : Concats(seqs, n, f)
<1>. DEFINE N == {k \in Nat : \E f : Concats(seqs, k, f)}
<1>1. 0 \in N
  <2>. DEFINE f == [i \in 1 .. 0 |-> {}]
  <2>1. f = [i \in 1 .. 0 |-> IF i = 1 THEN seqs[i] ELSE f[i - 1] \o seqs[i]]
    OBVIOUS
  <2>. HIDE DEF f
  <2>2. Concats(seqs, 0, f)
    BY <2>1 DEF Concats
  <2>. QED BY <2>2
<1>2. ASSUME NEW k \in N PROVE k + 1 \in N
  <2>1. PICK f : Concats(seqs, k, f)
    OBVIOUS
  <2>. DEFINE g == [i \in 1 .. k + 1 |-> IF i = k + 1
                                         THEN IF i = 1 THEN seqs[i] ELSE f[k] \o seqs[i]
                                         ELSE f[i]]
  <2>2. \A i \in 1 .. k : f[i] = IF i = 1 THEN seqs[i] ELSE f[i - 1] \o seqs[i]
    BY <2>1 DEF Concats
  <2>3. \A i \in 1 .. k + 1 : g[i] = IF i = 1 THEN seqs[i] ELSE g[i - 1] \o seqs[i]
    <3>1. ASSUME NEW i \in 1 .. k + 1 PROVE g[i] = IF i = 1 THEN seqs[i] ELSE g[i - 1] \o seqs[i]
      <4>1. CASE i = k + 1
        <5>1. i # 1 => g[i - 1] = f[k]
          BY <4>1
        <5>. QED BY <4>1, <5>1
      <4>2. CASE i # k + 1
        <5>1. i \in 1 .. k /\ g[i] = f[i] /\ (i # 1 => g[i - 1] = f[i - 1])
          BY <4>2
        <5>. QED BY <5>1, <2>2
      <4>. QED BY <4>1, <4>2
    <3>. QED BY <3>1
  <2>4. Concats(seqs, k + 1, g)
    <3>. g = [i \in 1 .. k + 1 |-> g[i]]
      OBVIOUS
    <3>. HIDE DEF g
    <3>. QED BY <2>3 DEF Concats
  <2>. HIDE DEF g
  <2>. QED BY <2>4
<1>3. N = Nat
  <2>. HIDE DEF N
  <2>1. N \in SUBSET Nat
    BY DEF N
  <2>. QED BY <1>1, <1>2, <2>1, AllNat
<1>4. n \in N
  <2>. HIDE DEF N
  <2>. QED BY <1>3
<1>. QED BY <1>4

LEMMA FlattenSteps ==
  ASSUME NEW T, NEW seqs \in Seq(Seq(T)), Len(seqs) # 0
  PROVE  \E f : /\ Concats(seqs, Len(seqs), f)
                /\ FlattenSeq(seqs) = f[Len(seqs)]
<1>. DEFINE F == CHOOSE f : f = [i \in 1 .. Len(seqs) |->
                                   IF i = 1 THEN seqs[i] ELSE f[i - 1] \o seqs[i]]
<1>1. FlattenSeq(seqs) = F[Len(seqs)]
  BY Zenon DEF FlattenSeq
<1>2. \E f : Concats(seqs, Len(seqs), f)
  <2>1. Len(seqs) \in 1 .. Len(seqs)
    OBVIOUS
  <2>. QED BY <2>1, ConcatsExist
<1>3. Concats(seqs, Len(seqs), F)
  BY <1>2, Zenon DEF Concats
<1>. HIDE DEF F
<1>. QED BY <1>1, <1>3

LEMMA ConcatSet ==
  ASSUME NEW T, NEW s \in Seq(T), NEW t \in Seq(T)
  PROVE  /\ s \o t \in Seq(T)
         /\ ToSet(s \o t) = ToSet(s) \union ToSet(t)
         /\ (\A m, n \in DOMAIN (s \o t) : (s \o t)[m] = (s \o t)[n] => m = n)
              => /\ ToSet(s) \intersect ToSet(t) = {}
                 /\ \A m, n \in DOMAIN s : s[m] = s[n] => m = n
<1>. DEFINE st == s \o t
<1>1. /\ st \in Seq(T) /\ DOMAIN st = 1 .. (Len(s) + Len(t))
      /\ DOMAIN s = 1 .. Len(s) /\ DOMAIN t = 1 .. Len(t)
      /\ Len(s) \in Nat /\ Len(t) \in Nat
  OBVIOUS
<1>2. \A i \in DOMAIN s : i \in DOMAIN st /\ st[i] = s[i]
  BY <1>1
<1>3. \A i \in DOMAIN t : Len(s) + i \in DOMAIN st /\ st[Len(s) + i] = t[i]
  BY <1>1
<1>4. \A i \in DOMAIN st : (i \in DOMAIN s /\ st[i] = s[i])
                             \/ (i - Len(s) \in DOMAIN t /\ st[i] = t[i - Len(s)])
  BY <1>1
<1>. HIDE DEF st
<1>5. ToSet(st) = ToSet(s) \union ToSet(t)
  <2>1. \A i \in DOMAIN s : s[i] \in ToSet(st)
    BY <1>2 DEF ToSet
  <2>2. \A i \in DOMAIN t : t[i] \in ToSet(st)
    BY <1>3 DEF ToSet
  <2>3. \A i \in DOMAIN st : st[i] \in ToSet(s) \union ToSet(t)
    BY <1>4 DEF ToSet
  <2>. QED BY <2>1, <2>2, <2>3 DEF ToSet
<1>6. ASSUME \A m, n \in DOMAIN st : st[m] = st[n] => m = n
      PROVE  /\ ToSet(s) \intersect ToSet(t) = {}
             /\ \A m, n \in DOMAIN s : s[m] = s[n] => m = n
  <2>1. \A m \in DOMAIN s, n \in DOMAIN t : s[m] # t[n]
    <3>1. ASSUME NEW m \in DOMAIN s, NEW n \in DOMAIN t, s[m] = t[n] PROVE FALSE
      <4>1. m = Len(s) + n
        BY <1>2, <1>3, <1>6, <3>1
      <4>. QED BY <4>1, <1>1
    <3>. QED BY <3>1
  <2>2. \A m, n \in DOMAIN s : s[m] = s[n] => m = n
    BY <1>2, <1>6
  <2>. QED BY <2>1, <2>2 DEF ToSet
<1>. QED BY <1>1, <1>5, <1>6 DEF st

LEMMA FlattenOf ==
  ASSUME NEW T, NEW seqs \in Seq(Seq(T))
  PROVE  /\ FlattenSeq(seqs) \in Seq(T)
         /\ ToSet(FlattenSeq(seqs)) = UNION {ToSet(seqs[i]) : i \in DOMAIN seqs}
         /\ (\A m, n \in DOMAIN FlattenSeq(seqs) :
               FlattenSeq(seqs)[m] = FlattenSeq(seqs)[n] => m = n)
              => \A i, j \in DOMAIN seqs : i # j => ToSet(seqs[i]) \intersect ToSet(seqs[j]) = {}
<1>1. CASE Len(seqs) = 0
  <2>1. FlattenSeq(seqs) = <<>> /\ seqs = <<>>
    BY <1>1 DEF FlattenSeq
  <2>. QED BY <2>1 DEF ToSet
<1>2. CASE Len(seqs) # 0
  <2>1. PICK f : Concats(seqs, Len(seqs), f) /\ FlattenSeq(seqs) = f[Len(seqs)]
    BY <1>2, FlattenSteps
  <2>2. /\ \A i \in 1 .. Len(seqs) : f[i] = IF i = 1 THEN seqs[i] ELSE f[i - 1] \o seqs[i]
        /\ Len(seqs) \in Nat \ {0} /\ DOMAIN seqs = 1 .. Len(seqs)
        /\ \A i \in 1 .. Len(seqs) : seqs[i] \in Seq(T)
    <3>1. \A i \in 1 .. Len(seqs) : f[i] = IF i = 1 THEN seqs[i] ELSE f[i - 1] \o seqs[i]
      BY <2>1, Zenon DEF Concats
    <3>2. Len(seqs) \in Nat \ {0} /\ DOMAIN seqs = 1 .. Len(seqs)
      BY <1>2
    <3>. QED BY <3>1, <3>2
  <2>. DEFINE Distinct(s) == \A m, n \in DOMAIN s : s[m] = s[n] => m = n
              Good(k) == /\ f[k] \in Seq(T)
                         /\ \A x : x \in ToSet(f[k]) <=> \E i \in 1 .. k : x \in ToSet(seqs[i])
                         /\ Distinct(f[k]) =>
                              \A i, j \in 1 .. k : i < j => ToSet(seqs[i]) \intersect ToSet(seqs[j]) = {}
              N == {k \in Nat : k = 0 \/ (k <= Len(seqs) /\ Good(k))}
  <2>3. Good(1)
    <3>1. f[1] = seqs[1] /\ seqs[1] \in Seq(T)
      BY <2>2
    <3>2. \A i \in 1 .. 1 : i = 1
      OBVIOUS
    <3>3. \A i, j \in 1 .. 1 : ~ (i < j)
      BY <3>2
    <3>. HIDE DEF Distinct
    <3>. QED BY <3>1, <3>2, <3>3
  <2>4. ASSUME NEW k \in Nat, k # 0, k < Len(seqs), Good(k) PROVE Good(k + 1)
    <3>1. k + 1 \in 1 .. Len(seqs) /\ k + 1 # 1 /\ (k + 1) - 1 = k
      BY <2>4, <2>2
    <3>2. f[k + 1] = f[k] \o seqs[k + 1] /\ seqs[k + 1] \in Seq(T) /\ f[k] \in Seq(T)
      BY <2>2, <2>4, <3>1
    <3>3. /\ f[k + 1] \in Seq(T)
          /\ ToSet(f[k + 1]) = ToSet(f[k]) \union ToSet(seqs[k + 1])
          /\ Distinct(f[k + 1]) => ToSet(f[k]) \intersect ToSet(seqs[k + 1]) = {} /\ Distinct(f[k])
      <4>. DEFINE s == f[k] t == seqs[k + 1]
      <4>1. s \in Seq(T) /\ t \in Seq(T) /\ f[k + 1] = s \o t
        BY <3>2
      <4>. HIDE DEF s, t
      <4>2. /\ s \o t \in Seq(T)
            /\ ToSet(s \o t) = ToSet(s) \union ToSet(t)
            /\ Distinct(s \o t) => ToSet(s) \intersect ToSet(t) = {} /\ Distinct(s)
        BY <4>1, ConcatSet
      <4>. QED BY <4>1, <4>2 DEF s, t
    <3>4. \A i : i \in 1 .. k + 1 <=> i \in 1 .. k \/ i = k + 1
      BY <2>4
    <3>. HIDE DEF Distinct
    <3>5. \A x : x \in ToSet(f[k + 1]) <=> \E i \in 1 .. k + 1 : x \in ToSet(seqs[i])
      BY <3>3, <3>4, <2>4
    <3>6. ASSUME Distinct(f[k + 1]), NEW i \in 1 .. k + 1, NEW j \in 1 .. k + 1, i < j
          PROVE  ToSet(seqs[i]) \intersect ToSet(seqs[j]) = {}
      <4>1. CASE j = k + 1
        <5>1. i \in 1 .. k
          BY <3>6, <4>1
        <5>2. ToSet(seqs[i]) \subseteq ToSet(f[k])
          BY <5>1, <2>4
        <5>. QED BY <5>2, <3>3, <3>6, <4>1
      <4>2. CASE j # k + 1
        <5>1. i \in 1 .. k /\ j \in 1 .. k
          BY <3>6, <4>2
        <5>. QED BY <5>1, <2>4, <3>3, <3>6
      <4>. QED BY <4>1, <4>2
    <3>. QED BY <3>3, <3>5, <3>6
  <2>5. 0 .. Len(seqs) \subseteq N
    <3>1. N \in SUBSET Nat /\ 0 \in N
      OBVIOUS
    <3>2. ASSUME NEW k \in N, k < Len(seqs) PROVE k + 1 \in N
      <4>. HIDE DEF Good
      <4>1. CASE k = 0
        BY <4>1, <2>3, <2>2
      <4>2. CASE k # 0
        BY <4>2, <3>2, <2>4, <2>2
      <4>. QED BY <4>1, <4>2
    <3>. HIDE DEF N
    <3>. QED BY <3>1, <3>2, <2>2, UpTo
  <2>6. Good(Len(seqs))
    <3>. HIDE DEF Good
    <3>. QED BY <2>5, <2>2
  <2>7. \A i, j \in 1 .. Len(seqs) : i # j => i < j \/ j < i
    BY <2>2
  <2>8. ToSet(FlattenSeq(seqs)) = UNION {ToSet(seqs[i]) : i \in DOMAIN seqs}
    BY <2>6, <2>1, <2>2
  <2>9. Distinct(f[Len(seqs)]) =>
          \A i, j \in DOMAIN seqs : i # j => ToSet(seqs[i]) \intersect ToSet(seqs[j]) = {}
    <3>. HIDE DEF Distinct
    <3>1. ASSUME Distinct(f[Len(seqs)]), NEW i \in DOMAIN seqs, NEW j \in DOMAIN seqs, i # j
          PROVE  ToSet(seqs[i]) \intersect ToSet(seqs[j]) = {}
      <4>1. CASE i < j
        BY <2>6, <2>2, <3>1, <4>1
      <4>2. CASE j < i
        BY <2>6, <2>2, <3>1, <4>2
      <4>. QED BY <4>1, <4>2, <2>7, <2>2, <3>1
    <3>. QED BY <3>1
  <2>. QED BY <2>1, <2>6, <2>8, <2>9
<1>. QED BY <1>1, <1>2

LEMMA InOrderOf ==
  ASSUME NEW S \in SUBSET Int, IsFiniteSet(S)
  PROVE  /\ InOrder(S) \in Seq(S)
         /\ DOMAIN InOrder(S) = 1 .. Cardinality(S)
         /\ Len(InOrder(S)) = Cardinality(S)
         /\ {InOrder(S)[n] : n \in DOMAIN InOrder(S)} = S
<1>1. Cardinality(S) \in Nat
  BY FS_CardinalityType
<1>2. \A n \in 1 .. Cardinality(S) : Nth(S, n) \in S
  BY NthOf
<1>3. {Nth(S, n) : n \in 1 .. Cardinality(S)} = S
  BY NthOrder
<1>. QED BY <1>1, <1>2, <1>3 DEF InOrder

LEMMA ImageOf ==
  ASSUME NEW S, IsFiniteSet(S), NEW f
  PROVE  /\ IsFiniteSet({f[x] : x \in S})
         /\ Cardinality({f[x] : x \in S}) <= Cardinality(S)
<1>. DEFINE T == {f[x] : x \in S}
            g == [x \in S |-> f[x]]
<1>1. g \in Surjection(S, T)
  BY DEF Surjection
<1>. HIDE DEF T, g
<1>2. IsFiniteSet(T) /\ Cardinality(T) <= Cardinality(S)
  BY <1>1, FS_Surjection
<1>. QED BY <1>2 DEF T
=============================================================================
