---------------------------- MODULE WalksProofs ----------------------------
(***************************************************************************)
(* What a walk finds, in any finite table: the least set of rows that has  *)
(* those it starts from and, with a row, those next to it. The library     *)
(* states induction for an operator that a proof instantiates; here it is  *)
(* stated for a set, from the fact that finite sets are well founded.      *)
(***************************************************************************)
EXTENDS Walks, FiniteSetTheorems, TLAPS

LEMMA LeastNumber ==
  ASSUME NEW S \in SUBSET Nat, S # {}
  PROVE  \E n \in S : \A m \in S : n <= m
<1> DEFINE Below(n) == 0..n
           T == {Below(n) : n \in S}
           R == StrictSubsetOrdering(Nat)
<1>1. IsWellFoundedOn(R, FiniteSubsetsOf(Nat))
  BY FS_StrictSubsetOrderingWellFounded
<1>2. T \subseteq FiniteSubsetsOf(Nat) /\ T # {}
  <2>1. ASSUME NEW n \in S
        PROVE  Below(n) \in FiniteSubsetsOf(Nat)
    <3>1. IsFiniteSet(0..n)
      BY FS_Interval
    <3>2. 0..n \subseteq Nat
      OBVIOUS
    <3> QED
      BY <3>1, <3>2 DEF FiniteSubsetsOf
  <2> HIDE DEF Below
  <2> QED
    BY <2>1
<1>3. PICK t \in T : \A u \in T : <<u, t>> \notin R
  <2> HIDE DEF T, R
  <2> QED
    BY <1>1, <1>2, WFMin
<1>4. PICK n \in S : t = Below(n)
  OBVIOUS
<1>5. ASSUME NEW m \in S, m < n
      PROVE  FALSE
  <2>1. <<Below(m), Below(n)>> \in R
    <3>1. Below(m) \subseteq Below(n) /\ n \in Below(n) /\ n \notin Below(m)
      BY <1>5
    <3>2. Below(m) \in SUBSET Nat /\ Below(n) \in SUBSET Nat
      OBVIOUS
    <3> HIDE DEF Below
    <3> QED
      BY <3>1, <3>2 DEF StrictSubsetOrdering
  <2> QED
    BY <2>1, <1>3, <1>4
<1> QED
  BY <1>5

(* Induction, over the set of the numbers a formula holds of. *)
LEMMA NumbersAllIn ==
  ASSUME NEW S, 0 \in S, \A n \in Nat : n \in S => n + 1 \in S
  PROVE  Nat \subseteq S
<1> SUFFICES ASSUME Nat \ S # {}
             PROVE  FALSE
  OBVIOUS
<1>1. PICK n \in Nat \ S : \A m \in Nat \ S : n <= m
  BY LeastNumber
<1>2. n # 0 /\ n - 1 \in Nat
  OBVIOUS
<1>3. n - 1 \in S
  BY <1>1, <1>2
<1> QED
  BY <1>2, <1>3

-----------------------------------------------------------------------------
(* The rounds of a walk *)

More(next, X) == X \cup UNION {next[x] : x \in X}

Round(start, next, seen, n) == IF n = 0 THEN start ELSE More(next, seen[n - 1])

Rounds(N, start, next, seen) == seen = [n \in 0..N |-> Round(start, next, seen, n)]

(* The definition of seen is one that a function satisfies. *)
LEMMA RoundsExist ==
  ASSUME NEW start, NEW next, NEW N \in Nat
  PROVE  \E seen : Rounds(N, start, next, seen)
<1> DEFINE Good == {n \in Nat : \E seen : Rounds(n, start, next, seen)}
<1>1. 0 \in Good
  <2> DEFINE seen == [n \in 0..0 |-> start]
  <2>1. seen = [n \in 0..0 |-> Round(start, next, seen, n)]
    BY DEF Round
  <2> QED
    BY <2>1 DEF Rounds
<1>2. ASSUME NEW n \in Nat, n \in Good
      PROVE  n + 1 \in Good
  <2>1. PICK seen : Rounds(n, start, next, seen)
    BY <1>2
  <2> DEFINE longer == [k \in 0..(n + 1) |-> IF k = n + 1 THEN More(next, seen[n]) ELSE seen[k]]
  <2>2. ASSUME NEW k \in 0..(n + 1)
        PROVE  longer[k] = Round(start, next, longer, k)
    <3>1. CASE k = n + 1
      <4>1. longer[k] = More(next, seen[n]) /\ longer[n] = seen[n] /\ k # 0 /\ k - 1 = n
        BY <3>1
      <4> HIDE DEF longer
      <4> QED
        BY <4>1 DEF Round
    <3>2. CASE k # n + 1
      <4>1. /\ k \in 0..n /\ longer[k] = seen[k]
            /\ k # 0 => k - 1 \in 0..n /\ longer[k - 1] = seen[k - 1]
        BY <3>2
      <4>2. seen[k] = Round(start, next, seen, k)
        BY <2>1, <4>1 DEF Rounds
      <4> HIDE DEF longer
      <4> QED
        BY <4>1, <4>2 DEF Round
    <3> QED
      BY <3>1, <3>2
  <2>3. longer = [k \in 0..(n + 1) |-> longer[k]]
    OBVIOUS
  <2> HIDE DEF longer
  <2>4. longer = [k \in 0..(n + 1) |-> Round(start, next, longer, k)]
    BY <2>2, <2>3, Zenon
  <2> QED
    BY <2>4 DEF Rounds
<1> HIDE DEF Good
<1>3. N \in Good
  BY <1>1, <1>2, NumbersAllIn
<1> QED
  BY <1>3 DEF Good

LEMMA ReachInRounds ==
  ASSUME NEW A, NEW start, NEW next, NEW N \in Nat, N = Cardinality(A)
  PROVE  \E seen : Reach(A, start, next) = seen[N] /\ seen[0] = start
                    /\ \A n \in Nat : n < N => seen[n + 1] = More(next, seen[n])
<1> DEFINE seen == CHOOSE s : Rounds(N, start, next, s)
<1>1. Reach(A, start, next) = seen[N]
  BY DEF Reach, Rounds, Round, More
<1>2. Rounds(N, start, next, seen)
  BY RoundsExist
<1> HIDE DEF seen
<1>3. \A n \in 0..N : seen[n] = Round(start, next, seen, n)
  BY <1>2 DEF Rounds
<1>4. seen[0] = start
  BY <1>3 DEF Round
<1>5. ASSUME NEW n \in Nat, n < N
      PROVE  seen[n + 1] = More(next, seen[n])
  <2>1. n + 1 \in 0..N /\ n + 1 # 0 /\ (n + 1) - 1 = n
    BY <1>5
  <2> QED
    BY <2>1, <1>3 DEF Round
<1> QED
  BY <1>1, <1>4, <1>5

LEMMA MoreMonotone ==
  ASSUME NEW next, NEW X, NEW Y, X \subseteq Y
  PROVE  More(next, X) \subseteq More(next, Y)
  BY DEF More

LEMMA MoreStays ==
  ASSUME NEW A, NEW next, \A x \in A : next[x] \subseteq A, NEW X \in SUBSET A
  PROVE  More(next, X) \in SUBSET A /\ X \subseteq More(next, X)
  BY DEF More

Closes(next, X) == \A x \in X : next[x] \subseteq X

LeastFrom(A, start, next, R) ==
  /\ R \subseteq A /\ start \subseteq R /\ Closes(next, R)
  /\ \A X \in SUBSET A : start \subseteq X /\ Closes(next, X) => R \subseteq X

(* What is reached, without regard to the rounds it takes: there are rows  *)
(* to add in no more rounds than there are rows.                           *)
THEOREM Reached ==
  ASSUME NEW A, IsFiniteSet(A), NEW start \in SUBSET A, NEW next, Closes(next, A)
  PROVE  LeastFrom(A, start, next, Reach(A, start, next))
<1>0. \A x \in A : next[x] \subseteq A
  BY DEF Closes
<1> PICK N \in Nat : N = Cardinality(A)
  BY FS_CardinalityType
<1>1. PICK seen : /\ Reach(A, start, next) = seen[N] /\ seen[0] = start
                  /\ \A n \in Nat : n < N => seen[n + 1] = More(next, seen[n])
  BY ReachInRounds
<1> DEFINE Settled(n) == More(next, seen[n]) = seen[n] \/ Cardinality(seen[n]) >= n
           Fits(n) == /\ seen[n] \in SUBSET A /\ start \subseteq seen[n] /\ Settled(n)
                      /\ \A X \in SUBSET A : start \subseteq X /\ More(next, X) \subseteq X => seen[n] \subseteq X
           Good == {n \in Nat : n <= N => Fits(n)}
<1>2. 0 \in Good
  <2>1. IsFiniteSet(start) /\ Cardinality(start) \in Nat
    BY FS_Subset, FS_CardinalityType
  <2> QED
    BY <1>1, <2>1
<1>3. ASSUME NEW n \in Nat, n \in Good
      PROVE  n + 1 \in Good
  <2> SUFFICES ASSUME n + 1 <= N
               PROVE  Fits(n + 1)
    OBVIOUS
  <2>1. Fits(n)
    BY <1>3
  <2>2. seen[n + 1] = More(next, seen[n])
    BY <1>1
  <2>3. seen[n + 1] \in SUBSET A /\ seen[n] \subseteq seen[n + 1]
    BY <1>0, <2>1, <2>2, MoreStays
  <2>4. Settled(n + 1)
    <3>1. CASE More(next, seen[n]) = seen[n]
      BY <3>1, <2>2
    <3>2. CASE More(next, seen[n]) # seen[n] /\ Cardinality(seen[n]) >= n
      <4>1. /\ IsFiniteSet(seen[n + 1]) /\ Cardinality(seen[n + 1]) \in Nat
            /\ Cardinality(seen[n]) \in Nat
        BY <2>1, <2>3, FS_Subset, FS_CardinalityType
      <4>2. Cardinality(seen[n]) <= Cardinality(seen[n + 1]) /\ Cardinality(seen[n]) # Cardinality(seen[n + 1])
        BY <4>1, <2>3, <3>2, <2>2, FS_Subset
      <4> QED
        BY <3>2, <4>1, <4>2
    <3> QED
      BY <2>1, <3>1, <3>2
  <2>5. ASSUME NEW X \in SUBSET A, start \subseteq X, More(next, X) \subseteq X
        PROVE  seen[n + 1] \subseteq X
    <3>1. seen[n] \subseteq X
      BY <2>1, <2>5
    <3> QED
      BY <3>1, <2>2, <2>5, MoreMonotone
  <2> QED
    BY <2>1, <2>3, <2>4, <2>5
<1> HIDE DEF Good
<1>4. N \in Good
  BY <1>2, <1>3, NumbersAllIn
<1>5. Fits(N)
  BY <1>4 DEF Good
<1>6. More(next, seen[N]) = seen[N]
  <2>1. CASE Cardinality(seen[N]) >= N
    <3>1. Cardinality(seen[N]) <= N /\ (Cardinality(seen[N]) = N => seen[N] = A) /\ IsFiniteSet(seen[N])
      BY <1>5, FS_Subset
    <3>2. seen[N] = A
      BY <2>1, <3>1, FS_CardinalityType
    <3>3. More(next, seen[N]) \subseteq A /\ seen[N] \subseteq More(next, seen[N])
      BY <1>0, <1>5, MoreStays
    <3> QED
      BY <3>2, <3>3, Zenon
  <2> QED
    BY <1>5, <2>1
<1> QED
  BY <1>1, <1>5, <1>6 DEF More, LeastFrom, Closes
=============================================================================
