------------------------------ MODULE Induction ------------------------------
(***************************************************************************)
(* Induction over the natural numbers, and definition by it, in a form     *)
(* that takes sets and functions and no operator, so that every prover can *)
(* use it.  Both follow from strict inclusion being well-founded on the    *)
(* subsets of a finite set: k is less than n when 1..k is within 1..n.     *)
(***************************************************************************)
EXTENDS Integers, FiniteSetTheorems, TLAPS

(* A set of numbers up to n has a least element, if it has any. *)
LEMMA LeastUpTo ==
    ASSUME NEW n \in Nat, NEW T \in SUBSET (0..n), T # {}
    PROVE  \E least \in T : \A k \in T : least <= k
<1> DEFINE Below == {1..k : k \in T}
           Smaller == StrictSubsetOrdering(1..n)
<1>1. IsWellFoundedOn(Smaller, SUBSET (1..n))
  <2>1. IsFiniteSet(1..n)
    BY FS_Interval
  <2>2. FiniteSubsetsOf(1..n) = SUBSET (1..n)
    BY <2>1, FS_FiniteSubsetsOfFinite
  <2> QED
    BY <2>2, FS_StrictSubsetOrderingWellFounded
<1>2. Below \subseteq SUBSET (1..n) /\ Below # {}
  <2>1. \A k \in T : 1..k \in SUBSET (1..n) /\ 1..k \in Below
    OBVIOUS
  <2> QED
    BY <2>1
<1>3. \E x \in Below : \A y \in Below : <<y, x>> \notin Smaller
  <2> HIDE DEF Below, Smaller
  <2> QED
    BY <1>1, <1>2, WFMin, Zenon
<1>4. PICK least \in T : \A k \in T : <<1..k, 1..least>> \notin Smaller
  BY <1>3
<1>5. ASSUME NEW k \in T, k < least PROVE FALSE
  <2>1. /\ 1..k \subseteq 1..least /\ 1..k # 1..least
        /\ 1..least \subseteq 1..n /\ 1..k \subseteq 1..n
    BY <1>5
  <2> QED
    BY <2>1, <1>4 DEF StrictSubsetOrdering
<1> QED
  BY <1>4, <1>5

(* A set that holds 0, and the next number of each that it holds, holds all. *)
LEMMA InductionOnNat ==
    ASSUME NEW S \in SUBSET Nat, 0 \in S, \A n \in S : n + 1 \in S
    PROVE  S = Nat
<1> SUFFICES ASSUME NEW n \in Nat, n \notin S PROVE FALSE
  OBVIOUS
<1>1. PICK least \in (0..n) \ S : \A k \in (0..n) \ S : least <= k
  <2>1. (0..n) \ S \in SUBSET (0..n) /\ (0..n) \ S # {}
    OBVIOUS
  <2> QED
    BY <2>1, LeastUpTo
<1>2. least # 0 /\ least - 1 \in 0..n /\ least - 1 \in S
  BY <1>1
<1> QED
  BY <1>1, <1>2

(* f starts at start, and goes on from each number to the next with step. *)
Iterates(f, start, step) == f[0] = start /\ \A i \in Nat : f[i + 1] = step[i][f[i]]

(* A start and a step define a function on the natural numbers. *)
LEMMA RecursionOnNat ==
    ASSUME NEW X, NEW start \in X, NEW step \in [Nat -> [X -> X]]
    PROVE  \E f \in [Nat -> X] : Iterates(f, start, step)
<1> DEFINE Upto(n) == {f \in [0..n -> X] :
                         f[0] = start /\ \A i \in 0..(n - 1) : f[i + 1] = step[i][f[i]]}
<1>1. \A n \in Nat : Upto(n) # {}
  <2> DEFINE S == {n \in Nat : Upto(n) # {}}
  <2>1. 0 \in S
    <3>1. [i \in 0..0 |-> start] \in Upto(0)
      OBVIOUS
    <3> QED
      BY <3>1
  <2>2. ASSUME NEW n \in S PROVE n + 1 \in S
    <3>1. PICK f \in Upto(n) : TRUE
      OBVIOUS
    <3> DEFINE g == [i \in 0..(n + 1) |-> IF i = n + 1 THEN step[n][f[n]] ELSE f[i]]
    <3>2. n \in Nat /\ n + 1 \in Nat /\ (n + 1) - 1 = n
      OBVIOUS
    <3>3. g \in [0..(n + 1) -> X] /\ g[0] = start
      OBVIOUS
    <3>4. \A i \in 0..n : g[i] = f[i]
      OBVIOUS
    <3>5. g[n + 1] = step[n][f[n]]
      OBVIOUS
    <3>6. \A i \in 0..(n - 1) : f[i + 1] = step[i][f[i]] /\ i + 1 \in 0..n /\ i \in 0..n
      OBVIOUS
    <3> HIDE DEF g
    <3>7. \A i \in 0..n : g[i + 1] = step[i][g[i]]
      <4> SUFFICES ASSUME NEW i \in 0..n PROVE g[i + 1] = step[i][g[i]]
        OBVIOUS
      <4>1. CASE i = n
        BY <4>1, <3>4, <3>5
      <4>2. CASE i # n
        <5>1. i \in 0..(n - 1)
          BY <3>2, <4>2
        <5> QED
          BY <5>1, <3>4, <3>6
      <4> QED
        BY <4>1, <4>2
    <3>8. g \in Upto(n + 1)
      BY <3>2, <3>3, <3>7
    <3> QED
      BY <3>2, <3>8
  <2>3. S \in SUBSET Nat
    OBVIOUS
  <2>4. S = Nat
    <3> HIDE DEF S
    <3> QED
      BY <2>1, <2>2, <2>3, InductionOnNat
  <2> QED
    BY <2>4
<1>2. ASSUME NEW n \in Nat, NEW f \in Upto(n), NEW g \in Upto(n + 1)
      PROVE  f[n] = g[n]
  <2> DEFINE S == {i \in Nat : i <= n => f[i] = g[i]}
  <2>1. 0 \in S
    OBVIOUS
  <2>2. ASSUME NEW i \in S PROVE i + 1 \in S
    <3>1. CASE i + 1 <= n
      <4>1. i \in 0..(n - 1) /\ i \in 0..(n + 1 - 1) /\ f[i] = g[i]
        BY <3>1
      <4>2. f[i + 1] = step[i][f[i]] /\ g[i + 1] = step[i][g[i]]
        BY <4>1
      <4> QED
        BY <4>1, <4>2
    <3> QED
      BY <3>1
  <2>3. S \in SUBSET Nat
    OBVIOUS
  <2>4. S = Nat
    <3> HIDE DEF S
    <3> QED
      BY <2>1, <2>2, <2>3, InductionOnNat
  <2> QED
    BY <2>4
<1> DEFINE Part(n) == CHOOSE f \in Upto(n) : TRUE
           whole == [n \in Nat |-> Part(n)[n]]
<1>3. \A n \in Nat : Part(n) \in Upto(n)
  <2> HIDE DEF Upto
  <2> QED
    BY <1>1, Zenon
<1>4. \A n \in Nat : whole[n] = Part(n)[n]
  OBVIOUS
<1>5. whole \in [Nat -> X]
  <2> HIDE DEF Part
  <2>1. \A n \in Nat : Part(n)[n] \in X
    BY <1>3
  <2> QED
    BY <2>1
<1> HIDE DEF Part, whole
<1>6. whole[0] = start
  BY <1>3, <1>4
<1>7. ASSUME NEW i \in Nat PROVE whole[i + 1] = step[i][whole[i]]
  <2>1. i + 1 \in Nat /\ Part(i) \in Upto(i) /\ Part(i + 1) \in Upto(i + 1)
    BY <1>3
  <2>2. Part(i)[i] = Part(i + 1)[i]
    <3> HIDE DEF Upto
    <3> QED
      BY <1>2, <2>1
  <2>3. Part(i + 1)[i + 1] = step[i][Part(i + 1)[i]]
    BY <2>1
  <2> QED
    BY <1>4, <2>1, <2>2, <2>3
<1> QED
  BY <1>5, <1>6, <1>7 DEF Iterates
=============================================================================
