------------------------------ MODULE Induction ------------------------------
(***************************************************************************)
(* Induction over natural numbers for the proofs of the other modules, in  *)
(* terms of sets: the library's theorems take an operator as a parameter,  *)
(* which the provers used here cannot give a value.                        *)
(***************************************************************************)
EXTENDS FiniteSetTheorems, TLAPS

\* A set of natural numbers has a least element, because intervals from 0 are
\* finite sets and proper inclusion of finite sets is well-founded.
LEMMA LeastNatural ==
  ASSUME NEW T, T \subseteq Nat, T # {}
  PROVE  \E m \in T : \A k \in T : m <= k
<1> DEFINE R == StrictSubsetOrdering(Nat)
           F == FiniteSubsetsOf(Nat)
           U == {0 .. i : i \in T}
<1>1. IsWellFoundedOn(R, F)
  BY FS_StrictSubsetOrderingWellFounded
<1>2. U # {} /\ U \subseteq F
  <2>1. \A i \in Nat : 0 .. i \subseteq Nat /\ IsFiniteSet(0 .. i)
    BY FS_Interval
  <2> QED
    BY <2>1 DEF FiniteSubsetsOf
<1>3. \A i, j \in Nat : j < i => <<0 .. j, 0 .. i>> \in R
  BY DEF StrictSubsetOrdering
<1> HIDE DEF R, F
<1>4. \E x \in U : \A y \in U : ~ (<<y, x>> \in R)
  BY <1>1, <1>2, WFMin
<1>5. PICK m \in T : \A k \in T : ~ (<<0 .. k, 0 .. m>> \in R)
  BY <1>4
<1>6. \A k \in T : ~ (k < m)
  <2> SUFFICES ASSUME NEW k \in T, k < m PROVE FALSE
    OBVIOUS
  <2>1. <<0 .. k, 0 .. m>> \in R
    BY <1>3
  <2> QED
    BY <1>5, <2>1
<1>7. \A k \in T : m <= k
  BY <1>6
<1> QED
  BY <1>7

\* What holds at 1, and at the next number whenever it holds at one, holds up
\* to n; S is the set of the numbers for which it holds.
LEMMA InductionUpTo ==
  ASSUME NEW S, NEW n \in Nat, n > 0 => 1 \in S, \A i \in 1 .. n - 1 : i \in S => i + 1 \in S
  PROVE  1 .. n \subseteq S
<1> SUFFICES ASSUME ~ (1 .. n \subseteq S) PROVE FALSE
  OBVIOUS
<1>1. PICK m \in (1 .. n) \ S : \A k \in (1 .. n) \ S : m <= k
  <2> DEFINE T == (1 .. n) \ S
  <2>1. T \subseteq Nat /\ T # {}
    OBVIOUS
  <2> HIDE DEF T
  <2>2. \E m \in T : \A k \in T : m <= k
    BY <2>1, LeastNatural
  <2> QED
    BY <2>2 DEF T
<1>2. m # 1 /\ m - 1 \in 1 .. n - 1
  BY <1>1
<1>3. m - 1 \in S
  BY <1>1, <1>2
<1> QED
  BY <1>1, <1>2, <1>3

\* The same, from 0.
LEMMA InductionFromZero ==
  ASSUME NEW S, NEW n \in Nat, 0 \in S, \A i \in 0 .. n - 1 : i \in S => i + 1 \in S
  PROVE  0 .. n \subseteq S
<1>1. n > 0 => 1 \in S
  <2>1. n > 0 => 0 \in 0 .. n - 1 /\ 0 + 1 = 1
    OBVIOUS
  <2> QED
    BY <2>1
<1>2. \A i \in 1 .. n - 1 : i \in S => i + 1 \in S
  OBVIOUS
<1>3. 1 .. n \subseteq S
  BY <1>1, <1>2, InductionUpTo
<1> QED
  BY <1>3
==============================================================================
