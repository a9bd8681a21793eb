------------------------------ MODULE NatLemmas ------------------------------
(***************************************************************************)
(* Least and greatest elements of sets of natural numbers, and induction   *)
(* stated with a set instead of a predicate, so that it can be cited with  *)
(* any set of numbers.                                                     *)
(***************************************************************************)
EXTENDS Integers, WellFoundedInduction, TLAPS

(* The order of the natural numbers, as a set of pairs, is well founded.   *)
LEMMA LessIsWellFounded ==
  IsWellFoundedOn({ss \in Nat \X Nat : ss[1] < ss[2]}, Nat)
  BY NatLessThanWellFounded DEF OpToRel

(* A set of natural numbers that is not empty has a least element.         *)
LEMMA LeastExists ==
  ASSUME NEW T, T \subseteq Nat, T # {}
  PROVE  \E x \in T : \A y \in T : x <= y
<1> DEFINE R == {ss \in Nat \X Nat : ss[1] < ss[2]}
<1>1. IsWellFoundedOn(R, Nat)
  BY LessIsWellFounded
<1> HIDE DEF R
<1>2. PICK x \in T : \A y \in T : <<y, x>> \notin R
  BY <1>1, WFMin
<1>3. ASSUME NEW y \in T PROVE x <= y
  <2>1. <<y, x>> \notin R /\ x \in Nat /\ y \in Nat
    BY <1>2
  <2>2. ~(y < x)
    BY <2>1 DEF R
  <2> QED BY <2>1, <2>2
<1> QED BY <1>3

(* A bounded one also has a greatest element.                              *)
LEMMA GreatestExists ==
  ASSUME NEW T, T \subseteq Nat, T # {}, NEW n \in Nat, \A y \in T : y <= n
  PROVE  \E x \in T : \A y \in T : y <= x
<1> DEFINE U == {k \in Nat : \A y \in T : y <= k}
<1>1. PICK k \in U : \A j \in U : k <= j
  <2>1. U \subseteq Nat /\ n \in U
    OBVIOUS
  <2> HIDE DEF U
  <2> QED BY <2>1, LeastExists
<1>2. k \in T
  <2> SUFFICES ASSUME k \notin T PROVE FALSE
    OBVIOUS
  <2>1. \A y \in T : y \in Nat /\ y <= k - 1
    BY <1>1
  <2>2. PICK y \in T : TRUE
    OBVIOUS
  <2>3. k \in Nat /\ y \in Nat /\ y <= k - 1
    BY <2>1, <1>1
  <2>4. k - 1 \in U
    BY <2>1, <2>3
  <2> QED BY <2>4, <1>1
<1> QED BY <1>1, <1>2

(* Induction over the natural numbers.                                     *)
LEMMA SetInduction ==
  ASSUME NEW T, 0 \in T, \A n \in Nat : n \in T => n + 1 \in T
  PROVE  Nat \subseteq T
<1> SUFFICES ASSUME Nat \ T # {} PROVE FALSE
  OBVIOUS
<1>1. PICK x \in Nat \ T : \A y \in Nat \ T : x <= y
  BY LeastExists
<1>2. x # 0 /\ x - 1 \in Nat
  BY <1>1
<1>3. x - 1 \in T
  BY <1>1, <1>2
<1> QED BY <1>1, <1>2, <1>3

(* The functions on 0..n that begin with base and take the steps of step.  *)
StepRules(X) == [Nat \X X -> X]
Recursions(X, base, step, n) ==
  {g \in [0..n -> X] : g[0] = base /\ \A i \in 1..n : g[i] = step[<<i, g[i - 1]>>]}

(* A function defined by recursion over a segment of the numbers exists.   *)
LEMMA RecursionExists ==
  ASSUME NEW X, NEW base \in X, NEW step \in StepRules(X), NEW n \in Nat
  PROVE  Recursions(X, base, step, n) # {}
<1>0. step \in [Nat \X X -> X]
  BY DEF StepRules
<1> DEFINE Good(g, m) == g[0] = base /\ \A i \in 1..m : g[i] = step[<<i, g[i - 1]>>]
           T == {m \in Nat : \E g \in [0..m -> X] : Good(g, m)}
<1>1. 0 \in T
  <2>1. [i \in 0..0 |-> base] \in [0..0 -> X] /\ Good([i \in 0..0 |-> base], 0)
    OBVIOUS
  <2> QED BY <2>1
<1>2. ASSUME NEW m \in Nat, m \in T PROVE m + 1 \in T
  <2>1. PICK g \in [0..m -> X] : Good(g, m)
    BY <1>2
  <2>2. PICK x \in X : x = step[<<m + 1, g[m]>>]
    BY <1>0
  <2> DEFINE h == [i \in 0..m + 1 |-> IF i = m + 1 THEN x ELSE g[i]]
  <2>3. h \in [0..m + 1 -> X]
    OBVIOUS
  <2>4. h[0] = base
    BY <2>1
  <2>5. ASSUME NEW i \in 1..m + 1 PROVE h[i] = step[<<i, h[i - 1]>>]
    <3>1. i - 1 \in 0..m /\ h[i - 1] = g[i - 1]
      OBVIOUS
    <3>2. CASE i = m + 1
      <4>1. h[i] = x /\ h[i - 1] = g[m]
        BY <3>1, <3>2
      <4>2. h[i] = step[<<i, h[i - 1]>>]
        BY ONLY <4>1, <3>2, <2>2
      <4> QED BY ONLY <4>2
    <3>3. CASE i # m + 1
      <4>1. i \in 1..m /\ h[i] = g[i]
        BY <3>3
      <4> QED BY <4>1, <3>1, <2>1
    <3> QED BY <3>2, <3>3
  <2>6. Good(h, m + 1)
    BY <2>4, <2>5
  <2> HIDE DEF h, Good
  <2>7. \E f \in [0..m + 1 -> X] : Good(f, m + 1)
    BY <2>3, <2>6
  <2> QED BY <2>7
<1>3. n \in T
  <2>1. Nat \subseteq T
    <3> HIDE DEF T
    <3> QED BY <1>1, <1>2, SetInduction
  <2> QED BY <2>1
<1>4. PICK g \in [0..n -> X] : Good(g, n)
  BY <1>3
<1>5. g \in Recursions(X, base, step, n)
  BY <1>4 DEF Recursions
<1> QED BY <1>5
=============================================================================
