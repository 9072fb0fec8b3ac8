--------------------------- MODULE CountingLemmas ---------------------------
(***************************************************************************)
(* Induction and recursion on the numbers up to a bound, stated of sets    *)
(* and functions, for the modules that sum over a sequence or go down      *)
(* through the levels of a value.                                          *)
(***************************************************************************)
EXTENDS Naturals, WellFoundedInduction, TLAPS

(* A set that holds 0, and with a number the next, holds every number.     *)
LEMMA CountUp ==
    ASSUME NEW S, 0 \in S, \A n \in S \cap Nat : n + 1 \in S
    PROVE  Nat \subseteq S
<1> DEFINE T == Nat \ S
           R == OpToRel(<, Nat)
<1>1. SUFFICES ASSUME T # {}
               PROVE  FALSE
  OBVIOUS
<1>2. \E x \in T : \A y \in T : ~ (<<y, x>> \in R)
  <2> HIDE DEF R
  <2>1. IsWellFoundedOn(R, Nat)
    BY NatLessThanWellFounded DEF R
  <2>2. T \subseteq Nat /\ T # {}
    BY <1>1
  <2> HIDE DEF T
  <2>. QED  BY <2>1, <2>2, WFMin
<1>3. PICK x \in T : \A y \in T : ~ (<<y, x>> \in R)
  BY <1>2
<1>4. x \in Nat /\ x \notin S /\ x # 0
  OBVIOUS
<1>5. x - 1 \in Nat /\ x - 1 + 1 = x /\ x - 1 < x
  BY <1>4
<1>6. <<x - 1, x>> \in R
  BY <1>4, <1>5 DEF OpToRel
<1>7. x - 1 \in S
  BY <1>3, <1>5, <1>6
<1>. QED  BY <1>4, <1>5, <1>7

(* The same up to a bound.                                                 *)
LEMMA CountTo ==
    ASSUME NEW n \in Nat, NEW S, 0 \in S, \A i \in S \cap (0 .. n - 1) : i + 1 \in S
    PROVE  0 .. n \subseteq S
<1> DEFINE T == {i \in Nat : i <= n => i \in S}
<1>1. 0 \in T
  OBVIOUS
<1>2. ASSUME NEW i \in T PROVE i + 1 \in T
  <2>1. SUFFICES ASSUME i + 1 <= n PROVE i + 1 \in S
    OBVIOUS
  <2>2. i \in S \cap (0 .. n - 1)
    BY <2>1
  <2>. QED  BY <2>2
<1> HIDE DEF T
<1>3. Nat \subseteq T
  BY <1>1, <1>2, CountUp
<1>. QED  BY <1>3 DEF T

(* The functions on 0 .. n that start with z and go on by step.            *)
RunsTo(n, S, z, step) ==
    {g \in [0 .. n -> S] : g[0] = z /\ \A i \in 1 .. n : g[i] = step[<<i, g[i - 1]>>]}

(* What is defined by recursion on the numbers up to a bound exists.       *)
LEMMA RecursionTo ==
    ASSUME NEW n \in Nat, NEW S, NEW z \in S, NEW step \in [(1 .. n) \X S -> S]
    PROVE  RunsTo(n, S, z, step) # {}
<1> DEFINE Upto(m, g) == /\ g \in [0 .. m -> S] /\ g[0] = z
                         /\ \A i \in 1 .. m : g[i] = step[<<i, g[i - 1]>>]
           T == {m \in 0 .. n : \E g : Upto(m, g)}
<1>1. 0 \in T
  <2> DEFINE g == [i \in 0 .. 0 |-> z]
  <2>1. g \in [0 .. 0 -> S] /\ g[0] = z /\ 1 .. 0 = {}
    OBVIOUS
  <2> HIDE DEF g
  <2>2. Upto(0, g)
    BY <2>1
  <2>3. \E f : Upto(0, f)
    BY <2>2
  <2>. QED  BY <2>3
<1>2. ASSUME NEW m \in T \cap (0 .. n - 1) PROVE m + 1 \in T
  <2>1. PICK g : Upto(m, g)
    BY <1>2
  <2> DEFINE h == [i \in 0 .. m + 1 |-> IF i = m + 1 THEN step[<<m + 1, g[m]>>] ELSE g[i]]
  <2>2. m \in Nat /\ m + 1 \in 1 .. n /\ m + 1 \in 0 .. n
    BY <1>2
  <2>3. g[m] \in S /\ step[<<m + 1, g[m]>>] \in S
    BY <2>1, <2>2
  <2>4. h \in [0 .. m + 1 -> S]
    BY <2>1, <2>2, <2>3
  <2>5. h[0] = z
    BY <2>1, <2>2
  <2>6. ASSUME NEW i \in 1 .. m + 1 PROVE h[i] = step[<<i, h[i - 1]>>]
    <3>1. i - 1 \in 0 .. m /\ i - 1 # m + 1 /\ h[i - 1] = g[i - 1]
      BY <2>2
    <3>2. CASE i = m + 1
      <4>1. h[i] = step[<<m + 1, g[m]>>]
        BY <2>2, <3>2
      <4>2. i - 1 = m
        BY <2>2, <3>2
      <4> HIDE DEF h
      <4>. QED  BY <3>1, <3>2, <4>1, <4>2
    <3>3. CASE i # m + 1
      <4>1. i \in 1 .. m /\ h[i] = g[i]
        BY <2>2, <3>3
      <4>. QED  BY <2>1, <3>1, <4>1
    <3>. QED  BY <3>2, <3>3
  <2>7. Upto(m + 1, h)
    BY <2>4, <2>5, <2>6
  <2>. QED  BY <2>2, <2>7
<1>3. 0 .. n \subseteq T
  <2> HIDE DEF T
  <2>. QED  BY <1>1, <1>2, CountTo
<1>4. n \in T
  BY <1>3
<1>5. PICK g : Upto(n, g)
  BY <1>4
<1>. QED  BY <1>5 DEF RunsTo
=============================================================================
