--------------------------- MODULE ExactJsonProofs ---------------------------
(***************************************************************************)
(* Proofs that a walk stays within its limits, and that its verdict is     *)
(* that of the contract, for every heap, every value on it and every       *)
(* choice of the limits.                                                   *)
(*                                                                         *)
(* WalkStaysWithinLimits is inductive once the heap is known to be one of  *)
(* Heaps: the entry checks keep the budgets, and "not active" keeps the    *)
(* path free of repetitions, which is why the finally clause may forget a  *)
(* container when the walk leaves it.                                      *)
(*                                                                         *)
(* For the verdicts the invariant says where the walk stands (Stands): the *)
(* children that each loop has passed are fine, and each container on the  *)
(* stack is fine if the value walked is; and that what is charged so far   *)
(* and what the loops have left to charge is what the contract counts in   *)
(* the whole value (Balanced).  So a walk that ends in its outermost loop  *)
(* has seen a fine value within the budgets, and one that raises has met   *)
(* what no fine value has, a cycle among it, or a charge that the whole    *)
(* value does not have room for.                                           *)
(***************************************************************************)
EXTENDS ExactJson, StackLemmas, CountingLemmas

(* The path of a stack whose innermost loop goes on to its next child.     *)
LEMMA AdvancedPath ==
    ASSUME NEW s \in Seq(Frame), s # <<>>
    PROVE  LET moved == Append(Front(s), [object |-> Last(s).object, next |-> Last(s).next + 1])
           IN moved \in Seq(Frame) /\ Len(moved) = Len(s) /\ PathOf(moved) = PathOf(s)
<1> DEFINE f == [object |-> Last(s).object, next |-> Last(s).next + 1]
           moved == Append(Front(s), f)
<1>1. Last(s) \in Frame /\ Last(s) = s[Len(s)]
  BY StackTop
<1>2. f \in Frame /\ f.object = s[Len(s)].object
  BY <1>1 DEF Frame
<1>3. /\ moved \in Seq(Frame) /\ Len(moved) = Len(s)
      /\ \A i \in 1 .. Len(s) - 1 : moved[i] = s[i]
      /\ moved[Len(s)] = f
  <2> HIDE DEF f
  <2>. QED  BY <1>2, ReplaceTop
<1> HIDE DEF moved, f
<1>4. DOMAIN moved = 1 .. Len(s) /\ DOMAIN s = 1 .. Len(s) /\ Len(s) \in Nat
  BY <1>3
<1>5. ASSUME NEW i \in 1 .. Len(s)
      PROVE  moved[i].object = s[i].object
  <2>1. CASE i = Len(s)  BY <2>1, <1>2, <1>3
  <2>2. CASE i # Len(s)
    <3>1. i \in 1 .. Len(s) - 1
      <4>1. Len(s) \in Nat
        OBVIOUS
      <4>. QED  BY <2>2, <4>1
    <3>. QED  BY <3>1, <1>3
  <2>. QED  BY <2>1, <2>2
<1>6. PathOf(moved) = PathOf(s)
  BY <1>4, <1>5 DEF PathOf
<1>. QED  BY <1>3, <1>6 DEF moved, f

(* The path of a stack with one more container.                            *)
LEMMA PushedPath ==
    ASSUME NEW s \in Seq(Frame), NEW o \in Objects,
           o \notin Range(PathOf(s)), IsInjective(PathOf(s))
    PROVE  LET pushed == Append(s, [object |-> o, next |-> 1])
           IN /\ Range(PathOf(pushed)) = Range(PathOf(s)) \cup {o}
              /\ IsInjective(PathOf(pushed))
<1> DEFINE f == [object |-> o, next |-> 1]
           pushed == Append(s, f)
           n == Len(s)
<1>1. n \in Nat /\ DOMAIN s = 1 .. n /\ DOMAIN pushed = 1 .. n + 1
  OBVIOUS
<1>2. pushed[n + 1] = f /\ \A i \in 1 .. n : pushed[i] = s[i]
  OBVIOUS
<1> HIDE DEF pushed, n
<1>3. /\ DOMAIN PathOf(s) = 1 .. n /\ DOMAIN PathOf(pushed) = 1 .. n + 1
      /\ \A i \in 1 .. n : PathOf(pushed)[i] = PathOf(s)[i]
      /\ PathOf(pushed)[n + 1] = o
  BY <1>1, <1>2 DEF PathOf
<1>4. \A i \in 1 .. n + 1 : i \in 1 .. n \/ i = n + 1
  BY <1>1
<1>5. \A i \in 1 .. n : i \in 1 .. n + 1 /\ n + 1 \in 1 .. n + 1 /\ PathOf(s)[i] # o
  BY <1>1, <1>3 DEF Range
<1>6. Range(PathOf(pushed)) = Range(PathOf(s)) \cup {o}
  BY <1>1, <1>3, <1>4, <1>5 DEF Range
<1>7. IsInjective(PathOf(pushed))
  BY <1>1, <1>3, <1>4, <1>5 DEF IsInjective
<1>. QED  BY <1>6, <1>7 DEF pushed, f

(* The path of a stack without its innermost container.                    *)
LEMMA PoppedPath ==
    ASSUME NEW s \in Seq(Frame), s # <<>>, IsInjective(PathOf(s))
    PROVE  /\ Range(PathOf(Front(s))) = Range(PathOf(s)) \ {Last(s).object}
           /\ IsInjective(PathOf(Front(s)))
<1> DEFINE n == Len(s)
<1>1. n \in Nat /\ n > 0 /\ DOMAIN s = 1 .. n /\ n \in DOMAIN s
  BY EmptySeq
<1>2. /\ Front(s) \in Seq(Frame) /\ Len(Front(s)) = n - 1 /\ Last(s) = s[n]
      /\ \A i \in DOMAIN Front(s) : Front(s)[i] = s[i]
  BY StackTop
<1> HIDE DEF n
<1>3. DOMAIN Front(s) = 1 .. n - 1
  BY <1>2
<1>4. /\ DOMAIN PathOf(s) = 1 .. n /\ DOMAIN PathOf(Front(s)) = 1 .. n - 1
      /\ \A i \in 1 .. n - 1 : PathOf(Front(s))[i] = PathOf(s)[i]
      /\ PathOf(s)[n] = Last(s).object
  BY <1>1, <1>2, <1>3 DEF PathOf
<1>5. \A i \in 1 .. n : i \in 1 .. n - 1 \/ i = n
  BY <1>1
<1>6. \A i \in 1 .. n - 1 : i \in 1 .. n /\ n \in 1 .. n /\ i # n
  BY <1>1
<1>7. \A i \in 1 .. n - 1 : PathOf(s)[i] # PathOf(s)[n]
  BY <1>4, <1>6 DEF IsInjective
<1>8. Range(PathOf(Front(s))) = Range(PathOf(s)) \ {Last(s).object}
  BY <1>4, <1>5, <1>6, <1>7 DEF Range
<1>9. IsInjective(PathOf(Front(s)))
  BY <1>4, <1>6 DEF IsInjective
<1>. QED  BY <1>8, <1>9

LEMMA EmptyPath == Range(PathOf(<<>>)) = {} /\ IsInjective(PathOf(<<>>))
BY DEF PathOf, Range, IsInjective

-----------------------------------------------------------------------------
(* Sums.                                                                   *)

(* The partial sums of a sequence of numbers are what their recursion      *)
(* says.                                                                   *)
LEMMA Sums ==
    ASSUME NEW s \in Seq(Nat)
    PROVE  /\ PartialSums(s)[0] = 0
           /\ \A i \in 1 .. Len(s) : PartialSums(s)[i] = PartialSums(s)[i - 1] + s[i]
<1> DEFINE n == Len(s)
           step == [p \in (1 .. n) \X Nat |-> p[2] + s[p[1]]]
           Def(sum) == sum = [i \in 0 .. n |-> IF i = 0 THEN 0 ELSE sum[i - 1] + s[i]]
<1>1. n \in Nat /\ \A i \in 1 .. n : s[i] \in Nat
  BY ElementOfSeq
<1>2. step \in [(1 .. n) \X Nat -> Nat]
  BY <1>1
<1>3. RunsTo(n, Nat, 0, step) # {}
  <2> HIDE DEF step, n
  <2>. QED  BY <1>1, <1>2, RecursionTo
<1>4. PICK g \in [0 .. n -> Nat] :
         g[0] = 0 /\ \A i \in 1 .. n : g[i] = step[<<i, g[i - 1]>>]
  <2> HIDE DEF step, n
  <2>. QED  BY <1>3 DEF RunsTo
<1>5. ASSUME NEW i \in 1 .. n
      PROVE  g[i] = g[i - 1] + s[i]
  <2> HIDE DEF n
  <2>1. i - 1 \in 0 .. n
    BY <1>1
  <2>2. g[i - 1] \in Nat /\ g[i] = step[<<i, g[i - 1]>>]
    BY <1>4, <2>1
  <2>. QED  BY <2>2
<1>6. \A i \in 0 .. n : i = 0 \/ i \in 1 .. n
  BY <1>1
<1>7. Def(g)
  <2> HIDE DEF n
  <2>1. \A i \in 0 .. n : g[i] = IF i = 0 THEN 0 ELSE g[i - 1] + s[i]
    BY <1>4, <1>5, <1>6
  <2>. QED  BY <1>4, <2>1
<1>8. PartialSums(s) = CHOOSE sum : Def(sum)
  BY DEF PartialSums
<1>9. Def(PartialSums(s))
  <2> HIDE DEF Def
  <2>. QED  BY <1>7, <1>8
<1>10. 0 \in 0 .. n /\ \A i \in 1 .. n : i \in 0 .. n /\ i # 0
  BY <1>1
<1> HIDE DEF n
<1>11. PartialSums(s)[0] = 0
       /\ \A i \in 1 .. n : PartialSums(s)[i] = PartialSums(s)[i - 1] + s[i]
  BY <1>9, <1>10
<1>. QED  BY <1>11 DEF n

(* They are numbers, and they only grow.                                   *)
LEMMA SumsGrow ==
    ASSUME NEW s \in Seq(Nat), NEW i \in 0 .. Len(s)
    PROVE  PartialSums(s)[i] \in Nat /\ PartialSums(s)[i] <= SumOf(s) /\ SumOf(s) \in Nat
<1> DEFINE n == Len(s)
           P == PartialSums(s)
           S == {j \in 0 .. n : P[j] \in Nat /\ \A k \in 0 .. j : P[k] \in Nat /\ P[k] <= P[j]}
<1>1. n \in Nat /\ \A j \in 1 .. n : s[j] \in Nat
  BY ElementOfSeq
<1>2. P[0] = 0 /\ \A j \in 1 .. n : P[j] = P[j - 1] + s[j]
  BY Sums
<1> HIDE DEF n, P
<1>3. 0 \in S
  BY <1>1, <1>2
<1>4. ASSUME NEW j \in S \cap (0 .. n - 1)
      PROVE  j + 1 \in S
  <2>1. j \in Nat /\ j + 1 \in 1 .. n /\ j + 1 \in 0 .. n /\ j + 1 - 1 = j
    BY <1>1, <1>4
  <2>2. P[j + 1] = P[j] + s[j + 1] /\ s[j + 1] \in Nat /\ P[j] \in Nat
    BY <1>1, <1>2, <1>4, <2>1
  <2>3. ASSUME NEW k \in 0 .. j + 1 PROVE P[k] \in Nat /\ P[k] <= P[j + 1]
    <3>1. CASE k = j + 1  BY <2>2, <3>1
    <3>2. CASE k # j + 1
      <4>1. k \in 0 .. j
        BY <2>1, <3>2
      <4>2. P[k] \in Nat /\ P[k] <= P[j]
        BY <1>4, <4>1
      <4>. QED  BY <2>2, <4>2
    <3>. QED  BY <3>1, <3>2
  <2>. QED  BY <2>1, <2>2, <2>3
<1>5. 0 .. n \subseteq S
  <2> HIDE DEF S
  <2>. QED  BY <1>1, <1>3, <1>4, CountTo
<1>6. n \in S /\ i \in 0 .. n
  BY <1>1, <1>5 DEF n
<1>7. P[i] \in Nat /\ P[i] <= P[n] /\ P[n] \in Nat
  BY <1>6
<1>. QED  BY <1>7 DEF n, P, SumOf

LEMMA SumOfNone == SumOf(<<>>) = 0
<1>1. <<>> \in Seq(Nat) /\ Len(<<>>) = 0
  OBVIOUS
<1>. QED  BY <1>1, Sums DEF SumOf

(* The sum of a longer sequence.                                           *)
LEMMA SumOfAppend ==
    ASSUME NEW s \in Seq(Nat), NEW x \in Nat
    PROVE  SumOf(Append(s, x)) = SumOf(s) + x
<1> DEFINE n == Len(s)
           t == Append(s, x)
           P == PartialSums(s)
           Q == PartialSums(t)
           S == {j \in 0 .. n : Q[j] = P[j]}
<1>1. n \in Nat /\ t \in Seq(Nat) /\ Len(t) = n + 1
  BY AppendProperties
<1>2. t[n + 1] = x /\ \A j \in 1 .. n : t[j] = s[j]
  BY AppendProperties
<1>3. P[0] = 0 /\ \A j \in 1 .. n : P[j] = P[j - 1] + s[j]
  BY Sums
<1>4. Q[0] = 0 /\ \A j \in 1 .. n + 1 : Q[j] = Q[j - 1] + t[j]
  <2> HIDE DEF t, n
  <2>. QED  BY <1>1, Sums
<1>5. SumOf(t) = Q[n + 1] /\ SumOf(s) = P[n]
  BY <1>1 DEF SumOf
<1> HIDE DEF n, t, P, Q
<1>6. 0 \in S
  BY <1>1, <1>3, <1>4
<1>7. ASSUME NEW j \in S \cap (0 .. n - 1)
      PROVE  j + 1 \in S
  <2>1. j \in Nat /\ j + 1 \in 1 .. n /\ j + 1 \in 0 .. n /\ j + 1 - 1 = j /\ j + 1 \in 1 .. n + 1
    BY <1>1, <1>7
  <2>2. Q[j + 1] = Q[j] + t[j + 1] /\ P[j + 1] = P[j] + s[j + 1] /\ t[j + 1] = s[j + 1]
    BY <1>2, <1>3, <1>4, <2>1
  <2>. QED  BY <1>7, <2>1, <2>2
<1>8. 0 .. n \subseteq S
  <2> HIDE DEF S
  <2>. QED  BY <1>1, <1>6, <1>7, CountTo
<1>9. Q[n] = P[n]
  BY <1>1, <1>8
<1>10. n + 1 \in 1 .. n + 1 /\ n + 1 - 1 = n
  BY <1>1
<1>11. Q[n + 1] = P[n] + x
  <2> DEFINE k == n + 1
  <2>1. k \in 1 .. n + 1 /\ k - 1 = n
    BY <1>1
  <2> HIDE DEF k
  <2>2. Q[k] = Q[n] + t[k]
    BY <1>4, <2>1
  <2>. QED  BY <1>2, <1>9, <2>2 DEF k
<1>. QED  BY <1>5, <1>11 DEF t

(* The sum of two sequences added up element by element.                   *)
LEMMA SumOfPairs ==
    ASSUME NEW s \in Seq(Nat), NEW t \in Seq(Nat), NEW u \in Seq(Nat),
           Len(t) = Len(s), Len(u) = Len(s),
           \A i \in 1 .. Len(s) : u[i] = s[i] + t[i]
    PROVE  SumOf(u) = SumOf(s) + SumOf(t)
<1> DEFINE n == Len(s)
           P == PartialSums(s)
           Q == PartialSums(t)
           R == PartialSums(u)
           S == {j \in 0 .. n : R[j] = P[j] + Q[j]}
<1>1. n \in Nat /\ \A j \in 1 .. n : s[j] \in Nat /\ t[j] \in Nat
  BY ElementOfSeq
<1>2. P[0] = 0 /\ \A j \in 1 .. n : P[j] = P[j - 1] + s[j]
  BY Sums
<1>3. Q[0] = 0 /\ \A j \in 1 .. n : Q[j] = Q[j - 1] + t[j]
  BY Sums
<1>4. R[0] = 0 /\ \A j \in 1 .. n : R[j] = R[j - 1] + u[j]
  BY Sums
<1>5. \A j \in 0 .. n : P[j] \in Nat /\ Q[j] \in Nat
  BY SumsGrow
<1>6. SumOf(u) = R[n] /\ SumOf(s) = P[n] /\ SumOf(t) = Q[n]
  BY DEF SumOf
<1>7. \A j \in 1 .. n : u[j] = s[j] + t[j]
  OBVIOUS
<1> HIDE DEF n, P, Q, R
<1>8. 0 \in S
  BY <1>1, <1>2, <1>3, <1>4
<1>9. ASSUME NEW j \in S \cap (0 .. n - 1)
      PROVE  j + 1 \in S
  <2>1. j \in Nat /\ j + 1 \in 1 .. n /\ j + 1 \in 0 .. n /\ j + 1 - 1 = j /\ j \in 0 .. n
    BY <1>1, <1>9
  <2>2. R[j + 1] = R[j] + (s[j + 1] + t[j + 1])
    BY <1>4, <1>7, <2>1
  <2>3. P[j + 1] = P[j] + s[j + 1] /\ Q[j + 1] = Q[j] + t[j + 1]
    BY <1>2, <1>3, <2>1
  <2>4. P[j] \in Nat /\ Q[j] \in Nat /\ s[j + 1] \in Nat /\ t[j + 1] \in Nat /\ R[j] = P[j] + Q[j]
    BY <1>1, <1>5, <1>9, <2>1
  <2>5. R[j + 1] = P[j + 1] + Q[j + 1]
    <3> DEFINE p == P[j]
               q == Q[j]
               a == s[j + 1]
               b == t[j + 1]
    <3>1. p \in Nat /\ q \in Nat /\ a \in Nat /\ b \in Nat
      BY <2>4
    <3>2. R[j + 1] = p + q + (a + b) /\ P[j + 1] = p + a /\ Q[j + 1] = q + b
      BY <2>2, <2>3, <2>4
    <3> HIDE DEF p, q, a, b
    <3>. QED  BY <3>1, <3>2
  <2>. QED  BY <2>1, <2>5
<1>10. 0 .. n \subseteq S
  <2> HIDE DEF S
  <2>. QED  BY <1>1, <1>8, <1>9, CountTo
<1>11. R[n] = P[n] + Q[n]
  BY <1>1, <1>10
<1>. QED  BY <1>6, <1>11

-----------------------------------------------------------------------------
(* Levels.                                                                 *)

LEMMA HeapFacts ==
    ASSUME NEW h \in Heaps, NEW o \in Objects
    PROVE  /\ h[o].size \in Nat /\ h[o].weight \in Nat
           /\ h[o].children \in Seq(Objects)
           /\ h[o].keys \in Seq(Key)
           /\ Len(h[o].keys) \in {0, Len(h[o].children)}
           /\ h[o].kind \notin Containers => h[o].children = <<>> /\ h[o].keys = <<>>
           /\ Len(h[o].children) \in Nat
           /\ \A i \in 1 .. Len(h[o].children) : h[o].children[i] \in Objects
<1> DEFINE children == h[o].children
           keys == h[o].keys
           kind == h[o].kind
<1>1. /\ h[o].size \in Nat /\ h[o].weight \in Nat /\ children \in Seq(Objects)
      /\ keys \in Seq(Key)
      /\ Len(keys) \in {0, Len(children)} /\ (kind \notin Containers => children = <<>>)
  BY ExactJsonAssumption
<1> HIDE DEF children, keys, kind
<1>2. Len(keys) = 0 => keys = <<>>
  BY <1>1, EmptySeq
<1>3. Len(children) \in Nat /\ \A i \in 1 .. Len(children) : children[i] \in Objects
  BY <1>1, ElementOfSeq
<1>4. kind \notin Containers => children = <<>> /\ keys = <<>>
  BY <1>1, <1>2
<1>. QED  BY <1>1, <1>3, <1>4 DEF children, keys, kind

(* What the keys of an object weigh.                                       *)
LEMMA WeightFacts ==
    ASSUME NEW h \in Heaps, NEW o \in Objects
    PROVE  /\ KeyWeights(h, o) \in Seq(Nat)
           /\ Len(KeyWeights(h, o)) = Len(h[o].keys)
           /\ Len(KeyWeights(h, o)) \in {0, Len(h[o].children)}
           /\ h[o].keys = <<>> <=> KeyWeights(h, o) = <<>>
           /\ \A i \in 1 .. Len(h[o].keys) : KeyWeights(h, o)[i] = h[o].keys[i].weight
<1> DEFINE keys == h[o].keys
           n == Len(keys)
           weights == KeyWeights(h, o)
<1>1. keys \in Seq(Key) /\ n \in {0, Len(h[o].children)}
  BY HeapFacts
<1>2. weights = [i \in DOMAIN keys |-> keys[i].weight]
  BY DEF KeyWeights
<1> HIDE DEF keys, weights
<1>3. n \in Nat /\ DOMAIN keys = 1 .. n /\ \A i \in 1 .. n : keys[i] \in Key
  BY <1>1, ElementOfSeq
<1>4. \A i \in 1 .. n : keys[i].weight \in Nat
  BY <1>3 DEF Key
<1>5. weights \in [1 .. n -> Nat] /\ \A i \in 1 .. n : weights[i] = keys[i].weight
  BY <1>2, <1>3, <1>4
<1> HIDE DEF n
<1>6. weights \in Seq(Nat) /\ Len(weights) = n
  BY <1>3, <1>5
<1>7. keys = <<>> <=> weights = <<>>
  BY <1>1, <1>6, EmptySeq DEF n
<1>. QED  BY <1>1, <1>5, <1>6, <1>7 DEF keys, n, weights

LEMMA NoKeyFits == NoKey \in Key /\ NoKey.weight = 0 /\ \A exact : KeyFits(NoKey, exact)
BY ExactJsonAssumption DEF NoKey, Key, KeyFits

LEMMA DepthIsNat == MaxDepth \in Nat /\ MaxDepth + 1 \in Nat
BY ExactJsonAssumption

(* A value is fine at a level if it is by itself, and its children are one *)
(* level down.                                                             *)
LEMMA FineLevels ==
    ASSUME NEW h, NEW exact
    PROVE  /\ Fine(h, exact)[0] = {}
           /\ \A m \in 0 .. MaxDepth :
                 Fine(h, exact)[m + 1] =
                    {o \in Objects : /\ FineAlone(h, o, exact)
                                     /\ Range(h[o].children) \subseteq Fine(h, exact)[m]}
<1> DEFINE n == MaxDepth + 1
           Level(below) == {o \in Objects : FineAlone(h, o, exact)
                                            /\ Range(h[o].children) \subseteq below}
           step == [p \in (1 .. n) \X SUBSET Objects |-> Level(p[2])]
           Def(f) == f = [m \in 0 .. n |-> IF m = 0 THEN {} ELSE Level(f[m - 1])]
<1>1. n \in Nat /\ {} \in SUBSET Objects
  BY DepthIsNat
<1>2. step \in [(1 .. n) \X SUBSET Objects -> SUBSET Objects]
  OBVIOUS
<1>3. RunsTo(n, SUBSET Objects, {}, step) # {}
  <2> HIDE DEF step, n
  <2>. QED  BY <1>1, <1>2, RecursionTo
<1>4. PICK g \in [0 .. n -> SUBSET Objects] :
         g[0] = {} /\ \A i \in 1 .. n : g[i] = step[<<i, g[i - 1]>>]
  <2> HIDE DEF step, n
  <2>. QED  BY <1>3 DEF RunsTo
<1> HIDE DEF Level
<1>5. ASSUME NEW i \in 1 .. n
      PROVE  g[i] = Level(g[i - 1])
  <2> HIDE DEF n
  <2>1. i - 1 \in 0 .. n
    BY <1>1
  <2>2. g[i - 1] \in SUBSET Objects /\ g[i] = step[<<i, g[i - 1]>>]
    BY <1>4, <2>1
  <2>. QED  BY <2>2
<1>6. \A i \in 0 .. n : i = 0 \/ i \in 1 .. n
  BY <1>1
<1>7. Def(g)
  <2> HIDE DEF n
  <2>1. \A i \in 0 .. n : g[i] = IF i = 0 THEN {} ELSE Level(g[i - 1])
    BY <1>4, <1>5, <1>6
  <2>. QED  BY <1>4, <2>1
<1>8. Fine(h, exact) = CHOOSE f : Def(f)
  BY DEF Fine, Level
<1>9. Def(Fine(h, exact))
  <2> HIDE DEF Def
  <2>. QED  BY <1>7, <1>8
<1>10. \A m \in 0 .. MaxDepth : m + 1 \in 0 .. n /\ m + 1 # 0 /\ m + 1 - 1 = m
  BY DepthIsNat
<1>11. 0 \in 0 .. n
  BY <1>1
<1> DEFINE F == Fine(h, exact)
<1>12. F = [m \in 0 .. n |-> IF m = 0 THEN {} ELSE Level(F[m - 1])]
  BY <1>9
<1> HIDE DEF n, F
<1>13. F[0] = {}
  BY <1>11, <1>12
<1>14. ASSUME NEW m \in 0 .. MaxDepth PROVE F[m + 1] = Level(F[m])
  <2> DEFINE k == m + 1
  <2>1. k \in 0 .. n /\ k # 0 /\ k - 1 = m
    BY <1>10
  <2> HIDE DEF k
  <2>2. F[k] = Level(F[m])
    BY <1>12, <2>1
  <2>. QED  BY <2>2 DEF k
<1>. QED  BY <1>13, <1>14 DEF Level, F

(* What is fine some levels deep is so with a level more to go.            *)
LEMMA FineGrows ==
    ASSUME NEW h, NEW exact, NEW m \in 0 .. MaxDepth
    PROVE  Fine(h, exact)[m] \subseteq Fine(h, exact)[m + 1]
<1> DEFINE F == Fine(h, exact)
           S == {i \in 0 .. MaxDepth : F[i] \subseteq F[i + 1]}
<1>1. F[0] = {} /\ \A i \in 0 .. MaxDepth :
         F[i + 1] = {o \in Objects : FineAlone(h, o, exact) /\ Range(h[o].children) \subseteq F[i]}
  BY FineLevels
<1> HIDE DEF F
<1>2. 0 \in S
  BY <1>1, DepthIsNat
<1>3. ASSUME NEW i \in S \cap (0 .. MaxDepth - 1)
      PROVE  i + 1 \in S
  <2>1. i \in 0 .. MaxDepth /\ i + 1 \in 0 .. MaxDepth /\ F[i] \subseteq F[i + 1]
    BY <1>3, DepthIsNat
  <2> DEFINE k == i + 1
  <2>2. F[k] = {o \in Objects : FineAlone(h, o, exact) /\ Range(h[o].children) \subseteq F[i]}
    BY <1>1, <2>1
  <2>3. k \in 0 .. MaxDepth /\ F[i] \subseteq F[k]
    BY <2>1
  <2> HIDE DEF k
  <2>4. F[k + 1] = {o \in Objects : FineAlone(h, o, exact) /\ Range(h[o].children) \subseteq F[k]}
    BY <1>1, <2>3
  <2>5. F[k] \subseteq F[k + 1]
    BY <2>2, <2>3, <2>4
  <2>. QED  BY <2>3, <2>5 DEF k
<1>4. 0 .. MaxDepth \subseteq S
  <2> HIDE DEF S
  <2>. QED  BY <1>2, <1>3, DepthIsNat, CountTo
<1>. QED  BY <1>4 DEF F

(* What is fine for a preflight is fine for the validator.                 *)
LEMMA ExactIsFine ==
    ASSUME NEW h, NEW m \in 0 .. MaxDepth + 1
    PROVE  Fine(h, TRUE)[m] \subseteq Fine(h, FALSE)[m]
<1> DEFINE exact == TRUE
           lax == FALSE
           F == Fine(h, exact)
           G == Fine(h, lax)
           S == {i \in 0 .. MaxDepth + 1 : F[i] \subseteq G[i]}
<1>1. \A o \in Objects : FineAlone(h, o, exact) => FineAlone(h, o, lax)
  BY DEF FineAlone, KeyFits
<1> HIDE DEF exact, lax
<1>2. F[0] = {} /\ \A i \in 0 .. MaxDepth :
         F[i + 1] = {o \in Objects : FineAlone(h, o, exact) /\ Range(h[o].children) \subseteq F[i]}
  BY FineLevels
<1>3. G[0] = {} /\ \A i \in 0 .. MaxDepth :
         G[i + 1] = {o \in Objects : FineAlone(h, o, lax) /\ Range(h[o].children) \subseteq G[i]}
  BY FineLevels
<1> HIDE DEF F, G, exact, lax
<1>4. 0 \in S
  BY <1>2, <1>3, DepthIsNat
<1>5. ASSUME NEW i \in S \cap (0 .. (MaxDepth + 1) - 1)
      PROVE  i + 1 \in S
  <2>1. i \in 0 .. MaxDepth /\ i + 1 \in 0 .. MaxDepth + 1 /\ F[i] \subseteq G[i]
    BY <1>5, DepthIsNat
  <2>2. F[i + 1] \subseteq G[i + 1]
    BY <1>1, <1>2, <1>3, <2>1
  <2>. QED  BY <2>1, <2>2
<1>6. 0 .. MaxDepth + 1 \subseteq S
  <2> DEFINE n == MaxDepth + 1
  <2>1. n \in Nat
    BY DepthIsNat
  <2> HIDE DEF S, n
  <2>2. 0 .. n \subseteq S
    BY <1>4, <1>5, <2>1, CountTo DEF n
  <2>. QED  BY <2>2 DEF n
<1>. QED  BY <1>6 DEF F, G, exact, lax

(* A value each of whose ancestors on a path has the next for a child, and *)
(* itself the first, is never fine: no limit on depth is enough for it.    *)
LEMMA CycleIsNotFine ==
    ASSUME NEW h, NEW exact, NEW C \in SUBSET Objects,
           \A o \in C : Range(h[o].children) \cap C # {},
           NEW m \in 0 .. MaxDepth + 1
    PROVE  C \cap Fine(h, exact)[m] = {}
<1> DEFINE F == Fine(h, exact)
           S == {i \in 0 .. MaxDepth + 1 : C \cap F[i] = {}}
<1>1. F[0] = {} /\ \A i \in 0 .. MaxDepth :
         F[i + 1] = {o \in Objects : FineAlone(h, o, exact) /\ Range(h[o].children) \subseteq F[i]}
  BY FineLevels
<1> HIDE DEF F
<1>2. 0 \in S
  BY <1>1, DepthIsNat
<1>3. ASSUME NEW i \in S \cap (0 .. (MaxDepth + 1) - 1)
      PROVE  i + 1 \in S
  <2>1. i \in 0 .. MaxDepth /\ i + 1 \in 0 .. MaxDepth + 1 /\ C \cap F[i] = {}
    BY <1>3, DepthIsNat
  <2>2. ASSUME NEW o \in C PROVE o \notin F[i + 1]
    <3>1. PICK c \in Range(h[o].children) \cap C : TRUE
      OBVIOUS
    <3>2. c \notin F[i]
      BY <2>1
    <3>. QED  BY <1>1, <2>1, <3>2
  <2>. QED  BY <2>1, <2>2
<1>4. 0 .. MaxDepth + 1 \subseteq S
  <2> DEFINE n == MaxDepth + 1
  <2>1. n \in Nat
    BY DepthIsNat
  <2> HIDE DEF S, n
  <2>2. 0 .. n \subseteq S
    BY <1>2, <1>3, <2>1, CountTo DEF n
  <2>. QED  BY <2>2 DEF n
<1>. QED  BY <1>4 DEF F

(* What a value adds up to at a level: its own share, and that of its      *)
(* children one level down.                                                *)
LEMMA UnfoldedLevels ==
    ASSUME NEW h \in Heaps, NEW own \in [Objects -> Nat]
    PROVE  /\ Unfolded(h, own) \in [0 .. MaxDepth + 1 -> [Objects -> Nat]]
           /\ \A m \in 0 .. MaxDepth : \A o \in Objects :
                 Unfolded(h, own)[m + 1][o] =
                    own[o] + SumOf([i \in DOMAIN h[o].children |->
                                       Unfolded(h, own)[m][h[o].children[i]]])
<1> DEFINE n == MaxDepth + 1
           Z == [o \in Objects |-> 0]
           Parts(below, o) == [i \in DOMAIN h[o].children |-> below[h[o].children[i]]]
           Level(below) == [o \in Objects |-> own[o] + SumOf(Parts(below, o))]
           step == [p \in (1 .. n) \X [Objects -> Nat] |-> Level(p[2])]
           Def(f) == f = [m \in 0 .. n |-> IF m = 0 THEN Z ELSE Level(f[m - 1])]
<1>1. n \in Nat /\ Z \in [Objects -> Nat]
  BY DepthIsNat
<1>2. ASSUME NEW below \in [Objects -> Nat] PROVE Level(below) \in [Objects -> Nat]
  <2>1. ASSUME NEW o \in Objects PROVE SumOf(Parts(below, o)) \in Nat
    <3>1. h[o].children \in Seq(Objects) /\ Len(h[o].children) \in Nat
          /\ \A i \in 1 .. Len(h[o].children) : h[o].children[i] \in Objects
      BY HeapFacts
    <3>2. Parts(below, o) \in Seq(Nat)
      <4> DEFINE c == h[o].children
      <4>1. DOMAIN c = 1 .. Len(c) /\ Len(c) \in Nat /\ \A i \in 1 .. Len(c) : c[i] \in Objects
        BY <3>1
      <4> HIDE DEF c
      <4>2. [i \in DOMAIN c |-> below[c[i]]] \in [1 .. Len(c) -> Nat]
        BY <4>1
      <4>3. [i \in DOMAIN c |-> below[c[i]]] \in Seq(Nat)
        BY <4>1, <4>2
      <4>. QED  BY <4>3 DEF c
    <3>3. 0 \in 0 .. Len(Parts(below, o))
      BY <3>2
    <3> HIDE DEF Parts
    <3>. QED  BY <3>2, <3>3, SumsGrow
  <2> HIDE DEF Parts
  <2>. QED  BY <2>1
<1> HIDE DEF Level, Z
<1>3. step \in [(1 .. n) \X [Objects -> Nat] -> [Objects -> Nat]]
  BY <1>2
<1>4. RunsTo(n, [Objects -> Nat], Z, step) # {}
  <2> HIDE DEF step, n
  <2>. QED  BY <1>1, <1>3, RecursionTo
<1>5. PICK g \in [0 .. n -> [Objects -> Nat]] :
         g[0] = Z /\ \A i \in 1 .. n : g[i] = step[<<i, g[i - 1]>>]
  <2> HIDE DEF step, n
  <2>. QED  BY <1>4 DEF RunsTo
<1>6. ASSUME NEW i \in 1 .. n
      PROVE  g[i] = Level(g[i - 1])
  <2> HIDE DEF n
  <2>1. i - 1 \in 0 .. n
    BY <1>1
  <2>2. g[i - 1] \in [Objects -> Nat] /\ g[i] = step[<<i, g[i - 1]>>]
    BY <1>5, <2>1
  <2>. QED  BY <2>2
<1>7. \A i \in 0 .. n : i = 0 \/ i \in 1 .. n
  BY <1>1
<1>8. Def(g)
  <2> HIDE DEF n
  <2>1. \A i \in 0 .. n : g[i] = IF i = 0 THEN Z ELSE Level(g[i - 1])
    BY <1>5, <1>6, <1>7
  <2>. QED  BY <1>5, <2>1
<1>9. Unfolded(h, own) = CHOOSE f : Def(f)
  BY DEF Unfolded, Level, Z
<1>10. Def(Unfolded(h, own))
  <2> HIDE DEF Def
  <2>. QED  BY <1>8, <1>9
<1> DEFINE F == Unfolded(h, own)
           S == {i \in 0 .. n : F[i] \in [Objects -> Nat]}
<1>11. F = [m \in 0 .. n |-> IF m = 0 THEN Z ELSE Level(F[m - 1])]
  BY <1>10
<1>12. \A m \in 0 .. MaxDepth : m + 1 \in 0 .. n /\ m + 1 # 0 /\ m + 1 - 1 = m
  BY DepthIsNat
<1>13. \A m \in 0 .. n - 1 : m + 1 \in 0 .. n /\ m \in 0 .. MaxDepth
  BY DepthIsNat
<1>14. 0 \in 0 .. n
  BY <1>1
<1> HIDE DEF n, F
<1>15. F[0] = Z
  BY <1>11, <1>14
<1>16. ASSUME NEW m \in 0 .. MaxDepth PROVE F[m + 1] = Level(F[m])
  <2> DEFINE k == m + 1
  <2>1. k \in 0 .. n /\ k # 0 /\ k - 1 = m
    BY <1>12
  <2> HIDE DEF k
  <2>2. F[k] = Level(F[m])
    BY <1>11, <2>1
  <2>. QED  BY <2>2 DEF k
<1>17. 0 \in S
  BY <1>1, <1>14, <1>15
<1>18. ASSUME NEW i \in S \cap (0 .. n - 1) PROVE i + 1 \in S
  BY <1>2, <1>13, <1>16, <1>18
<1>19. 0 .. n \subseteq S
  <2> HIDE DEF S
  <2>. QED  BY <1>1, <1>17, <1>18, CountTo
<1>20. F \in [0 .. n -> [Objects -> Nat]]
  <2>1. DOMAIN F = 0 .. n /\ F = [m \in DOMAIN F |-> F[m]]
    BY <1>11
  <2>. QED  BY <1>19, <2>1
<1>21. ASSUME NEW m \in 0 .. MaxDepth, NEW o \in Objects
       PROVE  F[m + 1][o] = own[o] + SumOf(Parts(F[m], o))
  BY <1>16 DEF Level
<1>. QED  BY <1>20, <1>21 DEF F, n

-----------------------------------------------------------------------------
(* Charges.  "edge" is what is charged for the key of a child, "own" what  *)
(* for a value itself.                                                     *)

(* What each child of o adds to the total of o at level m + 1.             *)
Terms(h, total, edge) ==
    [m \in 0 .. MaxDepth |-> [o \in Objects |-> [i \in 1 .. Len(h[o].children) |->
        edge[o][i] + total[m][h[o].children[i]]]]]

IsTariff(h, total, own, edge) ==
    /\ total \in [0 .. MaxDepth + 1 -> [Objects -> Nat]]
    /\ own \in [Objects -> Nat]
    /\ \A o \in Objects : \A i \in 1 .. Len(h[o].children) : edge[o][i] \in Nat
    /\ \A m \in 0 .. MaxDepth : \A o \in Objects :
          total[m + 1][o] = own[o] + SumOf(Terms(h, total, edge)[m][o])

LEMMA TermsFacts ==
    ASSUME NEW h \in Heaps, NEW total, NEW own, NEW edge, IsTariff(h, total, own, edge),
           NEW m \in 0 .. MaxDepth, NEW o \in Objects
    PROVE  /\ Terms(h, total, edge)[m][o] \in Seq(Nat)
           /\ Len(Terms(h, total, edge)[m][o]) = Len(h[o].children)
           /\ \A i \in 1 .. Len(h[o].children) :
                 Terms(h, total, edge)[m][o][i] = edge[o][i] + total[m][h[o].children[i]]
<1> DEFINE c == h[o].children
           t == [i \in 1 .. Len(c) |-> edge[o][i] + total[m][c[i]]]
<1>1. Terms(h, total, edge)[m][o] = t
  BY DEF Terms
<1>2. Len(c) \in Nat /\ \A i \in 1 .. Len(c) : c[i] \in Objects
  BY HeapFacts
<1>3. m \in 0 .. MaxDepth + 1
  BY DepthIsNat
<1>4. total[m] \in [Objects -> Nat]
  BY <1>3 DEF IsTariff
<1>5. \A i \in 1 .. Len(c) : edge[o][i] \in Nat
  BY DEF IsTariff
<1> HIDE DEF c
<1>6. t \in [1 .. Len(c) -> Nat]
  BY <1>2, <1>4, <1>5
<1>7. t \in Seq(Nat) /\ Len(t) = Len(c)
  BY <1>2, <1>6
<1>. QED  BY <1>1, <1>7 DEF c

(* What is left of a sequence of numbers from the next one on.             *)
Left(t, next) == SumOf(t) - PartialSums(t)[next - 1]

LEMMA LeftFacts ==
    ASSUME NEW t \in Seq(Nat), NEW next \in 1 .. Len(t) + 1
    PROVE  /\ Left(t, next) \in Nat
           /\ next = 1 => Left(t, next) = SumOf(t)
           /\ next = Len(t) + 1 => Left(t, next) = 0
           /\ next <= Len(t) => Left(t, next) = t[next] + Left(t, next + 1)
<1> DEFINE n == Len(t)
           P == PartialSums(t)
<1>1. n \in Nat /\ \A i \in 1 .. n : t[i] \in Nat
  BY ElementOfSeq
<1>2. P[0] = 0 /\ \A i \in 1 .. n : P[i] = P[i - 1] + t[i]
  BY Sums
<1>3. \A i \in 0 .. n : P[i] \in Nat /\ P[i] <= SumOf(t) /\ SumOf(t) \in Nat
  BY SumsGrow
<1>4. SumOf(t) = P[n] /\ next \in 1 .. n + 1
  BY DEF SumOf
<1>5. Left(t, next) = SumOf(t) - P[next - 1] /\ Left(t, next + 1) = SumOf(t) - P[next]
  <2>1. next + 1 - 1 = next
    BY <1>1, <1>4
  <2>. QED  BY <2>1 DEF Left
<1> HIDE DEF n, P
<1>6. next - 1 \in 0 .. n
  BY <1>1, <1>4
<1>7. next = n + 1 => next - 1 = n
  BY <1>1, <1>4
<1>8. next <= n => Left(t, next) = t[next] + Left(t, next + 1)
  <2>1. SUFFICES ASSUME next <= n PROVE Left(t, next) = t[next] + Left(t, next + 1)
    OBVIOUS
  <2>2. next \in 1 .. n /\ next \in 0 .. n
    BY <1>1, <1>4, <2>1
  <2>3. P[next] = P[next - 1] + t[next] /\ P[next] \in Nat /\ P[next - 1] \in Nat /\ t[next] \in Nat
        /\ SumOf(t) \in Nat
    BY <1>1, <1>2, <1>3, <1>6, <2>2
  <2>. QED  BY <1>5, <2>3, SMTT(30)
<1>9. Left(t, next) \in Nat /\ (next = 1 => Left(t, next) = SumOf(t))
      /\ (next = n + 1 => Left(t, next) = 0)
  BY <1>2, <1>3, <1>4, <1>5, <1>6, <1>7
<1>. QED  BY <1>8, <1>9 DEF n

(* What the frames of a stack have left to charge, each with one level     *)
(* less than the frame around it.                                          *)
Ledger(terms, s) ==
    [j \in 1 .. Len(s) |-> Left(terms[MaxDepth + 1 - j][s[j].object], s[j].next)]

(* A stack of loops, each over the children of a container.                *)
Looping(h, s) ==
    /\ s \in Seq(Frame) /\ Len(s) <= MaxDepth + 1
    /\ \A j \in 1 .. Len(s) : s[j].next <= Len(h[s[j].object].children) + 1

LEMMA LedgerFacts ==
    ASSUME NEW h \in Heaps, NEW total, NEW own, NEW edge, IsTariff(h, total, own, edge),
           NEW s, Looping(h, s)
    PROVE  /\ Ledger(Terms(h, total, edge), s) \in Seq(Nat)
           /\ Len(Ledger(Terms(h, total, edge), s)) = Len(s)
<1> DEFINE terms == Terms(h, total, edge)
           L == Ledger(terms, s)
<1>1. Len(s) \in Nat /\ Len(s) <= MaxDepth + 1 /\ \A j \in 1 .. Len(s) : s[j] \in Frame
  BY ElementOfSeq DEF Looping
<1>2. ASSUME NEW j \in 1 .. Len(s)
      PROVE  Left(terms[MaxDepth + 1 - j][s[j].object], s[j].next) \in Nat
  <2> DEFINE m == MaxDepth + 1 - j
             o == s[j].object
             k == s[j].next
             t == terms[m][o]
  <2>1. m \in 0 .. MaxDepth /\ o \in Objects /\ k \in Nat \ {0} /\ k <= Len(h[o].children) + 1
    BY <1>1, DepthIsNat DEF Frame, Looping
  <2>2. Len(h[o].children) \in Nat
    BY <2>1, HeapFacts
  <2> HIDE DEF m, o, k
  <2>3. t \in Seq(Nat) /\ Len(t) = Len(h[o].children)
    BY <2>1, TermsFacts
  <2>4. k \in 1 .. Len(t) + 1
    BY <2>1, <2>2, <2>3
  <2> HIDE DEF t
  <2>5. Left(t, k) \in Nat
    BY <2>3, <2>4, LeftFacts
  <2>. QED  BY <2>5 DEF t, o, k, m
<1>3. L \in [1 .. Len(s) -> Nat]
  <2> HIDE DEF terms
  <2>. QED  BY <1>2 DEF Ledger
<1> HIDE DEF L
<1>4. L \in Seq(Nat) /\ Len(L) = Len(s)
  BY <1>1, <1>3
<1>. QED  BY <1>4 DEF L

(* A frame on top adds what it has left.                                   *)
LEMMA LedgerPushed ==
    ASSUME NEW h \in Heaps, NEW total, NEW own, NEW edge, IsTariff(h, total, own, edge),
           NEW s, Looping(h, s), Len(s) <= MaxDepth,
           NEW f \in Frame, f.next <= Len(h[f.object].children) + 1
    PROVE  /\ Looping(h, Append(s, f))
           /\ Left(Terms(h, total, edge)[MaxDepth - Len(s)][f.object], f.next) \in Nat
           /\ SumOf(Ledger(Terms(h, total, edge), s)) \in Nat
           /\ SumOf(Ledger(Terms(h, total, edge), Append(s, f))) =
                 SumOf(Ledger(Terms(h, total, edge), s))
                 + Left(Terms(h, total, edge)[MaxDepth - Len(s)][f.object], f.next)
<1> DEFINE terms == Terms(h, total, edge)
           p == Append(s, f)
           n == Len(s)
           x == Left(terms[MaxDepth - n][f.object], f.next)
           L == Ledger(terms, s)
           M == Ledger(terms, p)
<1>1. s \in Seq(Frame) /\ n \in Nat /\ n <= MaxDepth
  BY DEF Looping
<1>2. p \in Seq(Frame) /\ Len(p) = n + 1 /\ p[n + 1] = f /\ \A j \in 1 .. n : p[j] = s[j]
  BY <1>1, AppendProperties
<1>3. \A j \in 1 .. n + 1 : j \in 1 .. n \/ j = n + 1
  BY <1>1
<1>4. Looping(h, p)
  <2> HIDE DEF p, n
  <2>1. Len(p) <= MaxDepth + 1
    BY <1>1, <1>2, DepthIsNat
  <2>2. \A j \in 1 .. n : s[j].next <= Len(h[s[j].object].children) + 1
    BY DEF Looping, n
  <2>3. \A j \in 1 .. n + 1 : p[j].next <= Len(h[p[j].object].children) + 1
    BY <1>2, <1>3, <2>2
  <2>. QED  BY <1>2, <2>1, <2>3 DEF Looping
<1>5. L \in Seq(Nat) /\ Len(L) = n
  BY LedgerFacts
<1>6. M \in Seq(Nat) /\ Len(M) = n + 1
  <2> HIDE DEF p
  <2>. QED  BY <1>2, <1>4, LedgerFacts
<1> HIDE DEF terms, p, n
<1>7. \A j \in 1 .. n : L[j] = Left(terms[MaxDepth + 1 - j][s[j].object], s[j].next)
  BY DEF Ledger, n
<1>8. \A j \in 1 .. n + 1 : M[j] = Left(terms[MaxDepth + 1 - j][p[j].object], p[j].next)
  BY <1>2 DEF Ledger
<1>9. MaxDepth + 1 - (n + 1) = MaxDepth - n /\ n + 1 \in 1 .. n + 1 /\ \A j \in 1 .. n : j \in 1 .. n + 1
  BY <1>1, DepthIsNat
<1>10. M[n + 1] = x
  BY <1>2, <1>8, <1>9
<1>11. \A j \in 1 .. n : M[j] = L[j]
  BY <1>2, <1>7, <1>8, <1>9
<1> HIDE DEF L, M, x
<1>12. x \in Nat
  BY <1>1, <1>6, <1>9, <1>10, ElementOfSeq
<1>13. M = Append(L, x)
  <2>1. Append(L, x) \in Seq(Nat) /\ Len(Append(L, x)) = n + 1 /\ Append(L, x)[n + 1] = x
        /\ \A j \in 1 .. n : Append(L, x)[j] = L[j]
    BY <1>5, <1>12, AppendProperties
  <2>2. \A j \in 1 .. n + 1 : M[j] = Append(L, x)[j]
    BY <1>3, <1>10, <1>11, <2>1
  <2> DEFINE A == Append(L, x)
  <2>3. A \in Seq(Nat) /\ Len(A) = n + 1
    BY <2>1
  <2>4. \A j \in 1 .. n + 1 : M[j] = A[j]
    BY <2>2
  <2> HIDE DEF A
  <2>5. M = A
    BY <1>6, <2>3, <2>4, SeqEqual
  <2>. QED  BY <2>5 DEF A
<1>14. SumOf(M) = SumOf(L) + x
  BY <1>5, <1>12, <1>13, SumOfAppend
<1>15. SumOf(L) \in Nat
  <2>1. 0 \in 0 .. Len(L)
    BY <1>1, <1>5
  <2>. QED  BY <1>5, <2>1, SumsGrow
<1>. QED  BY <1>4, <1>12, <1>14, <1>15 DEF terms, p, n, L, M, x

-----------------------------------------------------------------------------
(* Where a walk is, and what it has charged.                               *)

(* What of the text is charged with the key of a child, and what with the  *)
(* value itself, by walker w.                                              *)
EdgeOf(h, w) ==
    [o \in Objects |-> [i \in 1 .. Len(h[o].children) |->
        IF w = "gateway" /\ KeyWeights(h, o) # <<>> THEN KeyWeights(h, o)[i] ELSE 0]]
ShareOf(h, w) ==
    [o \in Objects |-> IF h[o].kind \in {"text", "number"} THEN h[o].weight
                       ELSE IF w = "checker" THEN SumOf(KeyWeights(h, o)) ELSE 0]

KeyIn(h, o, i) == IF h[o].keys = <<>> THEN NoKey ELSE h[o].keys[i]

(* A container that passes the checks made before the loop over it.        *)
Walkable(h, o, exact) ==
    h[o].kind \in Containers /\ (exact => h[o].exact) /\ Len(h[o].children) <= MaxItems

(* A walk from start stands at the innermost loop of s: each loop is over  *)
(* the container that the one around it came to last; what that one came   *)
(* to before is fine, as is the container if start is.                     *)
FrameStands(h, exact, start, s, j) ==
    LET o == s[j].object
        next == s[j].next
    IN /\ Walkable(h, o, exact)
       /\ \A i \in 1 .. next - 1 :
             /\ KeyFits(KeyIn(h, o, i), exact)
             /\ \/ h[o].children[i] \in Fine(h, exact)[MaxDepth + 1 - j]
                \/ j < Len(s) /\ i = next - 1
       /\ j < Len(s) => next > 1 /\ s[j + 1].object = h[o].children[next - 1]
       /\ start \in Fine(h, exact)[MaxDepth + 1] => o \in Fine(h, exact)[MaxDepth + 2 - j]

Stands(h, exact, start, s) ==
    /\ Looping(h, s)
    /\ s # <<>> => s[1].object = start
    /\ \A j \in 1 .. Len(s) : FrameStands(h, exact, start, s, j)

(* What is charged so far and what the loops have left is what the whole   *)
(* value adds up to.                                                       *)
Balanced(h, total, edge, top, s, charged) ==
    charged + SumOf(Ledger(Terms(h, total, edge), s)) = total[MaxDepth + 1][top]

NodesIn(h) == Unfolded(h, NodeOf)
TextIn(h)  == Unfolded(h, TextOf(h))

LEMMA EmptyStands ==
    ASSUME NEW h, NEW exact, NEW start
    PROVE  Looping(h, <<>>) /\ Stands(h, exact, start, <<>>)
<1>1. <<>> \in Seq(Frame) /\ Len(<<>>) = 0
  OBVIOUS
<1>. QED  BY <1>1, DepthIsNat DEF Looping, Stands

(* A stack is its innermost loop on top of the others.                     *)
LEMMA LoopOnTop ==
    ASSUME NEW h \in Heaps, NEW s, Looping(h, s), s # <<>>
    PROVE  /\ Looping(h, Front(s)) /\ Len(Front(s)) = Len(s) - 1
           /\ s = Append(Front(s), Last(s))
           /\ Last(s) = s[Len(s)] /\ Last(s) \in Frame
           /\ Last(s).object \in Objects /\ Last(s).next \in Nat \ {0}
           /\ Last(s).next <= Len(h[Last(s).object].children) + 1
           /\ Len(s) \in 1 .. MaxDepth + 1
           /\ \A j \in 1 .. Len(s) - 1 : Front(s)[j] = s[j]
<1>1. s \in Seq(Frame) /\ Len(s) \in Nat /\ Len(s) <= MaxDepth + 1 /\ Len(s) > 0
  BY EmptySeq DEF Looping
<1>2. /\ Front(s) \in Seq(Frame) /\ Len(Front(s)) = Len(s) - 1 /\ Last(s) = s[Len(s)]
      /\ Last(s) \in Frame /\ \A j \in DOMAIN Front(s) : Front(s)[j] = s[j]
  BY <1>1, StackTop
<1>3. \A j \in 1 .. Len(s) - 1 : Front(s)[j] = s[j]
  BY <1>2
<1>4. Last(s).object \in Objects /\ Last(s).next \in Nat \ {0}
  BY <1>2 DEF Frame
<1>5. Last(s).next <= Len(h[Last(s).object].children) + 1
  BY <1>1, <1>2 DEF Looping
<1>6. Looping(h, Front(s))
  <2>1. Len(Front(s)) <= MaxDepth + 1
    BY <1>1, <1>2, DepthIsNat
  <2>2. \A j \in 1 .. Len(s) - 1 : j \in 1 .. Len(s)
    BY <1>1
  <2>. QED  BY <1>2, <1>3, <2>1, <2>2 DEF Looping
<1>7. s = Append(Front(s), Last(s))
  <2> DEFINE n == Len(s)
             F == Front(s)
             f == Last(s)
             A == Append(F, f)
  <2>1. n \in Nat /\ n > 0 /\ F \in Seq(Frame) /\ Len(F) = n - 1 /\ f \in Frame /\ f = s[n]
        /\ \A j \in 1 .. n - 1 : F[j] = s[j]
    BY <1>1, <1>2, <1>3
  <2> HIDE DEF n, F, f
  <2>2. A \in Seq(Frame) /\ Len(A) = n /\ A[n] = f /\ \A j \in 1 .. n - 1 : A[j] = F[j]
    BY <2>1, AppendProperties
  <2> HIDE DEF A
  <2>3. ASSUME NEW j \in 1 .. n PROVE s[j] = A[j]
    <3>1. j = n \/ j \in 1 .. n - 1
      BY <2>1
    <3>. QED  BY <2>1, <2>2, <3>1
  <2>4. s = A
    BY <1>1, <2>2, <2>3, SeqEqual DEF n
  <2>. QED  BY <2>4 DEF A, F, f
<1>8. Len(s) \in 1 .. MaxDepth + 1
  BY <1>1, DepthIsNat
<1>. QED  BY <1>2, <1>3, <1>4, <1>5, <1>6, <1>7, <1>8

(* The stack whose innermost loop goes on.                                 *)
Moved(s) == Append(Front(s), [object |-> Last(s).object, next |-> Last(s).next + 1])

LEMMA MovedLoop ==
    ASSUME NEW h \in Heaps, NEW s, Looping(h, s), s # <<>>,
           Last(s).next <= Len(h[Last(s).object].children)
    PROVE  /\ Looping(h, Moved(s)) /\ Len(Moved(s)) = Len(s)
           /\ \A j \in 1 .. Len(s) - 1 : Moved(s)[j] = s[j]
           /\ Moved(s)[Len(s)].object = Last(s).object
           /\ Moved(s)[Len(s)].next = Last(s).next + 1
<1> DEFINE f == [object |-> Last(s).object, next |-> Last(s).next + 1]
<1>1. /\ Last(s).object \in Objects /\ Last(s).next \in Nat \ {0}
      /\ Len(s) \in 1 .. MaxDepth + 1
  BY LoopOnTop
<1>2. Len(h[Last(s).object].children) \in Nat
  BY <1>1, HeapFacts
<1>3. f \in Frame /\ f.object = Last(s).object /\ f.next = Last(s).next + 1
  BY <1>1 DEF Frame
<1>4. s \in Seq(Frame) /\ Len(s) <= MaxDepth + 1
      /\ \A j \in 1 .. Len(s) : s[j].next <= Len(h[s[j].object].children) + 1
  BY DEF Looping
<1>5. f.next <= Len(h[f.object].children) + 1
  BY <1>1, <1>2, <1>3
<1> HIDE DEF f
<1>6. /\ Append(Front(s), f) \in Seq(Frame) /\ Len(Append(Front(s), f)) = Len(s)
      /\ \A j \in 1 .. Len(s) - 1 : Append(Front(s), f)[j] = s[j]
      /\ Append(Front(s), f)[Len(s)] = f
  BY <1>3, <1>4, ReplaceTop
<1>7. Moved(s) = Append(Front(s), f)
  BY DEF Moved, f
<1> DEFINE p == Moved(s)
           n == Len(s)
<1>8. n \in 1 .. MaxDepth + 1 /\ p \in Seq(Frame) /\ Len(p) = n /\ p[n] = f
      /\ \A j \in 1 .. n - 1 : p[j] = s[j]
  BY <1>1, <1>6, <1>7
<1>9. n <= MaxDepth + 1 /\ \A j \in 1 .. n : s[j].next <= Len(h[s[j].object].children) + 1
  BY <1>4
<1> HIDE DEF p, n
<1>10. \A j \in 1 .. n : j = n \/ j \in 1 .. n - 1
  BY <1>8
<1>11. \A j \in 1 .. n : p[j].next <= Len(h[p[j].object].children) + 1
  BY <1>5, <1>8, <1>9, <1>10
<1>12. Looping(h, p)
  BY <1>8, <1>9, <1>11 DEF Looping
<1>. QED  BY <1>3, <1>8, <1>12 DEF p, n

-----------------------------------------------------------------------------
(* The budgets.                                                            *)

(* A value charged when it is entered, and nothing before.                 *)
LEMMA PlainTariff ==
    ASSUME NEW h \in Heaps, NEW own \in [Objects -> Nat], NEW w, w # "gateway"
    PROVE  IsTariff(h, Unfolded(h, own), own, EdgeOf(h, w))
<1> DEFINE total == Unfolded(h, own)
           edge == EdgeOf(h, w)
<1>1. /\ total \in [0 .. MaxDepth + 1 -> [Objects -> Nat]]
      /\ \A m \in 0 .. MaxDepth : \A o \in Objects :
            total[m + 1][o] = own[o] + SumOf([i \in DOMAIN h[o].children |->
                                                 total[m][h[o].children[i]]])
  BY UnfoldedLevels
<1>2. \A o \in Objects : \A i \in 1 .. Len(h[o].children) : edge[o][i] = 0
  BY DEF EdgeOf
<1> HIDE DEF total, edge
<1>3. ASSUME NEW m \in 0 .. MaxDepth, NEW o \in Objects
      PROVE  [i \in DOMAIN h[o].children |-> total[m][h[o].children[i]]]
               = Terms(h, total, edge)[m][o]
  <2> DEFINE c == h[o].children
  <2>1. c \in Seq(Objects) /\ \A i \in 1 .. Len(c) : c[i] \in Objects
    BY HeapFacts
  <2>2. m \in 0 .. MaxDepth + 1
    BY DepthIsNat
  <2>3. \A i \in 1 .. Len(c) : edge[o][i] = 0
    BY <1>2
  <2>4. Terms(h, total, edge)[m][o] = [i \in 1 .. Len(c) |-> edge[o][i] + total[m][c[i]]]
    BY DEF Terms
  <2> HIDE DEF c
  <2>5. DOMAIN c = 1 .. Len(c)
    BY <2>1
  <2>6. ASSUME NEW i \in 1 .. Len(c) PROVE edge[o][i] + total[m][c[i]] = total[m][c[i]]
    <3>1. total[m] \in [Objects -> Nat] /\ c[i] \in Objects
      BY <1>1, <2>1, <2>2
    <3>2. total[m][c[i]] \in Nat /\ edge[o][i] = 0
      BY <2>3, <3>1
    <3>. QED  BY <3>2
  <2>7. [i \in DOMAIN c |-> total[m][c[i]]] = Terms(h, total, edge)[m][o]
    BY <2>4, <2>5, <2>6
  <2>. QED  BY <2>7 DEF c
<1>4. ASSUME NEW m \in 0 .. MaxDepth, NEW o \in Objects
      PROVE  total[m + 1][o] = own[o] + SumOf(Terms(h, total, edge)[m][o])
  <2> DEFINE parts == [i \in DOMAIN h[o].children |-> total[m][h[o].children[i]]]
  <2>1. total[m + 1][o] = own[o] + SumOf(parts)
    BY <1>1
  <2>2. parts = Terms(h, total, edge)[m][o]
    BY <1>3
  <2> HIDE DEF parts
  <2>. QED  BY <2>1, <2>2
<1>5. IsTariff(h, total, own, edge)
  BY <1>1, <1>2, <1>4 DEF IsTariff
<1>. QED  BY <1>5 DEF total, edge

LEMMA SharesAreNat ==
    ASSUME NEW h \in Heaps
    PROVE  /\ NodeOf \in [Objects -> Nat] /\ TextOf(h) \in [Objects -> Nat]
           /\ \A w : ShareOf(h, w) \in [Objects -> Nat]
<1>1. ASSUME NEW o \in Objects PROVE SumOf(KeyWeights(h, o)) \in Nat /\ h[o].weight \in Nat
  <2> DEFINE keys == KeyWeights(h, o)
  <2>1. keys \in Seq(Nat) /\ h[o].weight \in Nat
    BY HeapFacts, WeightFacts
  <2> HIDE DEF keys
  <2>2. 0 \in 0 .. Len(keys)
    BY <2>1
  <2>3. SumOf(keys) \in Nat
    BY <2>1, <2>2, SumsGrow
  <2>. QED  BY <2>1, <2>3 DEF keys
<1>. QED  BY <1>1 DEF NodeOf, TextOf, ShareOf

LEMMA NodesTariff ==
    ASSUME NEW h \in Heaps
    PROVE  IsTariff(h, NodesIn(h), NodeOf, EdgeOf(h, "none"))
BY SharesAreNat, PlainTariff DEF NodesIn

(* The checker charges the keys of a dict with the dict, ...               *)
LEMMA CheckerTariff ==
    ASSUME NEW h \in Heaps
    PROVE  IsTariff(h, TextIn(h), ShareOf(h, "checker"), EdgeOf(h, "checker"))
<1>1. ASSUME NEW o \in Objects PROVE TextOf(h)[o] = ShareOf(h, "checker")[o]
  <2>1. /\ h[o].kind \notin Containers => KeyWeights(h, o) = <<>>
        /\ h[o].weight \in Nat
    BY HeapFacts, WeightFacts
  <2>2. h[o].kind \in {"text", "number"} => KeyWeights(h, o) = <<>>
    BY <2>1 DEF Containers
  <2>3. ShareOf(h, "checker")[o] \in Nat
    BY SharesAreNat
  <2>4. ShareOf(h, "checker")[o] = IF h[o].kind \in {"text", "number"} THEN h[o].weight
                                   ELSE SumOf(KeyWeights(h, o))
    BY DEF ShareOf
  <2>5. TextOf(h)[o] = (IF h[o].kind \in {"text", "number"} THEN h[o].weight ELSE 0)
                         + SumOf(KeyWeights(h, o))
    BY DEF TextOf
  <2>6. CASE h[o].kind \in {"text", "number"}
    <3>1. SumOf(KeyWeights(h, o)) = 0
      BY <2>2, <2>6, SumOfNone
    <3>. QED  BY <2>1, <2>4, <2>5, <2>6, <3>1
  <2>7. CASE h[o].kind \notin {"text", "number"}
    <3>1. SumOf(KeyWeights(h, o)) \in Nat /\ ShareOf(h, "checker")[o] = SumOf(KeyWeights(h, o))
      BY <2>3, <2>4, <2>7
    <3>. QED  BY <2>5, <2>7, <3>1
  <2>. QED  BY <2>6, <2>7
<1>2. TextOf(h) \in [Objects -> Nat] /\ ShareOf(h, "checker") \in [Objects -> Nat]
  BY SharesAreNat
<1>3. TextOf(h) = ShareOf(h, "checker")
  BY <1>1, <1>2
<1>4. IsTariff(h, Unfolded(h, TextOf(h)), TextOf(h), EdgeOf(h, "checker"))
  BY <1>2, PlainTariff
<1>. QED  BY <1>3, <1>4 DEF TextIn

(* ... and the gateway each with its value: it comes to the same.          *)
LEMMA GatewayTariff ==
    ASSUME NEW h \in Heaps
    PROVE  IsTariff(h, TextIn(h), ShareOf(h, "gateway"), EdgeOf(h, "gateway"))
<1> DEFINE total == Unfolded(h, TextOf(h))
           own == ShareOf(h, "gateway")
           edge == EdgeOf(h, "gateway")
<1>1. TextOf(h) \in [Objects -> Nat] /\ own \in [Objects -> Nat]
  BY SharesAreNat
<1>2. /\ total \in [0 .. MaxDepth + 1 -> [Objects -> Nat]]
      /\ \A m \in 0 .. MaxDepth : \A o \in Objects :
            total[m + 1][o] = TextOf(h)[o] + SumOf([i \in DOMAIN h[o].children |->
                                                       total[m][h[o].children[i]]])
  BY <1>1, UnfoldedLevels
<1>3. ASSUME NEW o \in Objects
      PROVE  TextOf(h)[o] = own[o] + SumOf(KeyWeights(h, o)) /\ own[o] \in Nat
  BY <1>1 DEF TextOf, ShareOf
<1>4. ASSUME NEW o \in Objects, NEW i \in 1 .. Len(h[o].children)
      PROVE  /\ edge[o][i] = IF KeyWeights(h, o) = <<>> THEN 0 ELSE KeyWeights(h, o)[i]
             /\ edge[o][i] \in Nat
  <2> DEFINE keys == KeyWeights(h, o)
  <2>1. keys \in Seq(Nat) /\ Len(keys) \in {0, Len(h[o].children)}
    BY WeightFacts
  <2>2. edge[o][i] = IF keys = <<>> THEN 0 ELSE keys[i]
    BY DEF EdgeOf
  <2> HIDE DEF keys, edge
  <2>3. keys # <<>> => i \in 1 .. Len(keys)
    BY <2>1, EmptySeq
  <2>4. keys # <<>> => keys[i] \in Nat
    BY <2>1, <2>3, ElementOfSeq
  <2>. QED  BY <2>2, <2>4 DEF keys
<1> HIDE DEF total, own, edge
<1>5. ASSUME NEW m \in 0 .. MaxDepth, NEW o \in Objects
      PROVE  total[m + 1][o] = own[o] + SumOf(Terms(h, total, edge)[m][o])
  <2> DEFINE c == h[o].children
             keys == KeyWeights(h, o)
             n == Len(c)
             parts == [i \in DOMAIN c |-> total[m][c[i]]]
             t == Terms(h, total, edge)[m][o]
  <2>1. /\ c \in Seq(Objects) /\ n \in Nat /\ \A i \in 1 .. n : c[i] \in Objects
        /\ keys \in Seq(Nat) /\ Len(keys) \in {0, n}
    BY HeapFacts, WeightFacts
  <2>2. m \in 0 .. MaxDepth + 1
    BY DepthIsNat
  <2>3. t = [i \in 1 .. n |-> edge[o][i] + total[m][c[i]]]
    BY DEF Terms
  <2>4. \A i \in 1 .. n : edge[o][i] = (IF keys = <<>> THEN 0 ELSE keys[i]) /\ edge[o][i] \in Nat
    BY <1>4
  <2>5. total[m + 1][o] = own[o] + SumOf(keys) + SumOf(parts) /\ own[o] \in Nat
    BY <1>2, <1>3
  <2> HIDE DEF c, keys, n, t
  <2>6. DOMAIN c = 1 .. n
    BY <2>1 DEF n
  <2>7. \A i \in 1 .. n : total[m][c[i]] \in Nat
    BY <1>2, <2>1, <2>2
  <2>8. /\ parts \in Seq(Nat) /\ Len(parts) = n
        /\ \A i \in 1 .. n : parts[i] = total[m][c[i]] /\ parts[i] \in Nat
    <3>1. parts \in [1 .. n -> Nat] /\ \A i \in 1 .. n : parts[i] = total[m][c[i]]
      BY <2>6, <2>7
    <3> HIDE DEF parts
    <3>2. parts \in Seq(Nat) /\ Len(parts) = n
      BY <2>1, <3>1
    <3>. QED  BY <3>1, <3>2
  <2>9. t \in Seq(Nat) /\ Len(t) = n /\ \A i \in 1 .. n : t[i] = edge[o][i] + total[m][c[i]]
    <3>1. t \in [1 .. n -> Nat]
      BY <2>3, <2>4, <2>7
    <3>2. t \in Seq(Nat) /\ Len(t) = n
      BY <2>1, <3>1
    <3>. QED  BY <2>3, <3>2
  <2> HIDE DEF parts
  <2>10. SumOf(t) = SumOf(keys) + SumOf(parts)
    <3>1. CASE keys = <<>>
      <4>1. ASSUME NEW i \in 1 .. n PROVE t[i] = parts[i]
        <5>1. edge[o][i] = 0
          BY <2>4, <3>1
        <5>2. t[i] = edge[o][i] + parts[i] /\ parts[i] \in Nat
          BY <2>8, <2>9
        <5>. QED  BY <5>1, <5>2
      <4>2. t = parts
        BY <2>8, <2>9, <4>1, SeqEqual
      <4>3. SumOf(keys) = 0
        BY <3>1, SumOfNone
      <4>4. SumOf(parts) \in Nat
        <5>1. 0 \in 0 .. Len(parts)
          BY <2>1, <2>8
        <5>. QED  BY <2>8, <5>1, SumsGrow
      <4>. QED  BY <4>2, <4>3, <4>4
    <3>2. CASE keys # <<>>
      <4>1. Len(keys) = n
        BY <2>1, <3>2, EmptySeq
      <4>2. ASSUME NEW i \in 1 .. Len(keys) PROVE t[i] = keys[i] + parts[i]
        <5>1. i \in 1 .. n
          BY <4>1
        <5>2. edge[o][i] = keys[i]
          BY <2>4, <3>2, <5>1
        <5>. QED  BY <2>8, <2>9, <5>1, <5>2
      <4>3. /\ keys \in Seq(Nat) /\ parts \in Seq(Nat) /\ t \in Seq(Nat)
            /\ Len(parts) = Len(keys) /\ Len(t) = Len(keys)
        BY <2>1, <2>8, <2>9, <4>1
      <4>. QED  BY <4>2, <4>3, SumOfPairs
    <3>. QED  BY <3>1, <3>2
  <2>11. SumOf(keys) \in Nat /\ SumOf(parts) \in Nat
    <3>1. 0 \in 0 .. Len(parts) /\ 0 \in 0 .. Len(keys)
      BY <2>1, <2>8
    <3>. QED  BY <2>1, <2>8, <3>1, SumsGrow
  <2>12. total[m + 1][o] = own[o] + SumOf(t)
    BY <2>5, <2>10, <2>11
  <2>. QED  BY <2>12 DEF t
<1>6. IsTariff(h, total, own, edge)
  BY <1>1, <1>2, <1>4, <1>5 DEF IsTariff
<1>. QED  BY <1>6 DEF total, own, edge, TextIn

(* The first value is charged, and its loop opened.                        *)
LEMMA Opened ==
    ASSUME NEW h \in Heaps, NEW total, NEW own, NEW edge, IsTariff(h, total, own, edge),
           NEW o \in Objects
    PROVE  /\ own[o] <= total[MaxDepth + 1][o]
           /\ h[o].kind \notin Containers => own[o] = total[MaxDepth + 1][o]
           /\ Balanced(h, total, edge, o, Append(<<>>, [object |-> o, next |-> 1]), own[o])
<1> DEFINE f == [object |-> o, next |-> 1]
           terms == Terms(h, total, edge)
           t == terms[MaxDepth][o]
<1>1. MaxDepth \in 0 .. MaxDepth /\ MaxDepth \in Nat
  BY DepthIsNat
<1>2. total[MaxDepth + 1][o] = own[o] + SumOf(t) /\ own[o] \in Nat
  BY <1>1 DEF IsTariff
<1>3. t \in Seq(Nat) /\ Len(t) = Len(h[o].children)
  BY <1>1, TermsFacts
<1>4. Len(h[o].children) \in Nat /\ (h[o].kind \notin Containers => h[o].children = <<>>)
  BY HeapFacts
<1>5. f \in Frame /\ f.object = o /\ f.next = 1
  BY DEF Frame
<1>6. f.next <= Len(h[f.object].children) + 1
  BY <1>4, <1>5
<1> HIDE DEF f, t
<1>7. 1 \in 1 .. Len(t) + 1 /\ 0 \in 0 .. Len(t)
  BY <1>3, <1>4
<1>8. Left(t, 1) = SumOf(t) /\ SumOf(t) \in Nat
  BY <1>3, <1>7, LeftFacts, SumsGrow
<1>9. h[o].kind \notin Containers => SumOf(t) = 0
  <2>1. SUFFICES ASSUME h[o].kind \notin Containers PROVE SumOf(t) = 0
    OBVIOUS
  <2>2. Len(t) = 0
    BY <1>3, <1>4, <2>1
  <2>3. t = <<>>
    BY <1>3, <2>2, EmptySeq
  <2>. QED  BY <2>3, SumOfNone
<1>10. Looping(h, <<>>) /\ Len(<<>>) = 0 /\ Len(<<>>) <= MaxDepth
  BY <1>1, EmptyStands
<1>11. SumOf(Ledger(terms, Append(<<>>, f)))
         = SumOf(Ledger(terms, <<>>)) + Left(terms[MaxDepth - Len(<<>>)][f.object], f.next)
  <2> DEFINE e == <<>>
  <2>1. Looping(h, e) /\ Len(e) <= MaxDepth
    BY <1>10
  <2> HIDE DEF e, terms
  <2>2. SumOf(Ledger(terms, Append(e, f)))
          = SumOf(Ledger(terms, e)) + Left(terms[MaxDepth - Len(e)][f.object], f.next)
    BY <1>5, <1>6, <2>1, LedgerPushed DEF terms
  <2>. QED  BY <2>2 DEF e
<1>12. SumOf(Ledger(terms, <<>>)) = 0
  <2>1. Ledger(terms, <<>>) \in Seq(Nat) /\ Len(Ledger(terms, <<>>)) = 0
    BY <1>10, LedgerFacts
  <2> DEFINE L == Ledger(terms, <<>>)
  <2> HIDE DEF L
  <2>2. L = <<>>
    BY <2>1, EmptySeq DEF L
  <2>. QED  BY <2>2, SumOfNone DEF L
<1>13. MaxDepth - Len(<<>>) = MaxDepth
  BY <1>1, <1>10
<1>14. SumOf(Ledger(terms, Append(<<>>, f))) = SumOf(t)
  BY <1>5, <1>8, <1>11, <1>12, <1>13 DEF t
<1>15. own[o] + SumOf(Ledger(terms, Append(<<>>, f))) = total[MaxDepth + 1][o]
  BY <1>2, <1>14
<1>16. Balanced(h, total, edge, o, Append(<<>>, f), own[o])
  BY <1>15, SMTT(30) DEF Balanced
<1>. QED  BY <1>2, <1>8, <1>9, <1>16 DEF f

(* The next child is charged, within the total; its own loop, if it has    *)
(* one, is opened.                                                         *)
LEMMA Charged ==
    ASSUME NEW h \in Heaps, NEW total, NEW own, NEW edge, IsTariff(h, total, own, edge),
           NEW s, Looping(h, s), s # <<>>, Len(s) <= MaxDepth,
           Last(s).next <= Len(h[Last(s).object].children),
           NEW top, NEW charged \in Nat, Balanced(h, total, edge, top, s, charged),
           NEW c, c = h[Last(s).object].children[Last(s).next],
           NEW more, more = edge[Last(s).object][Last(s).next] + own[c]
    PROVE  /\ more \in Nat /\ charged + more <= total[MaxDepth + 1][top]
           /\ h[c].kind \notin Containers =>
                 Balanced(h, total, edge, top, Moved(s), charged + more)
           /\ Balanced(h, total, edge, top, Append(Moved(s), [object |-> c, next |-> 1]),
                       charged + more)
<1> DEFINE F == Front(s)
           o == Last(s).object
           k == Last(s).next
           g == [object |-> o, next |-> k + 1]
           f == [object |-> c, next |-> 1]
           n == Len(s)
           terms == Terms(h, total, edge)
           t == terms[MaxDepth + 1 - n][o]
           u == terms[MaxDepth - n][c]
<1>1. /\ Looping(h, F) /\ Len(F) = n - 1 /\ s = Append(F, Last(s)) /\ n \in 1 .. MaxDepth + 1
      /\ o \in Objects /\ k \in Nat \ {0} /\ Last(s) \in Frame
  BY LoopOnTop
<1>2. Len(h[o].children) \in Nat /\ \A i \in 1 .. Len(h[o].children) : h[o].children[i] \in Objects
  BY <1>1, HeapFacts
<1>3. k \in 1 .. Len(h[o].children) /\ c \in Objects
  BY <1>1, <1>2
<1>4. MaxDepth \in Nat /\ n \in Nat /\ n <= MaxDepth
      /\ MaxDepth - n \in 0 .. MaxDepth /\ MaxDepth + 1 - n \in 0 .. MaxDepth
      /\ MaxDepth - (n - 1) = MaxDepth + 1 - n /\ n - 1 <= MaxDepth
      /\ (MaxDepth - n) + 1 = MaxDepth + 1 - n
  BY <1>1, DepthIsNat, SMTT(30)
<1>5. total[MaxDepth + 1 - n][c] = own[c] + SumOf(u) /\ own[c] \in Nat
  <2> DEFINE m == MaxDepth - n
  <2>1. m \in 0 .. MaxDepth /\ m + 1 = MaxDepth + 1 - n
    BY <1>4, SMTT(30)
  <2> HIDE DEF m
  <2>2. total[m + 1][c] = own[c] + SumOf(Terms(h, total, edge)[m][c])
    BY <1>3, <2>1 DEF IsTariff
  <2>3. own[c] \in Nat
    BY <1>3 DEF IsTariff
  <2>. QED  BY <2>1, <2>2, <2>3, Zenon DEF m
<1>6. t \in Seq(Nat) /\ Len(t) = Len(h[o].children)
      /\ t[k] = edge[o][k] + total[MaxDepth + 1 - n][c]
  <2> DEFINE m == MaxDepth + 1 - n
  <2>1. m \in 0 .. MaxDepth /\ o \in Objects /\ k \in 1 .. Len(h[o].children)
        /\ c = h[o].children[k]
    BY <1>1, <1>3, <1>4
  <2> HIDE DEF m, o, k
  <2>2. /\ Terms(h, total, edge)[m][o] \in Seq(Nat)
        /\ Len(Terms(h, total, edge)[m][o]) = Len(h[o].children)
        /\ Terms(h, total, edge)[m][o][k] = edge[o][k] + total[m][c]
    BY <2>1, TermsFacts, SMTT(30)
  <2>. QED  BY <2>2 DEF m
<1>7. u \in Seq(Nat) /\ Len(u) = Len(h[c].children)
  <2> DEFINE m == MaxDepth - n
         d == c
  <2>1. m \in 0 .. MaxDepth /\ d \in Objects
    BY <1>3, <1>4
  <2> HIDE DEF m, d
  <2>2. /\ Terms(h, total, edge)[m][d] \in Seq(Nat)
        /\ Len(Terms(h, total, edge)[m][d]) = Len(h[d].children)
    BY <2>1, TermsFacts
  <2>. QED  BY <2>2 DEF m, d
<1>8. edge[o][k] \in Nat
  BY <1>1, <1>3, SMTT(30) DEF IsTariff
<1>9. /\ Len(h[c].children) \in Nat /\ Len(u) \in Nat
      /\ h[c].kind \notin Containers => h[c].children = <<>>
  BY <1>3, <1>7, HeapFacts, Zenon
<1>10. /\ g \in Frame /\ g.object = o /\ g.next = k + 1 /\ g.next <= Len(h[g.object].children) + 1
       /\ f \in Frame /\ f.object = c /\ f.next = 1 /\ f.next <= Len(h[f.object].children) + 1
       /\ Last(s).next <= Len(h[Last(s).object].children) + 1
  <2>1. k + 1 \in Nat \ {0} /\ k + 1 <= Len(h[o].children) + 1 /\ k <= Len(h[o].children) + 1
        /\ 1 <= Len(h[c].children) + 1
    <3> DEFINE a == Len(h[o].children)
               b == Len(h[c].children)
    <3>1. a \in Nat /\ b \in Nat /\ k \in 1 .. a
      BY <1>2, <1>3, <1>9, Zenon
    <3> HIDE DEF a, b, k
    <3>2. k + 1 \in Nat \ {0} /\ k + 1 <= a + 1 /\ k <= a + 1 /\ 1 <= b + 1
      BY <3>1
    <3>. QED  BY <3>2, SMTT(30) DEF a, b
  <2>2. g \in Frame /\ g.object = o /\ g.next = k + 1
    BY <1>1, <2>1 DEF Frame
  <2>3. f \in Frame /\ f.object = c /\ f.next = 1
    BY <1>3 DEF Frame
  <2>. QED  BY <2>1, <2>2, <2>3, SMTT(30)
<1>11. /\ Looping(h, Moved(s)) /\ Len(Moved(s)) = n /\ Moved(s) = Append(F, g)
  BY MovedLoop DEF Moved
<1>12. more = edge[o][k] + own[c] /\ charged + SumOf(Ledger(terms, s)) = total[MaxDepth + 1][top]
  BY DEF Balanced
<1>13. /\ Left(t, k) \in Nat /\ SumOf(Ledger(terms, F)) \in Nat
       /\ SumOf(Ledger(terms, s)) = SumOf(Ledger(terms, F)) + Left(t, k)
  <2> DEFINE l == Last(s)
  <2>1. /\ Looping(h, F) /\ Len(F) = n - 1 /\ Len(F) <= MaxDepth /\ l \in Frame
        /\ l.next <= Len(h[l.object].children) + 1
        /\ MaxDepth - Len(F) = MaxDepth + 1 - n /\ s = Append(F, l) /\ l.object = o /\ l.next = k
    BY <1>1, <1>4, <1>10, SMTT(30)
  <2> HIDE DEF l, F, terms, o, k, n
  <2>2. /\ Left(terms[MaxDepth - Len(F)][l.object], l.next) \in Nat
        /\ SumOf(Ledger(terms, F)) \in Nat
        /\ SumOf(Ledger(terms, Append(F, l)))
             = SumOf(Ledger(terms, F)) + Left(terms[MaxDepth - Len(F)][l.object], l.next)
    BY <2>1, LedgerPushed, SMTT(30) DEF terms
  <2>. QED  BY <2>1, <2>2, SMTT(30)
<1>14. SumOf(Ledger(terms, Moved(s))) = SumOf(Ledger(terms, F)) + Left(t, k + 1)
       /\ Left(t, k + 1) \in Nat
  <2>1. /\ Looping(h, F) /\ Len(F) <= MaxDepth /\ MaxDepth - Len(F) = MaxDepth + 1 - n
        /\ g \in Frame /\ g.next <= Len(h[g.object].children) + 1
    BY <1>1, <1>4, <1>10
  <2> HIDE DEF F, g, terms, o, k, n
  <2>2. /\ Left(terms[MaxDepth - Len(F)][g.object], g.next) \in Nat
        /\ SumOf(Ledger(terms, Append(F, g)))
             = SumOf(Ledger(terms, F)) + Left(terms[MaxDepth - Len(F)][g.object], g.next)
    BY <2>1, LedgerPushed, SMTT(30) DEF terms
  <2>. QED  BY <1>10, <1>11, <2>1, <2>2
<1>15. SumOf(Ledger(terms, Append(Moved(s), f))) = SumOf(Ledger(terms, Moved(s))) + Left(u, 1)
  <2> DEFINE M == Moved(s)
  <2>1. Looping(h, M) /\ Len(M) = n /\ Len(M) <= MaxDepth
        /\ f \in Frame /\ f.next <= Len(h[f.object].children) + 1
    BY <1>4, <1>10, <1>11
  <2> HIDE DEF M, f, terms, n
  <2>2. SumOf(Ledger(terms, Append(M, f)))
             = SumOf(Ledger(terms, M)) + Left(terms[MaxDepth - Len(M)][f.object], f.next)
    BY <2>1, LedgerPushed, SMTT(30) DEF terms
  <2>3. SumOf(Ledger(terms, Append(M, f))) = SumOf(Ledger(terms, M)) + Left(u, 1)
    BY <1>10, <2>1, <2>2, Zenon
  <2>. QED  BY <2>3, SMTT(30) DEF M
<1> HIDE DEF F, o, k, g, f, n, terms, t, u
<1>16. Left(t, k) = t[k] + Left(t, k + 1)
  <2>1. k \in 1 .. Len(t) + 1 /\ k <= Len(t)
    BY <1>2, <1>3, <1>6, SMTT(30)
  <2>. QED  BY <1>6, <2>1, LeftFacts
<1>17. Left(u, 1) = SumOf(u) /\ SumOf(u) \in Nat /\ (h[c].kind \notin Containers => SumOf(u) = 0)
  <2>1. 1 \in 1 .. Len(u) + 1 /\ 0 \in 0 .. Len(u)
    <3> DEFINE l == Len(u)
    <3>1. l \in Nat
      BY <1>9
    <3> HIDE DEF l
    <3>2. 1 \in 1 .. l + 1 /\ 0 \in 0 .. l
      BY <3>1, SMTT(30)
    <3>. QED  BY <3>2, SMTT(30) DEF l
  <2>2. Left(u, 1) = SumOf(u) /\ SumOf(u) \in Nat
    BY <1>7, <2>1, LeftFacts, SumsGrow
  <2>3. ASSUME h[c].kind \notin Containers PROVE SumOf(u) = 0
    <3>1. Len(u) = 0
      BY <1>7, <1>9, <2>3, Zenon
    <3>2. u = <<>>
      BY <1>7, <3>1, EmptySeq, SMTT(30)
    <3>. QED  BY <3>2, SumOfNone, SMTT(30)
  <2>. QED  BY <2>2, <2>3
<1> DEFINE e == edge[o][k]
           w == own[c]
           a == SumOf(Ledger(terms, F))
           b == Left(t, k + 1)
           x == SumOf(u)
           all == total[MaxDepth + 1][top]
<1>18. e \in Nat /\ w \in Nat /\ a \in Nat /\ b \in Nat /\ x \in Nat /\ more = e + w
  BY <1>5, <1>8, <1>12, <1>13, <1>14, <1>17, ZenonT(30)
<1>19. charged + (a + (e + (w + x) + b)) = all
  BY <1>5, <1>6, <1>12, <1>13, <1>16, Zenon
<1>20. /\ SumOf(Ledger(terms, Moved(s))) = a + b
       /\ SumOf(Ledger(terms, Append(Moved(s), f))) = a + b + x
  BY <1>14, <1>15, <1>17, SMTT(30)
<1>21. h[c].kind \notin Containers => x = 0
  BY <1>17, SMTT(30)
<1> HIDE DEF e, w, a, b, x, all
<1>22. more \in Nat /\ charged + more <= all
  BY <1>18, <1>19, SMTT(30)
<1>23. (charged + more) + SumOf(Ledger(terms, Append(Moved(s), f))) = all
  BY <1>18, <1>19, <1>20, SMTT(30)
<1>24. ASSUME h[c].kind \notin Containers
       PROVE  (charged + more) + SumOf(Ledger(terms, Moved(s))) = all
  <2> DEFINE y == SumOf(Ledger(terms, Moved(s)))
  <2>1. x = 0 /\ y = a + b
    BY <1>20, <1>21, <1>24
  <2> HIDE DEF y
  <2>2. (charged + more) + y = all
    BY <1>18, <1>19, <2>1, SMTT(30)
  <2>. QED  BY <2>2 DEF y
<1>. QED  BY <1>22, <1>23, <1>24, Zenon DEF Balanced, terms, f, all

(* A loop that is over has nothing left.                                   *)
LEMMA Closed ==
    ASSUME NEW h \in Heaps, NEW total, NEW own, NEW edge, IsTariff(h, total, own, edge),
           NEW s, Looping(h, s), s # <<>>,
           Last(s).next > Len(h[Last(s).object].children),
           NEW top, NEW charged \in Nat, Balanced(h, total, edge, top, s, charged)
    PROVE  /\ Balanced(h, total, edge, top, Front(s), charged)
           /\ Len(s) = 1 => charged = total[MaxDepth + 1][top]
<1> DEFINE F == Front(s)
           l == Last(s)
           n == Len(s)
           terms == Terms(h, total, edge)
           t == terms[MaxDepth + 1 - n][l.object]
<1>1. /\ Looping(h, F) /\ Len(F) = n - 1 /\ s = Append(F, l) /\ n \in 1 .. MaxDepth + 1
      /\ l.object \in Objects /\ l.next \in Nat \ {0} /\ l \in Frame
      /\ l.next <= Len(h[l.object].children) + 1
  BY LoopOnTop
<1>2. Len(h[l.object].children) \in Nat
  BY <1>1, HeapFacts
<1>3. l.next = Len(h[l.object].children) + 1
  BY <1>1, <1>2, SMTT(30)
<1>4. MaxDepth \in Nat /\ n \in Nat /\ MaxDepth + 1 - n \in 0 .. MaxDepth
      /\ MaxDepth - Len(F) = MaxDepth + 1 - n /\ Len(F) <= MaxDepth
  BY <1>1, DepthIsNat
<1>5. t \in Seq(Nat) /\ Len(t) = Len(h[l.object].children)
  BY <1>1, <1>4, TermsFacts
<1>6. charged + SumOf(Ledger(terms, s)) = total[MaxDepth + 1][top]
  BY DEF Balanced
<1> HIDE DEF F, l, n, terms
<1>7. /\ SumOf(Ledger(terms, F)) \in Nat
      /\ SumOf(Ledger(terms, Append(F, l)))
           = SumOf(Ledger(terms, F)) + Left(terms[MaxDepth - Len(F)][l.object], l.next)
  BY <1>1, <1>4, LedgerPushed DEF terms
<1>8. Left(terms[MaxDepth - Len(F)][l.object], l.next) = Left(t, l.next)
  BY <1>4
<1> HIDE DEF t
<1>9. Left(t, l.next) = 0
  <2>1. l.next \in 1 .. Len(t) + 1 /\ l.next = Len(t) + 1
    BY <1>2, <1>3, <1>5
  <2>. QED  BY <1>5, <2>1, LeftFacts
<1>10. charged + SumOf(Ledger(terms, F)) = total[MaxDepth + 1][top]
  BY <1>1, <1>6, <1>7, <1>8, <1>9
<1>11. ASSUME n = 1 PROVE charged = total[MaxDepth + 1][top]
  <2>1. Ledger(terms, F) \in Seq(Nat) /\ Len(Ledger(terms, F)) = 0
    BY <1>1, <1>11, LedgerFacts DEF terms
  <2> DEFINE L == Ledger(terms, F)
  <2> HIDE DEF L
  <2>2. L = <<>>
    BY <2>1, EmptySeq DEF L
  <2>3. SumOf(Ledger(terms, F)) = 0
    BY <2>2, SumOfNone DEF L
  <2>. QED  BY <1>10, <2>3
<1>. QED  BY <1>10, <1>11 DEF Balanced, terms, F, n

-----------------------------------------------------------------------------
(* Where a walk stands.                                                    *)

LEMMA FineOfChildren ==
    ASSUME NEW h \in Heaps, NEW exact, NEW o \in Objects, NEW m \in 0 .. MaxDepth
    PROVE  o \in Fine(h, exact)[m + 1]
             <=> /\ FineAlone(h, o, exact)
                 /\ \A i \in 1 .. Len(h[o].children) : h[o].children[i] \in Fine(h, exact)[m]
<1> DEFINE c == h[o].children
           F == Fine(h, exact)
<1>1. F[m + 1] = {x \in Objects : FineAlone(h, x, exact) /\ Range(h[x].children) \subseteq F[m]}
  BY FineLevels
<1>2. c \in Seq(Objects)
  BY HeapFacts
<1>3. o \in F[m + 1] <=> FineAlone(h, o, exact) /\ Range(c) \subseteq F[m]
  BY <1>1
<1> HIDE DEF c, F
<1>4. Range(c) \subseteq F[m] <=> \A i \in 1 .. Len(c) : c[i] \in F[m]
  BY <1>2 DEF Range
<1>. QED  BY <1>3, <1>4 DEF c, F

(* What the loops around the innermost one have come to stays.             *)
LEMMA OuterFrame ==
    ASSUME NEW h, NEW exact, NEW start, NEW s, NEW p, NEW j,
           FrameStands(h, exact, start, s, j), j < Len(s), j < Len(p),
           p[j] = s[j], p[j + 1].object = s[j + 1].object
    PROVE  FrameStands(h, exact, start, p, j)
BY DEF FrameStands

(* The next child of the innermost loop.                                   *)
LEMMA NextChild ==
    ASSUME NEW h \in Heaps, NEW exact, NEW start, NEW s, Stands(h, exact, start, s), s # <<>>,
           Last(s).next <= Len(h[Last(s).object].children),
           start \in Fine(h, exact)[MaxDepth + 1]
    PROVE  /\ Len(s) <= MaxDepth
           /\ h[Last(s).object].children[Last(s).next] \in Fine(h, exact)[MaxDepth + 1 - Len(s)]
           /\ FineAlone(h, Last(s).object, exact)
           /\ FineAlone(h, h[Last(s).object].children[Last(s).next], exact)
<1> DEFINE o == Last(s).object
           k == Last(s).next
           n == Len(s)
           c == h[o].children[k]
           m == MaxDepth + 1 - n
<1>1. Looping(h, s) /\ \A j \in 1 .. n : FrameStands(h, exact, start, s, j)
  BY DEF Stands
<1>2. n \in 1 .. MaxDepth + 1 /\ Last(s) = s[n] /\ o \in Objects /\ k \in Nat \ {0}
  BY <1>1, LoopOnTop
<1>3. Len(h[o].children) \in Nat /\ \A i \in 1 .. Len(h[o].children) : h[o].children[i] \in Objects
  BY <1>2, HeapFacts
<1>4. k \in 1 .. Len(h[o].children) /\ c \in Objects
  BY <1>2, <1>3
<1>5. FrameStands(h, exact, start, s, n)
  BY <1>1, <1>2
<1>6. m \in 0 .. MaxDepth /\ m + 1 = MaxDepth + 2 - n /\ (m = 0 <=> ~ (n <= MaxDepth))
  BY <1>2, DepthIsNat
<1>7. o \in Fine(h, exact)[m + 1]
  BY <1>2, <1>5, <1>6 DEF FrameStands
<1> HIDE DEF o, k, n, c, m
<1>8. FineAlone(h, o, exact) /\ c \in Fine(h, exact)[m]
  BY <1>2, <1>4, <1>6, <1>7, FineOfChildren DEF c
<1>9. m # 0
  BY <1>8, FineLevels
<1>10. FineAlone(h, c, exact)
  <2> DEFINE l == m - 1
  <2>1. l \in 0 .. MaxDepth /\ l + 1 = m
    BY <1>6, <1>9, DepthIsNat
  <2> HIDE DEF l
  <2>2. c \in Fine(h, exact)[l + 1]
    BY <1>8, <2>1
  <2>. QED  BY <1>4, <2>1, <2>2, FineOfChildren
<1>. QED  BY <1>6, <1>8, <1>9, <1>10 DEF o, k, n, c, m

(* What stands of the innermost loop, and of the container it is in.       *)
LEMMA TopFrame ==
    ASSUME NEW h \in Heaps, NEW exact, NEW start, NEW s, Stands(h, exact, start, s), s # <<>>
    PROVE  LET o == Last(s).object
           IN /\ Len(s) \in 1 .. MaxDepth + 1 /\ Last(s) = s[Len(s)]
              /\ o \in Objects /\ Last(s).next \in Nat \ {0}
              /\ FrameStands(h, exact, start, s, Len(s))
              /\ Len(h[o].children) \in Nat
              /\ \A i \in 1 .. Len(h[o].children) : h[o].children[i] \in Objects
<1> DEFINE o == Last(s).object
           n == Len(s)
<1>1. Looping(h, s) /\ (\A j \in 1 .. n : FrameStands(h, exact, start, s, j))
  BY DEF Stands
<1>2. /\ n \in 1 .. MaxDepth + 1 /\ Last(s) = s[n]
      /\ o \in Objects /\ Last(s).next \in Nat \ {0}
  BY <1>1, LoopOnTop, Zenon
<1>3. Len(h[o].children) \in Nat /\ \A i \in 1 .. Len(h[o].children) : h[o].children[i] \in Objects
  <2> HIDE DEF o
  <2>. QED  BY <1>2, HeapFacts, Zenon
<1>4. n \in 1 .. n
  BY <1>2, DepthIsNat
<1>. QED  BY <1>1, <1>2, <1>3, <1>4, Zenon

(* A child that is no container is fine if it is by itself.                *)
LEMMA PassedLeaf ==
    ASSUME NEW h \in Heaps, NEW exact, NEW start, NEW s, Stands(h, exact, start, s), s # <<>>,
           Last(s).next <= Len(h[Last(s).object].children), Len(s) <= MaxDepth,
           KeyFits(KeyIn(h, Last(s).object, Last(s).next), exact),
           h[h[Last(s).object].children[Last(s).next]].kind \notin Containers,
           FineAlone(h, h[Last(s).object].children[Last(s).next], exact)
    PROVE  Stands(h, exact, start, Moved(s))
<1> DEFINE o == Last(s).object
           k == Last(s).next
           n == Len(s)
           c == h[o].children[k]
           m == MaxDepth + 1 - n
           p == Moved(s)
<1>1. Looping(h, s) /\ (\A j \in 1 .. n : FrameStands(h, exact, start, s, j)) /\ s[1].object = start
  BY DEF Stands
<1>2. n \in 1 .. MaxDepth + 1 /\ Last(s) = s[n] /\ o \in Objects /\ k \in Nat \ {0}
  BY TopFrame, Zenon
<1>3. Len(h[o].children) \in Nat /\ \A i \in 1 .. Len(h[o].children) : h[o].children[i] \in Objects
  BY TopFrame, ZenonT(60)
<1>4. k \in 1 .. Len(h[o].children) /\ c \in Objects
  BY <1>2, <1>3, SMTT(30)
<1>5. /\ Looping(h, p) /\ Len(p) = n
      /\ \A j \in 1 .. n - 1 : p[j] = s[j]
      /\ p[n].object = o /\ p[n].next = k + 1
  BY <1>1, MovedLoop
<1>6. KeyFits(KeyIn(h, o, k), exact) /\ h[c].kind \notin Containers /\ FineAlone(h, c, exact)
  OBVIOUS
<1>7. FrameStands(h, exact, start, s, n) /\ s[n].object = o /\ s[n].next = k
  BY <1>2, TopFrame, ZenonT(60)
<1>8. m \in 0 .. MaxDepth /\ m # 0
  BY <1>2, DepthIsNat, SMTT(30)
<1> HIDE DEF o, k, n, c, p
<1>9. c \in Fine(h, exact)[m]
  <2> DEFINE l == m - 1
  <2>1. l \in 0 .. MaxDepth /\ l + 1 = m
    BY <1>8, DepthIsNat
  <2>2. h[c].children = <<>>
    BY <1>4, <1>6, HeapFacts
  <2> HIDE DEF l, m
  <2>3. \A i \in 1 .. Len(h[c].children) : h[c].children[i] \in Fine(h, exact)[l]
    BY <2>2
  <2>. QED  BY <1>4, <1>6, <2>1, <2>3, FineOfChildren
<1>10. FrameStands(h, exact, start, p, n)
  <2>1. \A i \in 1 .. (k + 1) - 1 : i = k \/ i \in 1 .. k - 1
    BY <1>2
  <2>2. \A i \in 1 .. k - 1 : /\ KeyFits(KeyIn(h, o, i), exact)
                              /\ h[o].children[i] \in Fine(h, exact)[m]
    <3>1. ~ (n < Len(s))
      BY <1>2 DEF n
    <3>. QED  BY <1>7, <3>1, SMTT(30) DEF FrameStands
  <2>3. \A i \in 1 .. (k + 1) - 1 : /\ KeyFits(KeyIn(h, o, i), exact)
                                    /\ h[o].children[i] \in Fine(h, exact)[m]
    BY <1>6, <1>9, <2>1, <2>2 DEF c
  <2>. QED  BY <1>2, <1>5, <1>7, <2>3, SMTT(30) DEF FrameStands
<1>11. ASSUME NEW j \in 1 .. n - 1 PROVE FrameStands(h, exact, start, p, j)
  <2>1. j \in 1 .. n /\ j < n /\ (j + 1 = n \/ j + 1 \in 1 .. n - 1)
    BY <1>2, SMTT(30)
  <2>2. p[j] = s[j] /\ p[j + 1].object = s[j + 1].object
    BY <1>5, <1>7, <2>1, SMTT(30)
  <2>. QED  BY <1>1, <1>5, <2>1, <2>2, OuterFrame DEF n
<1>12. \A j \in 1 .. n : j = n \/ j \in 1 .. n - 1
  BY <1>2
<1>13. p[1].object = start
  <2>1. 1 = n \/ 1 \in 1 .. n - 1
    BY <1>2
  <2>. QED  BY <1>1, <1>5, <1>7, <2>1, SMTT(30)
<1>14. Stands(h, exact, start, p)
  BY <1>5, <1>10, <1>11, <1>12, <1>13 DEF Stands
<1>. QED  BY <1>14 DEF p

(* A child that is a container, and not refused, is walked in turn.        *)
LEMMA EnteredContainer ==
    ASSUME NEW h \in Heaps, NEW exact, NEW start, NEW s, Stands(h, exact, start, s), s # <<>>,
           Last(s).next <= Len(h[Last(s).object].children), Len(s) <= MaxDepth,
           KeyFits(KeyIn(h, Last(s).object, Last(s).next), exact),
           NEW c, c = h[Last(s).object].children[Last(s).next],
           Walkable(h, c, exact)
    PROVE  Stands(h, exact, start, Append(Moved(s), [object |-> c, next |-> 1]))
<1> DEFINE o == Last(s).object
           k == Last(s).next
           n == Len(s)
           m == MaxDepth + 1 - n
           q == Moved(s)
           f == [object |-> c, next |-> 1]
           p == Append(q, f)
<1>1. Looping(h, s) /\ (\A j \in 1 .. n : FrameStands(h, exact, start, s, j)) /\ s[1].object = start
  BY DEF Stands
<1>2. n \in 1 .. MaxDepth + 1 /\ Last(s) = s[n] /\ o \in Objects /\ k \in Nat \ {0} /\ n <= MaxDepth
  BY TopFrame, Zenon
<1>3. Len(h[o].children) \in Nat /\ \A i \in 1 .. Len(h[o].children) : h[o].children[i] \in Objects
  BY TopFrame, ZenonT(60)
<1>4. k \in 1 .. Len(h[o].children) /\ c \in Objects
  BY <1>2, <1>3
<1>5. /\ Looping(h, q) /\ Len(q) = n
      /\ \A j \in 1 .. n - 1 : q[j] = s[j]
      /\ q[n].object = o /\ q[n].next = k + 1
  BY <1>1, MovedLoop
<1>6. KeyFits(KeyIn(h, o, k), exact) /\ Walkable(h, c, exact)
  OBVIOUS
<1>7. FrameStands(h, exact, start, s, n) /\ s[n].object = o /\ s[n].next = k
  BY <1>2, TopFrame, Zenon
<1>8. f \in Frame /\ f.object = c /\ f.next = 1
  BY <1>4 DEF Frame
<1>9. start \in Fine(h, exact)[MaxDepth + 1] => c \in Fine(h, exact)[m]
  BY NextChild
<1>10. c = h[o].children[k]
  OBVIOUS
<1>11. Len(h[c].children) \in Nat
  BY <1>4, HeapFacts
<1> HIDE DEF o, k, n, q, f
<1>12. /\ p \in Seq(Frame) /\ Len(p) = n + 1 /\ p[n + 1] = f
       /\ \A j \in 1 .. n : p[j] = q[j]
  BY <1>5, <1>8, AppendProperties DEF Looping
<1> HIDE DEF p
<1>13. /\ p[n].object = o /\ p[n].next = k + 1 /\ p[n + 1].object = c /\ p[n + 1].next = 1
       /\ \A j \in 1 .. n - 1 : p[j] = s[j]
  <2>1. n \in 1 .. n /\ \A j \in 1 .. n - 1 : j \in 1 .. n
    BY <1>2
  <2>. QED  BY <1>5, <1>8, <1>12, <2>1
<1>14. \A j \in 1 .. n + 1 : j = n + 1 \/ j = n \/ j \in 1 .. n - 1
  BY <1>2
<1>15. Looping(h, p)
  <2>1. Len(p) <= MaxDepth + 1
    BY <1>2, <1>12, DepthIsNat
  <2>2. \A j \in 1 .. n : q[j].next <= Len(h[q[j].object].children) + 1
    BY <1>5 DEF Looping
  <2>3. p[n + 1].next <= Len(h[p[n + 1].object].children) + 1
    <3> DEFINE a == Len(h[c].children)
    <3>1. a \in Nat
      BY <1>11
    <3> HIDE DEF a
    <3>2. 1 <= a + 1
      BY <3>1
    <3>. QED  BY <1>13, <3>2 DEF a
  <2>4. \A j \in 1 .. n + 1 : j = n + 1 \/ j \in 1 .. n
    BY <1>2
  <2>. QED  BY <1>12, <2>1, <2>2, <2>3, <2>4 DEF Looping
<1>16. FrameStands(h, exact, start, p, n)
  <2>1. (k + 1) - 1 = k /\ k + 1 > 1 /\ n < n + 1 /\ \A i \in 1 .. k : i = k \/ i \in 1 .. k - 1
    BY <1>2
  <2>2. \A i \in 1 .. k - 1 : /\ KeyFits(KeyIn(h, o, i), exact)
                              /\ h[o].children[i] \in Fine(h, exact)[m]
    <3>1. ~ (n < Len(s))
      BY <1>2 DEF n
    <3>. QED  BY <1>7, <3>1 DEF FrameStands
  <2>3. \A i \in 1 .. k : /\ KeyFits(KeyIn(h, o, i), exact)
                          /\ h[o].children[i] \in Fine(h, exact)[m] \/ i = k
    BY <1>6, <2>1, <2>2, SMTT(30)
  <2>. QED  BY <1>2, <1>7, <1>10, <1>12, <1>13, <2>1, <2>3 DEF FrameStands
<1>17. FrameStands(h, exact, start, p, n + 1)
  <2>1. 1 .. 1 - 1 = {} /\ MaxDepth + 2 - (n + 1) = m /\ ~ (n + 1 < n + 1)
    BY <1>2, DepthIsNat
  <2> HIDE DEF m
  <2>. QED  BY <1>6, <1>9, <1>12, <1>13, <2>1 DEF FrameStands
<1>18. ASSUME NEW j \in 1 .. n - 1 PROVE FrameStands(h, exact, start, p, j)
  <2>1. j \in 1 .. n /\ j < n /\ j < n + 1 /\ (j + 1 = n \/ j + 1 \in 1 .. n - 1)
    BY <1>2
  <2>2. p[j] = s[j] /\ p[j + 1].object = s[j + 1].object
    BY <1>7, <1>13, <2>1
  <2>. QED  BY <1>1, <1>12, <2>1, <2>2, OuterFrame DEF n
<1>19. p[1].object = start
  <2>1. 1 = n \/ 1 \in 1 .. n - 1
    BY <1>2
  <2>. QED  BY <1>1, <1>7, <1>13, <2>1, SMTT(30)
<1>20. Stands(h, exact, start, p)
  BY <1>12, <1>14, <1>15, <1>16, <1>17, <1>18, <1>19 DEF Stands
<1>. QED  BY <1>20 DEF p, q, f

(* The walk of the first value.                                            *)
LEMMA EnteredFirst ==
    ASSUME NEW h \in Heaps, NEW exact, NEW o \in Objects,
           Walkable(h, o, exact)
    PROVE  Stands(h, exact, o, Append(<<>>, [object |-> o, next |-> 1]))
<1> DEFINE f == [object |-> o, next |-> 1]
           p == Append(<<>>, f)
<1>1. f \in Frame /\ f.object = o /\ f.next = 1
  BY DEF Frame
<1> HIDE DEF f
<1>2. p \in Seq(Frame) /\ Len(p) = 1 /\ p[1] = f
  BY <1>1
<1> HIDE DEF p
<1>3. Len(h[o].children) \in Nat /\ 1 .. 1 - 1 = {} /\ MaxDepth + 2 - 1 = MaxDepth + 1
      /\ 1 <= MaxDepth + 1 /\ ~ (1 < 1) /\ \A j \in 1 .. 1 : j = 1
  BY HeapFacts, DepthIsNat
<1>4. 1 <= Len(h[o].children) + 1
  BY <1>3
<1>5. Looping(h, p)
  BY <1>1, <1>2, <1>3, <1>4 DEF Looping
<1>6. FrameStands(h, exact, o, p, 1)
  BY <1>1, <1>2, <1>3 DEF FrameStands
<1>7. Stands(h, exact, o, p)
  BY <1>1, <1>2, <1>3, <1>5, <1>6 DEF Stands
<1>. QED  BY <1>7 DEF p, f

(* A container is fine once the loop over it is over, ...                  *)
LEMMA LoopedOver ==
    ASSUME NEW h \in Heaps, NEW exact, NEW start, NEW s, Stands(h, exact, start, s), s # <<>>,
           Last(s).next > Len(h[Last(s).object].children)
    PROVE  Last(s).object \in Fine(h, exact)[MaxDepth + 2 - Len(s)]
<1> DEFINE o == Last(s).object
           k == Last(s).next
           n == Len(s)
           m == MaxDepth + 1 - n
<1>1. Looping(h, s) /\ \A j \in 1 .. n : FrameStands(h, exact, start, s, j)
  BY DEF Stands
<1>2. n \in 1 .. MaxDepth + 1 /\ Last(s) = s[n] /\ o \in Objects /\ k \in Nat \ {0}
      /\ k <= Len(h[o].children) + 1
  BY <1>1, LoopOnTop
<1>3. /\ Len(h[o].children) \in Nat /\ h[o].keys \in Seq(Key)
      /\ Len(h[o].keys) \in {0, Len(h[o].children)}
  BY <1>2, HeapFacts
<1>4. k > Len(h[o].children)
  OBVIOUS
<1>5. FrameStands(h, exact, start, s, n) /\ s[n].object = o /\ s[n].next = k
  BY <1>1, <1>2
<1>6. m \in 0 .. MaxDepth /\ m + 1 = MaxDepth + 2 - n
  BY <1>2, DepthIsNat
<1> HIDE DEF o, k, n
<1>7. /\ Walkable(h, o, exact)
      /\ \A i \in 1 .. k - 1 :
            KeyFits(KeyIn(h, o, i), exact) /\ h[o].children[i] \in Fine(h, exact)[m]
  <2>1. ~ (n < Len(s))
    BY <1>2 DEF n
  <2>. QED  BY <1>5, <2>1 DEF FrameStands
<1>8. k - 1 = Len(h[o].children)
  BY <1>2, <1>3, <1>4
<1>9. FineAlone(h, o, exact)
  <2> DEFINE keys == h[o].keys
  <2>1. ASSUME NEW i \in DOMAIN keys PROVE KeyFits(keys[i], exact)
    <3>1. keys \in Seq(Key) /\ Len(keys) \in {0, k - 1}
      BY <1>3, <1>8
    <3>2. KeyIn(h, o, i) = IF keys = <<>> THEN NoKey ELSE keys[i]
      BY DEF KeyIn
    <3> HIDE DEF keys
    <3>3. i \in 1 .. k - 1 /\ keys # <<>>
      BY <2>1, <3>1
    <3>. QED  BY <1>7, <3>2, <3>3
  <2>2. h[o].kind # "text" /\ h[o].kind # "number"
    BY <1>7 DEF Walkable, Containers
  <2>. QED  BY <1>7, <2>1, <2>2 DEF Walkable, FineAlone
<1>10. o \in Fine(h, exact)[m + 1]
  BY <1>2, <1>6, <1>7, <1>8, <1>9, FineOfChildren
<1>. QED  BY <1>6, <1>10 DEF o, n

(* ... and the loop around it goes on.                                     *)
LEMMA LoopLeft ==
    ASSUME NEW h \in Heaps, NEW exact, NEW start, NEW s, Stands(h, exact, start, s), s # <<>>,
           Last(s).next > Len(h[Last(s).object].children), Len(s) # 1
    PROVE  Stands(h, exact, start, Front(s))
<1> DEFINE o == Last(s).object
           n == Len(s)
           r == n - 1
           p == Front(s)
<1>1. Looping(h, s) /\ (\A j \in 1 .. n : FrameStands(h, exact, start, s, j)) /\ s[1].object = start
  BY DEF Stands
<1>2. /\ n \in 1 .. MaxDepth + 1 /\ Last(s) = s[n] /\ n # 1
      /\ Looping(h, p) /\ Len(p) = r /\ \A j \in 1 .. r : p[j] = s[j]
  BY <1>1, LoopOnTop
<1>3. o \in Fine(h, exact)[MaxDepth + 2 - n]
  BY LoopedOver
<1>4. n \in Nat /\ r \in Nat /\ r \in 1 .. n /\ r < n /\ r + 1 = n /\ 1 \in 1 .. r
      /\ MaxDepth + 2 - n = MaxDepth + 1 - r /\ r \in 1 .. r
  BY <1>2, DepthIsNat
<1>5. FrameStands(h, exact, start, s, r) /\ s[n].object = o
  BY <1>1, <1>2, <1>4
<1>6. \A j \in 1 .. r : j = r \/ (j \in 1 .. n /\ j < n /\ j < r /\ j + 1 \in 1 .. r)
  <2> HIDE DEF r, n
  <2>. QED  BY <1>4
<1> HIDE DEF o, n, r, p
<1>7. FrameStands(h, exact, start, p, r)
  <2> DEFINE x == s[r].object
             k == s[r].next
  <2>1. /\ Walkable(h, x, exact)
        /\ \A i \in 1 .. k - 1 : /\ KeyFits(KeyIn(h, x, i), exact)
                                 /\ \/ h[x].children[i] \in Fine(h, exact)[MaxDepth + 1 - r]
                                    \/ i = k - 1
        /\ o = h[x].children[k - 1]
        /\ start \in Fine(h, exact)[MaxDepth + 1] => x \in Fine(h, exact)[MaxDepth + 2 - r]
    BY <1>4, <1>5 DEF FrameStands, n
  <2>2. \A i \in 1 .. k - 1 : /\ KeyFits(KeyIn(h, x, i), exact)
                              /\ h[x].children[i] \in Fine(h, exact)[MaxDepth + 1 - r]
    BY <1>3, <1>4, <2>1
  <2>3. p[r] = s[r] /\ ~ (r < Len(p))
    BY <1>2, <1>4
  <2>. QED  BY <2>1, <2>2, <2>3 DEF FrameStands
<1>8. ASSUME NEW j \in 1 .. r, j # r PROVE FrameStands(h, exact, start, p, j)
  <2>1. p[j] = s[j] /\ p[j + 1].object = s[j + 1].object
    BY <1>2, <1>6, <1>8
  <2>. QED  BY <1>1, <1>2, <1>6, <1>8, <2>1, OuterFrame DEF n
<1>9. p[1].object = start
  BY <1>1, <1>2, <1>4
<1>10. Stands(h, exact, start, p)
  BY <1>2, <1>7, <1>8, <1>9 DEF Stands
<1>. QED  BY <1>10 DEF p

(* A value on its own path: no limit on depth is enough.                   *)
LEMMA CycleMet ==
    ASSUME NEW h \in Heaps, NEW exact, NEW start, NEW s, Stands(h, exact, start, s), s # <<>>,
           Last(s).next <= Len(h[Last(s).object].children),
           h[Last(s).object].children[Last(s).next] \in Range(PathOf(s))
    PROVE  start \notin Fine(h, exact)[MaxDepth + 1]
<1> DEFINE o == Last(s).object
           k == Last(s).next
           n == Len(s)
           c == h[o].children[k]
<1>1. Looping(h, s) /\ (\A j \in 1 .. n : FrameStands(h, exact, start, s, j))
  BY DEF Stands
<1>2. n \in 1 .. MaxDepth + 1 /\ Last(s) = s[n] /\ o \in Objects /\ k \in Nat \ {0}
      /\ k <= Len(h[o].children)
  BY <1>1, LoopOnTop
<1>3. Len(h[o].children) \in Nat
  BY <1>2, HeapFacts
<1>4. s \in Seq(Frame) /\ DOMAIN s = 1 .. n /\ \A j \in 1 .. n : s[j].object \in Objects
  <2>1. s \in Seq(Frame)
    BY <1>1 DEF Looping
  <2>2. \A j \in 1 .. n : s[j] \in Frame
    BY <2>1, ElementOfSeq
  <2>. QED  BY <2>1, <2>2 DEF Frame
<1>5. PICK j \in 1 .. n : s[j].object = c
  BY <1>4 DEF PathOf, Range
<1> DEFINE C == {s[i].object : i \in j .. n}
<1>6. o \in C /\ C \in SUBSET Objects
  <2>1. n \in j .. n /\ \A i \in j .. n : i \in 1 .. n
    BY <1>2, <1>5
  <2>. QED  BY <1>2, <1>4, <2>1
<1> HIDE DEF o, k, n, c
<1>7. ASSUME NEW i \in j .. n PROVE Range(h[s[i].object].children) \cap C # {}
  <2>1. CASE i = n
    <3>1. s[i].object = o /\ c \in Range(h[o].children) /\ c \in C
      <4>1. j \in j .. n
        BY <1>2, <1>5
      <4>2. k \in DOMAIN h[o].children
        <5> DEFINE d == h[o].children
        <5>1. d \in Seq(Objects) /\ k \in 1 .. Len(d)
          BY <1>2, <1>3, HeapFacts
        <5> HIDE DEF d
        <5>2. k \in DOMAIN d
          BY <5>1
        <5>. QED  BY <5>2 DEF d
      <4>. QED  BY <1>2, <1>5, <2>1, <4>1, <4>2 DEF Range, o, c
    <3>. QED  BY <3>1
  <2>2. CASE i # n
    <3> DEFINE x == s[i].object
               l == s[i].next
    <3>1. i \in 1 .. n /\ i < n /\ i + 1 \in j .. n
      BY <1>2, <1>5, <2>2
    <3>2. l > 1 /\ s[i + 1].object = h[x].children[l - 1]
      BY <1>1, <3>1 DEF FrameStands, n
    <3>3. l \in Nat /\ l <= Len(h[x].children) + 1
      <4>1. s[i] \in Frame
        BY <1>4, <3>1, ElementOfSeq DEF n
      <4>2. l \in Nat
        BY <4>1 DEF Frame
      <4>3. l <= Len(h[x].children) + 1
        BY <1>1, <3>1 DEF Looping, n
      <4>. QED  BY <4>2, <4>3
    <3>4. h[x].children \in Seq(Objects) /\ Len(h[x].children) \in Nat
      BY <1>4, <3>1, HeapFacts
    <3> DEFINE d == h[x].children
    <3>5. l - 1 \in 1 .. Len(d) /\ d \in Seq(Objects) /\ s[i + 1].object = d[l - 1]
      BY <3>2, <3>3, <3>4, SMTT(30)
    <3> HIDE DEF d, l
    <3>6. d[l - 1] \in Range(d)
      BY <3>5 DEF Range
    <3>7. s[i + 1].object \in C
      BY <3>1
    <3>. QED  BY <3>5, <3>6, <3>7 DEF d
  <2>. QED  BY <2>1, <2>2
<1>8. \A x \in C : Range(h[x].children) \cap C # {}
  BY <1>7
<1> HIDE DEF C
<1>9. MaxDepth + 2 - n \in 0 .. MaxDepth + 1
  BY <1>2, DepthIsNat
<1>10. C \cap Fine(h, exact)[MaxDepth + 2 - n] = {}
  BY <1>6, <1>8, <1>9, CycleIsNotFine
<1>11. start \in Fine(h, exact)[MaxDepth + 1] => o \in Fine(h, exact)[MaxDepth + 2 - n]
  BY <1>1, <1>2 DEF FrameStands, o
<1>. QED  BY <1>6, <1>10, <1>11

-----------------------------------------------------------------------------
Inv == WalkStaysWithinLimits /\ heap \in Heaps

LEMMA InitInv == Init => Inv
BY ExactJsonAssumption, EmptyPath DEF Init, Inv, WalkStaysWithinLimits, Over, Walkers, Range

LEMMA ChargesAreNat ==
    ASSUME Inv, NEW o \in Objects
    PROVE  OwnCharge(o) \in Nat
           /\ \A i \in 1 .. Len(heap[o].children) :
                 KeyOf(o, i) \in Key /\ KeyCharge(KeyOf(o, i)) \in Nat
<1> DEFINE children == heap[o].children
           keys == heap[o].keys
           weights == KeyWeights(heap, o)
<1>1. /\ heap[o].weight \in Nat /\ keys \in Seq(Key) /\ children \in Seq(Objects)
      /\ Len(keys) \in {0, Len(children)} /\ weights \in Seq(Nat)
  BY HeapFacts, WeightFacts DEF Inv
<1>2. OwnCharge(o) = IF heap[o].kind \in {"text", "number"} THEN heap[o].weight
                     ELSE IF walker = "checker" THEN SumOf(weights) ELSE 0
  BY DEF OwnCharge
<1>3. \A i \in 1 .. Len(children) : KeyOf(o, i) = IF keys = <<>> THEN NoKey ELSE keys[i]
  BY DEF KeyOf
<1> HIDE DEF keys, children, weights
<1>4. SumOf(weights) \in Nat
  <2>1. 0 \in 0 .. Len(weights)
    BY <1>1
  <2>. QED  BY <1>1, <2>1, SumsGrow
<1>5. ASSUME NEW i \in 1 .. Len(children)
      PROVE  KeyOf(o, i) \in Key /\ KeyCharge(KeyOf(o, i)) \in Nat
  <2>1. keys # <<>> => i \in 1 .. Len(keys)
    BY <1>1, EmptySeq
  <2>2. KeyOf(o, i) \in Key
    BY <1>1, <1>3, <2>1, ElementOfSeq, NoKeyFits
  <2>. QED  BY <2>2 DEF Key, KeyCharge
<1>. QED  BY <1>1, <1>2, <1>4, <1>5 DEF children

(* A walk that ends leaves nothing behind for the next one.                *)
LEMMA EndStep ==
    ASSUME Inv, ~ Over, NEW v \in {"accepted", "refused"}, End(v),
           UNCHANGED <<heap, root, payload>>
    PROVE  Inv'
<1>1. verdicts' \in Seq({"accepted", "refused"}) /\ Len(verdicts') <= Len(Walkers)
  <2> DEFINE n == Len(Walkers)
  <2>1. n \in Nat
    BY DEF Walkers
  <2>2. verdicts \in Seq({"accepted", "refused"}) /\ Len(verdicts) <= n /\ Len(verdicts) # n
    BY DEF Inv, WalkStaysWithinLimits, Over
  <2>3. verdicts' = Append(verdicts, v)
    BY DEF End
  <2> HIDE DEF n
  <2>4. verdicts' \in Seq({"accepted", "refused"}) /\ Len(verdicts') <= n
    BY <2>1, <2>2, <2>3
  <2>. QED  BY <2>4 DEF n
<1>2. stack' = <<>> /\ stack' \in Seq(Frame) /\ Len(stack') <= MaxDepth + 1
  BY ExactJsonAssumption DEF End
<1>3. active' = {} /\ nodes' \in 0 .. MaxNodes /\ text' \in 0 .. MaxText
  BY ExactJsonAssumption DEF End
<1>4. active' = Range(PathOf(stack')) /\ IsInjective(PathOf(stack'))
  BY <1>2, <1>3, EmptyPath
<1>. QED  BY <1>1, <1>2, <1>3, <1>4 DEF Inv, WalkStaysWithinLimits

(* What Advanced does to the stack of a walk in progress.                  *)
LEMMA AdvancedStack ==
    ASSUME Inv
    PROVE  Advanced \in Seq(Frame) /\ Len(Advanced) = Len(stack)
           /\ PathOf(Advanced) = PathOf(stack)
BY AdvancedPath DEF Inv, WalkStaysWithinLimits, Advanced, Top

LEMMA EnterStep ==
    ASSUME Inv, ~ Over, NEW o \in Objects, NEW key \in Key, Enter(o, key),
           UNCHANGED <<heap, root, payload>>
    PROVE  Inv'
<1>1. CASE Refused(o, key)
  BY <1>1, EndStep DEF Enter
<1>2. CASE ~ Refused(o, key) /\ stack = <<>> /\ ~ IsContainer(o)
  BY <1>2, EndStep DEF Enter
<1>3. CASE ~ Refused(o, key) /\ ~ (stack = <<>> /\ ~ IsContainer(o))
  <2>1. /\ nodes' = IF Budgeted THEN nodes + 1 ELSE 0
        /\ text' = IF Budgeted THEN text + KeyCharge(key) + OwnCharge(o) ELSE 0
        /\ active' = IF Budgeted /\ IsContainer(o) THEN active \cup {o} ELSE active
        /\ stack' = IF IsContainer(o) THEN Append(Advanced, [object |-> o, next |-> 1])
                    ELSE Advanced
        /\ UNCHANGED verdicts
    BY <1>3 DEF Enter
  <2>2. nodes' \in 0 .. MaxNodes
    BY <1>3, <2>1, ExactJsonAssumption DEF Refused, Inv, WalkStaysWithinLimits
  <2>3. text' \in 0 .. MaxText
    <3>1. KeyCharge(key) \in Nat /\ OwnCharge(o) \in Nat /\ text \in 0 .. MaxText /\ MaxText \in Nat
      BY ChargesAreNat, ExactJsonAssumption DEF Key, KeyCharge, Inv, WalkStaysWithinLimits
    <3>2. Budgeted => ~ (text + KeyCharge(key) + OwnCharge(o) > MaxText)
      BY <1>3 DEF Refused
    <3>. QED  BY <2>1, <3>1, <3>2
  <2>4. Advanced \in Seq(Frame) /\ Len(Advanced) = Len(stack) /\ PathOf(Advanced) = PathOf(stack)
    BY AdvancedStack
  <2>5. [object |-> o, next |-> 1] \in Frame
    BY DEF Frame
  <2>6. stack' \in Seq(Frame) /\ Len(stack') <= MaxDepth + 1
    <3>1. Len(stack) \in Nat /\ Len(stack) <= MaxDepth /\ MaxDepth \in Nat
      BY <1>3, ExactJsonAssumption DEF Refused, Inv, WalkStaysWithinLimits
    <3> DEFINE s == Advanced
               f == [object |-> o, next |-> 1]
    <3>2. s \in Seq(Frame) /\ Len(s) = Len(stack) /\ f \in Frame
      BY <2>4, <2>5
    <3>3. stack' = IF IsContainer(o) THEN Append(s, f) ELSE s
      BY <2>1
    <3> HIDE DEF s, f
    <3>4. Append(s, f) \in Seq(Frame) /\ Len(Append(s, f)) = Len(s) + 1
      BY <3>2
    <3>. QED  BY <3>1, <3>2, <3>3, <3>4
  <2>7. ASSUME Budgeted
        PROVE  active' = Range(PathOf(stack')) /\ IsInjective(PathOf(stack'))
    <3>1. active = Range(PathOf(Advanced)) /\ IsInjective(PathOf(Advanced)) /\ o \notin active
      BY <1>3, <2>4, <2>7 DEF Refused, Inv, WalkStaysWithinLimits
    <3>2. CASE IsContainer(o)
      BY <2>1, <2>4, <2>7, <3>1, <3>2, PushedPath
    <3>3. CASE ~ IsContainer(o)
      BY <2>1, <3>1, <3>3
    <3>. QED  BY <3>2, <3>3
  <2>8. Budgeted' = Budgeted /\ Over' = Over
    BY <2>1 DEF Budgeted, walker, Over
  <2>. QED  BY <2>1, <2>2, <2>3, <2>6, <2>7, <2>8 DEF Inv, WalkStaysWithinLimits
<1>. QED  BY <1>1, <1>2, <1>3

LEMMA LeaveStep ==
    ASSUME Inv, Leave
    PROVE  Inv'
<1>1. stack # <<>> /\ ~ Over /\ UNCHANGED <<heap, root, payload>>
  BY DEF Leave, Inv, WalkStaysWithinLimits
<1>2. CASE Len(stack) = 1
  BY <1>1, <1>2, EndStep DEF Leave
<1>3. CASE Len(stack) # 1
  <2>1. /\ stack' = Front(stack) /\ active' = active \ {Top.object}
        /\ UNCHANGED <<verdicts, nodes, text>>
    BY <1>3 DEF Leave
  <2>2. stack' \in Seq(Frame) /\ Len(stack') = Len(stack) - 1
    BY <1>1, <2>1, StackTop DEF Inv, WalkStaysWithinLimits
  <2>3. Len(stack') <= MaxDepth + 1
    BY <2>2, ExactJsonAssumption DEF Inv, WalkStaysWithinLimits
  <2>4. Budgeted => active' = Range(PathOf(stack')) /\ IsInjective(PathOf(stack'))
    BY <1>1, <2>1, PoppedPath DEF Inv, WalkStaysWithinLimits, Top
  <2>5. Budgeted' = Budgeted /\ Over' = Over
    BY <2>1 DEF Budgeted, walker, Over
  <2>. QED  BY <1>1, <2>1, <2>2, <2>3, <2>4, <2>5 DEF Inv, WalkStaysWithinLimits
<1>. QED  BY <1>2, <1>3

LEMMA NextInv ==
    ASSUME Inv, [Next]_vars
    PROVE  Inv'
<1>1. CASE Begin
  <2>1. Start \in Objects /\ NoKey \in Key
    BY NoKeyFits DEF Start, Inv, WalkStaysWithinLimits
  <2>. QED  BY <1>1, <2>1, EnterStep, EndStep DEF Begin
<1>2. CASE Descend
  <2>1. stack # <<>> /\ ~ Over /\ Top \in Frame /\ Top.object \in Objects
    <3>1. stack # <<>> /\ ~ Over
      BY <1>2 DEF Descend, Inv, WalkStaysWithinLimits
    <3>2. Top \in Frame
      BY <3>1, StackTop DEF Inv, WalkStaysWithinLimits, Top
    <3>. QED  BY <3>1, <3>2 DEF Frame
  <2>2. Top.next \in 1 .. Len(heap[Top.object].children)
    <3>1. heap[Top.object].children \in Seq(Objects)
      BY <2>1, HeapFacts DEF Inv
    <3>2. Len(heap[Top.object].children) \in Nat /\ Top.next \in Nat \ {0}
      BY <2>1, <3>1 DEF Frame
    <3>. QED  BY <1>2, <3>2 DEF Descend
  <2> DEFINE o == Top.object
             k == Top.next
  <2>3. heap[o].children[k] \in Objects /\ KeyOf(o, k) \in Key
    BY <2>1, <2>2, HeapFacts, ChargesAreNat DEF Inv
  <2>4. Enter(heap[o].children[k], KeyOf(o, k)) /\ UNCHANGED <<heap, root, payload>>
    BY <1>2 DEF Descend
  <2>. QED  BY <2>1, <2>3, <2>4, EnterStep
<1>3. CASE Leave
  BY <1>3, LeaveStep
<1>4. CASE UNCHANGED vars
  BY <1>4 DEF vars, walk, Inv, WalkStaysWithinLimits, Over, Budgeted, walker
<1>. QED  BY <1>1, <1>2, <1>3, <1>4 DEF Next

(* No walk goes past a limit, and it holds active what is on its path      *)
(* (policy_binding.py:72-135).                                             *)
THEOREM WalkIsBounded == Spec => []WalkStaysWithinLimits
<1>1. Inv /\ [Next]_vars => Inv'
  BY NextInv
<1>2. Inv => WalkStaysWithinLimits
  BY DEF Inv
<1>. QED  BY <1>1, <1>2, InitInv, PTL DEF Spec

-----------------------------------------------------------------------------
(* The verdicts.                                                           *)

WalkInv ==
    /\ Stands(heap, Budgeted, Start, stack)
    /\ stack = <<>> => nodes = 0 /\ text = 0
    /\ ~ Budgeted /\ stack # <<>> => heap[payload].kind = "dict"
    /\ Budgeted /\ stack # <<>> =>
          /\ Balanced(heap, NodesIn(heap), EdgeOf(heap, "none"), root, stack, nodes)
          /\ Balanced(heap, TextIn(heap), EdgeOf(heap, walker), root, stack, text)

VerdictInv ==
    /\ Inv
    /\ payload \in Range(heap[root].children) \cup {root}
    /\ PreflightDecidesContract /\ ValidatorDecidesContract
    /\ ~ Over => WalkInv

(* What the current walk is to decide.                                     *)
Contract ==
    /\ Start \in Fine(heap, Budgeted)[MaxDepth + 1]
    /\ ~ Budgeted => heap[payload].kind = "dict"
    /\ Budgeted => /\ NodesIn(heap)[MaxDepth + 1][root] <= MaxNodes
                   /\ TextIn(heap)[MaxDepth + 1][root] <= MaxText

LEMMA WalkerIs ==
    ASSUME Inv, ~ Over
    PROVE  /\ Len(verdicts) \in 0 .. 2 /\ verdicts \in Seq({"accepted", "refused"})
           /\ Budgeted <=> Len(verdicts) \in {0, 1}
           /\ Budgeted => Start = root /\ walker \in {"gateway", "checker"}
           /\ ~ Budgeted => Start = payload
           /\ Start \in Objects
<1>1. Len(verdicts) \in Nat /\ Len(verdicts) <= 3 /\ Len(verdicts) # 3
      /\ verdicts \in Seq({"accepted", "refused"}) /\ root \in Objects /\ payload \in Objects
  BY DEF Inv, WalkStaysWithinLimits, Over, Walkers
<1> DEFINE n == Len(verdicts)
<1>2. walker = Walkers[n + 1] /\ n \in {0, 1, 2}
  <2>1. walker = Walkers[n + 1]
    BY DEF walker
  <2>2. n \in Nat /\ n <= 3 /\ n # 3
    BY <1>1
  <2> HIDE DEF n
  <2>3. n \in {0, 1, 2}
    BY <2>2
  <2>. QED  BY <2>1, <2>3
<1> HIDE DEF n
<1>3. n \in {0, 1} <=> walker # "validator"
  BY <1>2 DEF Walkers
<1>4. n \in {0, 1} => walker \in {"gateway", "checker"}
  BY <1>2 DEF Walkers
<1>. QED  BY <1>1, <1>2, <1>3, <1>4 DEF Budgeted, Start, n

LEMMA ContractIs ==
    ASSUME Inv, ~ Over
    PROVE  /\ Budgeted => (Contract <=> WellFormed(root, TRUE) /\ WithinBudgets(root))
           /\ ~ Budgeted =>
                 (Contract <=> heap[payload].kind = "dict" /\ WellFormed(payload, FALSE))
<1>1. ASSUME Budgeted PROVE Contract <=> WellFormed(root, TRUE) /\ WithinBudgets(root)
  <2>1. Fine(heap, Budgeted) = Fine(heap, TRUE)
    <3>1. Budgeted = TRUE
      BY <1>1 DEF Budgeted
    <3>. QED  BY <3>1, Zenon
  <2>2. Start = root
    BY <1>1, WalkerIs
  <2>. QED  BY <1>1, <2>1, <2>2 DEF Contract, WellFormed, WithinBudgets, NodesIn, TextIn
<1>2. ASSUME ~ Budgeted
      PROVE  Contract <=> heap[payload].kind = "dict" /\ WellFormed(payload, FALSE)
  <2>1. Fine(heap, Budgeted) = Fine(heap, FALSE)
    <3>1. Budgeted = FALSE
      BY <1>2 DEF Budgeted
    <3>. QED  BY <3>1, Zenon
  <2>2. Start = payload
    BY <1>2, WalkerIs
  <2>. QED  BY <1>2, <2>1, <2>2 DEF Contract, WellFormed
<1>. QED  BY <1>1, <1>2

(* The checks of a value by itself are those of the contract, keys aside.  *)
LEMMA UsableIs ==
    ASSUME Inv, NEW o \in Objects
    PROVE  /\ FineAlone(heap, o, Budgeted) => Usable(o)
           /\ Usable(o) /\ ~ IsContainer(o) => FineAlone(heap, o, Budgeted)
           /\ Usable(o) /\ IsContainer(o) => Walkable(heap, o, Budgeted)
           /\ FineAlone(heap, o, Budgeted) =>
                 \A i \in 1 .. Len(heap[o].children) : KeyFits(KeyOf(o, i), Budgeted)
<1>1. /\ heap[o].kind \notin Containers => heap[o].keys = <<>>
      /\ heap[o].keys \in Seq(Key) /\ Len(heap[o].keys) \in {0, Len(heap[o].children)}
  BY HeapFacts DEF Inv
<1>2. FineAlone(heap, o, Budgeted) => Usable(o)
  <2>1. walker = "checker" => Budgeted = TRUE
    BY DEF Budgeted
  <2>. QED  BY <2>1 DEF FineAlone, Usable
<1>3. Usable(o) /\ ~ IsContainer(o) => FineAlone(heap, o, Budgeted)
  BY <1>1 DEF FineAlone, Usable, IsContainer
<1>4. Usable(o) /\ IsContainer(o) => Walkable(heap, o, Budgeted)
  BY DEF Usable, IsContainer, Walkable
<1>5. ASSUME FineAlone(heap, o, Budgeted), NEW i \in 1 .. Len(heap[o].children)
      PROVE  KeyFits(KeyOf(o, i), Budgeted)
  <2> DEFINE keys == heap[o].keys
  <2>1. KeyOf(o, i) = IF keys = <<>> THEN NoKey ELSE keys[i]
    BY DEF KeyOf
  <2>2. \A j \in DOMAIN keys : KeyFits(keys[j], Budgeted)
    BY <1>5 DEF FineAlone
  <2>3. keys \in Seq(Key) /\ Len(keys) \in {0, Len(heap[o].children)}
    BY <1>1
  <2> HIDE DEF keys
  <2>4. keys # <<>> => i \in DOMAIN keys
    BY <2>3, EmptySeq
  <2>. QED  BY <2>1, <2>2, <2>4, NoKeyFits
<1>. QED  BY <1>2, <1>3, <1>4, <1>5

(* What the code charges are the tariffs.                                  *)
LEMMA ChargeIs ==
    ASSUME Inv, ~ Over, NEW o \in Objects
    PROVE  /\ NodeOf[o] = 1 /\ ShareOf(heap, walker)[o] = OwnCharge(o)
           /\ \A i \in 1 .. Len(heap[o].children) :
                 /\ EdgeOf(heap, "none")[o][i] = 0
                 /\ EdgeOf(heap, walker)[o][i] = KeyCharge(KeyOf(o, i))
           /\ KeyCharge(NoKey) = 0
<1>1. NodeOf[o] = 1 /\ ShareOf(heap, walker)[o] = OwnCharge(o) /\ KeyCharge(NoKey) = 0
  BY NoKeyFits DEF NodeOf, ShareOf, OwnCharge, KeyCharge
<1>2. ASSUME NEW i \in 1 .. Len(heap[o].children)
      PROVE  /\ EdgeOf(heap, "none")[o][i] = 0
             /\ EdgeOf(heap, walker)[o][i] = KeyCharge(KeyOf(o, i))
  <2>1. /\ heap[o].keys = <<>> <=> KeyWeights(heap, o) = <<>>
        /\ \A j \in 1 .. Len(heap[o].keys) : KeyWeights(heap, o)[j] = heap[o].keys[j].weight
        /\ heap[o].keys # <<>> => i \in 1 .. Len(heap[o].keys)
    <3>1. /\ heap[o].keys \in Seq(Key) /\ Len(heap[o].keys) \in {0, Len(heap[o].children)}
      BY HeapFacts DEF Inv
    <3>2. heap[o].keys # <<>> => Len(heap[o].keys) # 0
      BY <3>1, EmptySeq
    <3>. QED  BY <3>1, <3>2, WeightFacts DEF Inv
  <2>2. heap[o].keys = <<>> \/ KeyWeights(heap, o)[i] = KeyOf(o, i).weight
    BY <2>1 DEF KeyOf
  <2>. QED  BY <2>1, <2>2, NoKeyFits DEF EdgeOf, KeyCharge, KeyOf
<1>. QED  BY <1>1, <1>2

LEMMA Tariffs ==
    ASSUME Inv, ~ Over, Budgeted
    PROVE  /\ IsTariff(heap, NodesIn(heap), NodeOf, EdgeOf(heap, "none"))
           /\ IsTariff(heap, TextIn(heap), ShareOf(heap, walker), EdgeOf(heap, walker))
<1>1. heap \in Heaps /\ walker \in {"gateway", "checker"}
  BY WalkerIs DEF Inv
<1>. QED  BY <1>1, NodesTariff, GatewayTariff, CheckerTariff

LEMMA TotalsAreNat ==
    ASSUME Inv
    PROVE  /\ NodesIn(heap)[MaxDepth + 1][root] \in Nat
           /\ TextIn(heap)[MaxDepth + 1][root] \in Nat
<1>1. heap \in Heaps /\ root \in Objects /\ MaxDepth + 1 \in 0 .. MaxDepth + 1
  BY DepthIsNat DEF Inv, WalkStaysWithinLimits
<1>2. /\ NodesIn(heap) \in [0 .. MaxDepth + 1 -> [Objects -> Nat]]
      /\ TextIn(heap) \in [0 .. MaxDepth + 1 -> [Objects -> Nat]]
  BY <1>1, SharesAreNat, UnfoldedLevels DEF NodesIn, TextIn
<1>. QED  BY <1>1, <1>2

(* A walk that ends with the verdict of its contract.                      *)
LEMMA Decided ==
    ASSUME VerdictInv, Inv', ~ Over, NEW v, End(v), v = "accepted" <=> Contract,
           UNCHANGED <<heap, root, payload>>
    PROVE  VerdictInv'
<1> DEFINE n == Len(verdicts)
<1>1. Inv /\ verdicts' = Append(verdicts, v) /\ stack' = <<>> /\ nodes' = 0 /\ text' = 0
  BY DEF VerdictInv, End
<1>2. /\ n \in 0 .. 2 /\ verdicts \in Seq({"accepted", "refused"})
      /\ Budgeted <=> n \in {0, 1}
  BY <1>1, WalkerIs
<1>3. /\ Len(verdicts') = n + 1 /\ DOMAIN verdicts' = 1 .. n + 1 /\ DOMAIN verdicts = 1 .. n
      /\ verdicts'[n + 1] = v
      /\ \A i \in 1 .. n : verdicts'[i] = verdicts[i]
  BY <1>1, <1>2
<1>4. PreflightDecidesContract'
  <2>1. SUFFICES ASSUME NEW i \in {1, 2}, i \in DOMAIN verdicts'
                 PROVE  verdicts'[i] = "accepted"
                          <=> WellFormed(root, TRUE)' /\ WithinBudgets(root)'
    BY DEF PreflightDecidesContract
  <2>2. /\ WellFormed(root, TRUE)' <=> WellFormed(root, TRUE)
        /\ WithinBudgets(root)' <=> WithinBudgets(root)
    BY DEF WellFormed, WithinBudgets
  <2>3. CASE i \in 1 .. n
    BY <1>3, <2>2, <2>3 DEF VerdictInv, PreflightDecidesContract
  <2>4. CASE i = n + 1
    <3>1. Budgeted
      BY <1>2, <2>4
    <3>. QED  BY <1>1, <1>3, <2>2, <2>4, <3>1, ContractIs
  <2>5. i \in 1 .. n \/ i = n + 1
    BY <1>2, <1>3, <2>1
  <2>. QED  BY <2>3, <2>4, <2>5
<1>5. ValidatorDecidesContract'
  <2>1. SUFFICES ASSUME Over'
                 PROVE  verdicts'[3] = "accepted"
                          <=> heap[payload].kind = "dict" /\ WellFormed(payload, FALSE)'
    BY DEF ValidatorDecidesContract
  <2>2. n + 1 = 3
    BY <1>3, <2>1 DEF Over, Walkers
  <2>3. n = 2 /\ ~ Budgeted
    BY <1>2, <2>2
  <2>4. WellFormed(payload, FALSE)' <=> WellFormed(payload, FALSE)
    BY DEF WellFormed
  <2>. QED  BY <1>1, <1>3, <2>2, <2>3, <2>4, ContractIs
<1>6. WalkInv'
  <2>1. Stands(heap', Budgeted', Start', stack')
    BY <1>1, EmptyStands
  <2>. QED  BY <1>1, <2>1 DEF WalkInv
<1>7. (payload \in Range(heap[root].children) \cup {root})'
  BY DEF VerdictInv
<1>. QED  BY <1>4, <1>5, <1>6, <1>7 DEF VerdictInv

(* A walk that goes on.                                                    *)
LEMMA GoesOn ==
    ASSUME VerdictInv, Inv', ~ Over, UNCHANGED <<heap, root, payload, verdicts>>,
           Stands(heap, Budgeted, Start, stack'), stack' # <<>>,
           ~ Budgeted => heap[payload].kind = "dict",
           Budgeted => /\ Balanced(heap, NodesIn(heap), EdgeOf(heap, "none"), root, stack', nodes')
                       /\ Balanced(heap, TextIn(heap), EdgeOf(heap, walker), root, stack', text')
    PROVE  VerdictInv'
<1>1. walker' = walker /\ Over' = Over
  BY DEF walker, Over
<1>2. Budgeted' = Budgeted /\ Start' = Start
  BY <1>1 DEF Budgeted, Start
<1>3. WalkInv'
  BY <1>1, <1>2 DEF WalkInv
<1>4. PreflightDecidesContract' /\ ValidatorDecidesContract'
  BY <1>1 DEF VerdictInv, PreflightDecidesContract, ValidatorDecidesContract,
              WellFormed, WithinBudgets
<1>5. (payload \in Range(heap[root].children) \cup {root})'
  BY DEF VerdictInv
<1>. QED  BY <1>3, <1>4, <1>5 DEF VerdictInv

LEMMA BeginDecides ==
    ASSUME VerdictInv, Inv', Begin
    PROVE  VerdictInv'
<1> DEFINE o == Start
           f == [object |-> o, next |-> 1]
<1> DEFINE refusesAtOnce == ~ Budgeted /\ heap[payload].kind # "dict"
<1>0. CASE refusesAtOnce
  <2>1. ~ Over /\ End("refused") /\ UNCHANGED <<heap, root, payload>> /\ ~ Contract
    BY <1>0 DEF Begin, Budgeted, Contract
  <2>. QED  BY <2>1, Decided
<1>00. SUFFICES ASSUME ~ refusesAtOnce PROVE VerdictInv'
  BY <1>0
<1>1. /\ Inv /\ ~ Over /\ stack = <<>> /\ Enter(o, NoKey) /\ UNCHANGED <<heap, root, payload>>
      /\ nodes = 0 /\ text = 0 /\ heap \in Heaps
      /\ ~ Budgeted => heap[payload].kind = "dict"
  BY <1>00 DEF Begin, VerdictInv, WalkInv, Inv, Budgeted
<1>2. o \in Objects /\ (Budgeted => o = root)
  BY <1>1, WalkerIs
<1>3. Budgeted => active = {}
  BY <1>1, EmptyPath DEF Inv, WalkStaysWithinLimits
<1>4. ~ (Len(stack) > MaxDepth) /\ KeyFits(NoKey, Budgeted)
  <2>1. Len(stack) = 0 /\ MaxDepth \in Nat
    BY <1>1, ExactJsonAssumption
  <2>. QED  BY <2>1, NoKeyFits
<1>5. NodeOf[o] = 1 /\ ShareOf(heap, walker)[o] = OwnCharge(o) /\ KeyCharge(NoKey) = 0
      /\ OwnCharge(o) \in Nat
  BY <1>1, <1>2, ChargeIs, ChargesAreNat
<1>6. ASSUME Budgeted
      PROVE  /\ 1 <= NodesIn(heap)[MaxDepth + 1][root]
             /\ OwnCharge(o) <= TextIn(heap)[MaxDepth + 1][root]
             /\ ~ IsContainer(o) => /\ NodesIn(heap)[MaxDepth + 1][root] = 1
                                    /\ TextIn(heap)[MaxDepth + 1][root] = OwnCharge(o)
             /\ Balanced(heap, NodesIn(heap), EdgeOf(heap, "none"), root, Append(<<>>, f), 1)
             /\ Balanced(heap, TextIn(heap), EdgeOf(heap, walker), root, Append(<<>>, f), OwnCharge(o))
  <2>1. /\ IsTariff(heap, NodesIn(heap), NodeOf, EdgeOf(heap, "none"))
        /\ IsTariff(heap, TextIn(heap), ShareOf(heap, walker), EdgeOf(heap, walker))
    BY <1>1, <1>6, Tariffs
  <2> HIDE DEF o
  <2>2. /\ NodeOf[o] <= NodesIn(heap)[MaxDepth + 1][o]
        /\ heap[o].kind \notin Containers => NodeOf[o] = NodesIn(heap)[MaxDepth + 1][o]
        /\ Balanced(heap, NodesIn(heap), EdgeOf(heap, "none"), o, Append(<<>>, f), NodeOf[o])
    BY <1>1, <1>2, <2>1, Opened
  <2>3. /\ ShareOf(heap, walker)[o] <= TextIn(heap)[MaxDepth + 1][o]
        /\ heap[o].kind \notin Containers =>
              ShareOf(heap, walker)[o] = TextIn(heap)[MaxDepth + 1][o]
        /\ Balanced(heap, TextIn(heap), EdgeOf(heap, walker), o, Append(<<>>, f),
                    ShareOf(heap, walker)[o])
    BY <1>1, <1>2, <2>1, Opened
  <2>. QED  BY <1>2, <1>5, <1>6, <2>2, <2>3 DEF IsContainer
<1>7. Contract => FineAlone(heap, o, Budgeted)
  <2>1. MaxDepth \in 0 .. MaxDepth
    BY DepthIsNat
  <2>. QED  BY <1>1, <1>2, <2>1, FineOfChildren DEF Contract
<1>8. CASE Refused(o, NoKey)
  <2>1. ~ Contract
    <3>1. SUFFICES ASSUME Contract PROVE FALSE
      OBVIOUS
    <3>2. Usable(o)
      BY <1>1, <1>2, <1>7, <3>1, UsableIs
    <3>3. /\ Budgeted
          /\ nodes + 1 > MaxNodes \/ text + KeyCharge(NoKey) + OwnCharge(o) > MaxText
      <4> HIDE DEF o
      <4>1. \/ ~ KeyFits(NoKey, Budgeted) \/ Len(stack) > MaxDepth \/ ~ Usable(o)
            \/ /\ Budgeted
               /\ \/ nodes + 1 > MaxNodes
                  \/ text + KeyCharge(NoKey) + OwnCharge(o) > MaxText
                  \/ o \in active
        BY <1>8 DEF Refused
      <4>. QED  BY <1>3, <1>4, <3>2, <4>1
    <3>4. 1 > MaxNodes \/ OwnCharge(o) > MaxText
      BY <1>1, <1>5, <3>3
    <3>5. /\ NodesIn(heap)[MaxDepth + 1][root] <= MaxNodes
          /\ TextIn(heap)[MaxDepth + 1][root] <= MaxText
      BY <3>1, <3>3 DEF Contract
    <3>. QED  BY <1>1, <1>5, <1>6, <3>3, <3>4, <3>5, TotalsAreNat, ExactJsonAssumption
  <2>2. End("refused")
    BY <1>1, <1>8 DEF Enter
  <2>. QED  BY <1>1, <2>1, <2>2, Decided
<1>9. ASSUME ~ Refused(o, NoKey)
      PROVE  /\ Usable(o)
             /\ Budgeted => 1 <= MaxNodes /\ OwnCharge(o) <= MaxText
  <2>1. /\ Usable(o)
        /\ Budgeted => /\ ~ (nodes + 1 > MaxNodes)
                       /\ ~ (text + KeyCharge(NoKey) + OwnCharge(o) > MaxText)
    BY <1>9 DEF Refused
  <2>. QED  BY <1>1, <1>5, <2>1, ExactJsonAssumption
<1>10. CASE ~ Refused(o, NoKey) /\ ~ IsContainer(o)
  <2>1. FineAlone(heap, o, Budgeted)
    BY <1>1, <1>2, <1>9, <1>10, UsableIs
  <2>2. o \in Fine(heap, Budgeted)[MaxDepth + 1]
    <3>1. heap[o].children = <<>> /\ MaxDepth \in 0 .. MaxDepth
      BY <1>1, <1>2, <1>10, HeapFacts, DepthIsNat DEF IsContainer
    <3>2. 1 .. Len(heap[o].children) = {}
      BY <3>1
    <3>. QED  BY <1>1, <1>2, <2>1, <3>1, <3>2, FineOfChildren
  <2>3. Contract
    BY <1>1, <1>6, <1>9, <1>10, <2>2 DEF Contract
  <2>4. End("accepted")
    BY <1>1, <1>10 DEF Enter
  <2>. QED  BY <1>1, <2>3, <2>4, Decided
<1>11. CASE ~ Refused(o, NoKey) /\ IsContainer(o)
  <2>1. /\ nodes' = (IF Budgeted THEN nodes + 1 ELSE 0)
        /\ text' = (IF Budgeted THEN text + KeyCharge(NoKey) + OwnCharge(o) ELSE 0)
        /\ stack' = Append(Advanced, f) /\ UNCHANGED verdicts
    BY <1>1, <1>11 DEF Enter
  <2>2. stack' = Append(<<>>, f)
    BY <1>1, <2>1 DEF Advanced
  <2>3. Budgeted => nodes' = 1 /\ text' = OwnCharge(o)
    BY <1>1, <1>5, <2>1
  <2>4. Stands(heap, Budgeted, o, stack')
    <3>1. Walkable(heap, o, Budgeted)
      BY <1>1, <1>2, <1>9, <1>11, UsableIs
    <3> HIDE DEF o
    <3>2. Stands(heap, Budgeted, o, Append(<<>>, f))
      BY <1>1, <1>2, <3>1, EnteredFirst
    <3>. QED  BY <2>2, <3>2
  <2>5. stack' # <<>>
    BY <2>2
  <2>6. Budgeted => /\ Balanced(heap, NodesIn(heap), EdgeOf(heap, "none"), root, stack', nodes')
                    /\ Balanced(heap, TextIn(heap), EdgeOf(heap, walker), root, stack', text')
    BY <1>6, <2>2, <2>3
  <2>. QED  BY <1>1, <2>1, <2>4, <2>5, <2>6, GoesOn
<1>. QED  BY <1>8, <1>10, <1>11

(* The innermost loop of a walk in progress.                               *)
LEMMA Innermost ==
    ASSUME VerdictInv, stack # <<>>
    PROVE  /\ Inv /\ ~ Over /\ heap \in Heaps
           /\ Stands(heap, Budgeted, Start, stack) /\ Looping(heap, stack)
           /\ Top = Last(stack) /\ Top.object \in Objects
           /\ Top.next \in Nat \ {0} /\ Top.next <= Len(heap[Top.object].children) + 1
           /\ nodes \in Nat /\ text \in Nat /\ nodes <= MaxNodes /\ text <= MaxText
           /\ Len(stack) \in Nat /\ Len(stack) > 0
           /\ ~ Budgeted => heap[payload].kind = "dict"
           /\ Budgeted =>
                /\ Balanced(heap, NodesIn(heap), EdgeOf(heap, "none"), root, stack, nodes)
                /\ Balanced(heap, TextIn(heap), EdgeOf(heap, walker), root, stack, text)
<1>1. Inv /\ ~ Over /\ heap \in Heaps
  BY DEF VerdictInv, Inv, WalkStaysWithinLimits
<1>2. WalkInv
  BY <1>1 DEF VerdictInv
<1>3. Stands(heap, Budgeted, Start, stack) /\ Looping(heap, stack)
  BY <1>2 DEF WalkInv, Stands
<1>4. /\ Last(stack).object \in Objects /\ Last(stack).next \in Nat \ {0}
      /\ Last(stack).next <= Len(heap[Last(stack).object].children) + 1
      /\ Len(stack) \in 1 .. MaxDepth + 1
  BY <1>1, <1>3, LoopOnTop
<1>5. nodes \in Nat /\ text \in Nat /\ nodes <= MaxNodes /\ text <= MaxText
  BY <1>1, ExactJsonAssumption DEF Inv, WalkStaysWithinLimits
<1>. QED  BY <1>1, <1>2, <1>3, <1>4, <1>5, DepthIsNat DEF WalkInv, Top

LEMMA DescendDecides ==
    ASSUME VerdictInv, Inv', Descend
    PROVE  VerdictInv'
<1> DEFINE o == Top.object
           k == Top.next
           c == heap[o].children[k]
           key == KeyOf(o, k)
           f == [object |-> c, next |-> 1]
<1>1. /\ stack # <<>> /\ k <= Len(heap[o].children) /\ Enter(c, key)
      /\ UNCHANGED <<heap, root, payload>>
  BY DEF Descend
<1>2. /\ Inv /\ ~ Over /\ heap \in Heaps
      /\ Stands(heap, Budgeted, Start, stack) /\ Looping(heap, stack)
      /\ Last(stack) = Top /\ o \in Objects /\ k \in Nat \ {0}
      /\ nodes \in Nat /\ text \in Nat
  BY <1>1, Innermost
<1>3. k \in 1 .. Len(heap[o].children) /\ c \in Objects
  <2>1. Len(heap[o].children) \in Nat /\ \A i \in 1 .. Len(heap[o].children) : heap[o].children[i] \in Objects
    BY <1>2, HeapFacts
  <2>. QED  BY <1>1, <1>2, <2>1
<1>4. key = KeyIn(heap, o, k) /\ OwnCharge(c) \in Nat /\ KeyCharge(key) \in Nat
  BY <1>2, <1>3, ChargesAreNat DEF KeyOf, KeyIn
<1>5. /\ NodeOf[c] = 1 /\ ShareOf(heap, walker)[c] = OwnCharge(c)
      /\ EdgeOf(heap, "none")[o][k] = 0 /\ EdgeOf(heap, walker)[o][k] = KeyCharge(key)
  BY <1>2, <1>3, ChargeIs
<1>6. ASSUME Budgeted, Len(stack) <= MaxDepth
      PROVE  /\ nodes + 1 <= NodesIn(heap)[MaxDepth + 1][root]
             /\ ~ IsContainer(c) =>
                   Balanced(heap, NodesIn(heap), EdgeOf(heap, "none"), root, Moved(stack), nodes + 1)
             /\ Balanced(heap, NodesIn(heap), EdgeOf(heap, "none"), root,
                         Append(Moved(stack), f), nodes + 1)
  <2>1. /\ IsTariff(heap, NodesIn(heap), NodeOf, EdgeOf(heap, "none"))
        /\ Balanced(heap, NodesIn(heap), EdgeOf(heap, "none"), root, stack, nodes)
    BY <1>1, <1>2, <1>6, Tariffs, Innermost
  <2> DEFINE more == EdgeOf(heap, "none")[o][k] + NodeOf[c]
  <2>2. more = 1
    BY <1>5
  <2>3. /\ Last(stack).next <= Len(heap[Last(stack).object].children)
        /\ c = heap[Last(stack).object].children[Last(stack).next]
        /\ more = EdgeOf(heap, "none")[Last(stack).object][Last(stack).next] + NodeOf[c]
    BY <1>1, <1>2, SMTT(30)
  <2> HIDE DEF more, c, o, k
  <2>4. /\ nodes + more <= NodesIn(heap)[MaxDepth + 1][root]
        /\ heap[c].kind \notin Containers =>
              Balanced(heap, NodesIn(heap), EdgeOf(heap, "none"), root, Moved(stack), nodes + more)
        /\ Balanced(heap, NodesIn(heap), EdgeOf(heap, "none"), root,
                    Append(Moved(stack), f), nodes + more)
    BY <1>1, <1>2, <1>6, <2>1, <2>3, Charged
  <2>. QED  BY <2>2, <2>4 DEF IsContainer
<1>7. ASSUME Budgeted, Len(stack) <= MaxDepth
      PROVE  /\ text + KeyCharge(key) + OwnCharge(c) <= TextIn(heap)[MaxDepth + 1][root]
             /\ ~ IsContainer(c) =>
                   Balanced(heap, TextIn(heap), EdgeOf(heap, walker), root, Moved(stack),
                            text + KeyCharge(key) + OwnCharge(c))
             /\ Balanced(heap, TextIn(heap), EdgeOf(heap, walker), root,
                         Append(Moved(stack), f), text + KeyCharge(key) + OwnCharge(c))
  <2>1. /\ IsTariff(heap, TextIn(heap), ShareOf(heap, walker), EdgeOf(heap, walker))
        /\ Balanced(heap, TextIn(heap), EdgeOf(heap, walker), root, stack, text)
    BY <1>1, <1>2, <1>7, Tariffs, Innermost
  <2> DEFINE more == EdgeOf(heap, walker)[o][k] + ShareOf(heap, walker)[c]
  <2>2. text + more = text + KeyCharge(key) + OwnCharge(c)
    BY <1>2, <1>4, <1>5
  <2>3. /\ Last(stack).next <= Len(heap[Last(stack).object].children)
        /\ c = heap[Last(stack).object].children[Last(stack).next]
        /\ more = EdgeOf(heap, walker)[Last(stack).object][Last(stack).next]
                    + ShareOf(heap, walker)[c]
    BY <1>1, <1>2, SMTT(30)
  <2> HIDE DEF more, c, o, k
  <2>4. /\ text + more <= TextIn(heap)[MaxDepth + 1][root]
        /\ heap[c].kind \notin Containers =>
              Balanced(heap, TextIn(heap), EdgeOf(heap, walker), root, Moved(stack), text + more)
        /\ Balanced(heap, TextIn(heap), EdgeOf(heap, walker), root,
                    Append(Moved(stack), f), text + more)
    BY <1>1, <1>2, <1>7, <2>1, <2>3, Charged, ZenonT(30)
  <2>. QED  BY <2>2, <2>4 DEF IsContainer
<1>8. Contract => /\ Len(stack) <= MaxDepth /\ KeyFits(key, Budgeted) /\ Usable(c)
                  /\ Budgeted => c \notin active
  <2>1. SUFFICES ASSUME Contract
                 PROVE  /\ Len(stack) <= MaxDepth /\ KeyFits(key, Budgeted) /\ Usable(c)
                        /\ Budgeted => c \notin active
    OBVIOUS
  <2>2. Start \in Fine(heap, Budgeted)[MaxDepth + 1]
    BY <2>1 DEF Contract
  <2>3. /\ Len(stack) <= MaxDepth /\ FineAlone(heap, o, Budgeted) /\ FineAlone(heap, c, Budgeted)
    BY <1>1, <1>2, <2>2, NextChild
  <2>4. c \notin Range(PathOf(stack))
    BY <1>1, <1>2, <2>2, CycleMet
  <2>5. Budgeted => active = Range(PathOf(stack))
    BY <1>2 DEF Inv, WalkStaysWithinLimits
  <2>. QED  BY <1>2, <1>3, <2>3, <2>4, <2>5, UsableIs
<1>9. CASE Refused(c, key)
  <2>1. ~ Contract
    <3>1. SUFFICES ASSUME Contract PROVE FALSE
      OBVIOUS
    <3>2. /\ Budgeted
          /\ nodes + 1 > MaxNodes \/ text + KeyCharge(key) + OwnCharge(c) > MaxText
      <4>1. MaxDepth \in Nat /\ Len(stack) \in Nat
        BY <1>1, Innermost, ExactJsonAssumption
      <4>2. KeyFits(key, Budgeted) /\ ~ (Len(stack) > MaxDepth)
        BY <1>4, <1>8, <3>1, <4>1
      <4>. QED  BY <1>8, <1>9, <3>1, <4>2 DEF Refused
    <3>3. /\ NodesIn(heap)[MaxDepth + 1][root] <= MaxNodes
          /\ TextIn(heap)[MaxDepth + 1][root] <= MaxText
      BY <3>1, <3>2 DEF Contract
    <3> DEFINE x == text + KeyCharge(key) + OwnCharge(c)
    <3>4. x \in Nat /\ x <= TextIn(heap)[MaxDepth + 1][root]
          /\ nodes + 1 <= NodesIn(heap)[MaxDepth + 1][root]
      BY <1>2, <1>4, <1>6, <1>7, <1>8, <3>1, <3>2
    <3>5. nodes + 1 > MaxNodes \/ x > MaxText
      BY <3>2
    <3> HIDE DEF x
    <3>. QED  BY <1>2, <3>3, <3>4, <3>5, TotalsAreNat, ExactJsonAssumption, SMTT(30)
  <2>2. End("refused")
    BY <1>1, <1>9 DEF Enter
  <2>. QED  BY <1>1, <1>2, <2>1, <2>2, Decided
<1>10. CASE ~ Refused(c, key)
  <2>1. /\ nodes' = (IF Budgeted THEN nodes + 1 ELSE 0)
        /\ text' = (IF Budgeted THEN text + KeyCharge(key) + OwnCharge(c) ELSE 0)
        /\ stack' = (IF IsContainer(c) THEN Append(Advanced, f) ELSE Advanced)
        /\ UNCHANGED verdicts
    BY <1>1, <1>10 DEF Enter
  <2>2. Advanced = Moved(stack)
    BY <1>1 DEF Advanced, Moved, Top
  <2>3. KeyFits(key, Budgeted) /\ Len(stack) <= MaxDepth /\ Usable(c)
    <3>1. MaxDepth \in Nat /\ Len(stack) \in Nat
      BY <1>1, Innermost, ExactJsonAssumption
    <3>2. KeyFits(key, Budgeted) /\ ~ (Len(stack) > MaxDepth) /\ Usable(c)
      BY <1>10 DEF Refused
    <3>. QED  BY <1>4, <3>1, <3>2
  <2>4. Stands(heap, Budgeted, Start, stack')
    <3>1. CASE ~ IsContainer(c)
      <4>1. FineAlone(heap, c, Budgeted) /\ heap[c].kind \notin Containers
        BY <1>2, <1>3, <2>3, <3>1, UsableIs, SMTT(30) DEF IsContainer
      <4>2. Stands(heap, Budgeted, Start, Moved(stack))
        BY <1>1, <1>2, <1>4, <2>3, <4>1, PassedLeaf, Zenon
      <4>. QED  BY <2>1, <2>2, <3>1, <4>2
    <3>2. CASE IsContainer(c)
      <4>1. Walkable(heap, c, Budgeted)
        BY <1>2, <1>3, <2>3, <3>2, UsableIs, SMTT(30)
      <4>2. Stands(heap, Budgeted, Start, Append(Moved(stack), f))
        BY <1>1, <1>2, <1>4, <2>3, <4>1, EnteredContainer
      <4>. QED  BY <2>1, <2>2, <3>2, <4>2
    <3>. QED  BY <3>1, <3>2
  <2>5. stack' # <<>>
    <3>1. Moved(stack) \in Seq(Frame) /\ Len(Moved(stack)) = Len(stack) /\ Len(stack) > 0
          /\ Len(stack) \in Nat
      BY <1>1, <1>2, MovedLoop, Innermost DEF Looping
    <3> DEFINE M == Moved(stack)
    <3>2. M \in Seq(Frame) /\ Len(M) > 0
      BY <3>1
    <3> HIDE DEF M
    <3>3. M # <<>> /\ Append(M, f) # <<>>
      BY <3>2
    <3>. QED  BY <2>1, <2>2, <3>3 DEF M
  <2>6. ASSUME Budgeted
        PROVE  /\ Balanced(heap, NodesIn(heap), EdgeOf(heap, "none"), root, stack', nodes')
               /\ Balanced(heap, TextIn(heap), EdgeOf(heap, walker), root, stack', text')
    BY <1>6, <1>7, <2>1, <2>2, <2>3, <2>6
  <2>. QED  BY <1>1, <1>2, <2>1, <2>4, <2>5, <2>6, GoesOn, Innermost
<1>. QED  BY <1>9, <1>10

LEMMA LeaveDecides ==
    ASSUME VerdictInv, Inv', Leave
    PROVE  VerdictInv'
<1>1. /\ stack # <<>> /\ Top.next > Len(heap[Top.object].children)
      /\ UNCHANGED <<heap, root, payload>>
  BY DEF Leave
<1>2. /\ Inv /\ ~ Over /\ heap \in Heaps
      /\ Stands(heap, Budgeted, Start, stack) /\ Looping(heap, stack)
      /\ Last(stack) = Top /\ nodes \in Nat /\ text \in Nat /\ nodes <= MaxNodes /\ text <= MaxText
      /\ Len(stack) \in Nat /\ Len(stack) > 0
  BY <1>1, Innermost
<1>3. Last(stack).next > Len(heap[Last(stack).object].children)
  BY <1>1, <1>2
<1>4. ASSUME Budgeted
      PROVE  /\ Balanced(heap, NodesIn(heap), EdgeOf(heap, "none"), root, Front(stack), nodes)
             /\ Balanced(heap, TextIn(heap), EdgeOf(heap, walker), root, Front(stack), text)
             /\ Len(stack) = 1 => /\ nodes = NodesIn(heap)[MaxDepth + 1][root]
                                  /\ text = TextIn(heap)[MaxDepth + 1][root]
  <2>1. /\ IsTariff(heap, NodesIn(heap), NodeOf, EdgeOf(heap, "none"))
        /\ IsTariff(heap, TextIn(heap), ShareOf(heap, walker), EdgeOf(heap, walker))
        /\ Balanced(heap, NodesIn(heap), EdgeOf(heap, "none"), root, stack, nodes)
        /\ Balanced(heap, TextIn(heap), EdgeOf(heap, walker), root, stack, text)
    BY <1>1, <1>2, <1>4, Tariffs, Innermost
  <2>2. /\ Balanced(heap, NodesIn(heap), EdgeOf(heap, "none"), root, Front(stack), nodes)
        /\ Len(stack) = 1 => nodes = NodesIn(heap)[MaxDepth + 1][root]
    BY <1>1, <1>2, <1>3, <2>1, Closed
  <2>3. /\ Balanced(heap, TextIn(heap), EdgeOf(heap, walker), root, Front(stack), text)
        /\ Len(stack) = 1 => text = TextIn(heap)[MaxDepth + 1][root]
    BY <1>1, <1>2, <1>3, <2>1, Closed
  <2>. QED  BY <2>2, <2>3
<1>5. CASE Len(stack) = 1
  <2>1. End("accepted")
    BY <1>5 DEF Leave
  <2>2. Last(stack) = stack[1] /\ stack[1].object = Start
    BY <1>1, <1>2, <1>5, LoopOnTop DEF Stands
  <2>3. Last(stack).object \in Fine(heap, Budgeted)[MaxDepth + 2 - Len(stack)]
    BY <1>1, <1>2, <1>3, LoopedOver
  <2>4. MaxDepth + 2 - Len(stack) = MaxDepth + 1
    BY <1>5, DepthIsNat
  <2>5. Start \in Fine(heap, Budgeted)[MaxDepth + 1]
    BY <2>2, <2>3, <2>4
  <2>6. Contract
    BY <1>1, <1>2, <1>4, <1>5, <2>5, Innermost DEF Contract
  <2>. QED  BY <1>1, <1>2, <2>1, <2>6, Decided
<1>6. CASE Len(stack) # 1
  <2>1. stack' = Front(stack) /\ UNCHANGED <<verdicts, nodes, text>>
    BY <1>6 DEF Leave
  <2>2. Stands(heap, Budgeted, Start, stack')
    BY <1>1, <1>2, <1>3, <1>6, <2>1, LoopLeft
  <2>3. stack' # <<>>
    <3>1. Len(Front(stack)) = Len(stack) - 1
      BY <1>1, <1>2, LoopOnTop
    <3>2. Len(stack') \in Nat /\ Len(stack') > 0
      BY <1>2, <1>6, <2>1, <3>1
    <3>. QED  BY <3>2
  <2>4. Budgeted => /\ Balanced(heap, NodesIn(heap), EdgeOf(heap, "none"), root, stack', nodes')
                    /\ Balanced(heap, TextIn(heap), EdgeOf(heap, walker), root, stack', text')
    BY <1>4, <2>1
  <2>. QED  BY <1>1, <1>2, <2>1, <2>2, <2>3, <2>4, GoesOn, Innermost
<1>. QED  BY <1>5, <1>6

LEMMA InitVerdict == Init => VerdictInv
<1>1. SUFFICES ASSUME Init PROVE VerdictInv
  OBVIOUS
<1>2. Inv /\ verdicts = <<>> /\ stack = <<>> /\ nodes = 0 /\ text = 0
      /\ payload \in Range(heap[root].children) \cup {root}
  BY <1>1, InitInv DEF Init
<1>3. ~ Over /\ DOMAIN verdicts = {}
  BY <1>2 DEF Over, Walkers
<1>4. WalkInv
  BY <1>2, EmptyStands DEF WalkInv
<1>. QED  BY <1>2, <1>3, <1>4 DEF VerdictInv, PreflightDecidesContract, ValidatorDecidesContract

LEMMA NextVerdict ==
    ASSUME VerdictInv, [Next]_vars
    PROVE  VerdictInv'
<1>1. Inv'
  BY NextInv DEF VerdictInv
<1>2. CASE Begin
  BY <1>1, <1>2, BeginDecides
<1>3. CASE Descend
  BY <1>1, <1>3, DescendDecides
<1>4. CASE Leave
  BY <1>1, <1>4, LeaveDecides
<1>5. CASE UNCHANGED vars
  <2>1. UNCHANGED <<heap, root, payload, verdicts, stack, nodes, text>>
    BY <1>5 DEF vars, walk
  <2>2. walker' = walker /\ Over' = Over
    BY <2>1 DEF walker, Over
  <2>3. Budgeted' = Budgeted /\ Start' = Start
    BY <2>1, <2>2 DEF Budgeted, Start
  <2>4. PreflightDecidesContract' /\ ValidatorDecidesContract'
    BY <2>1, <2>2 DEF VerdictInv, PreflightDecidesContract, ValidatorDecidesContract,
                      WellFormed, WithinBudgets
  <2>5. ~ Over' => WalkInv'
    BY <2>1, <2>2, <2>3 DEF VerdictInv, WalkInv
  <2>. QED  BY <1>1, <2>1, <2>4, <2>5 DEF VerdictInv
<1>. QED  BY <1>2, <1>3, <1>4, <1>5 DEF Next

(* The verdict of either preflight is what the contract says of the value: *)
(* they agree, count aliases at each occurrence and refuse cycles          *)
(* (policy_binding.py:72-135).                                             *)
THEOREM PreflightDecides == Spec => []PreflightDecidesContract
<1>1. VerdictInv => PreflightDecidesContract
  BY DEF VerdictInv
<1>2. VerdictInv /\ [Next]_vars => VerdictInv'
  BY NextVerdict
<1>. QED  BY <1>1, <1>2, InitVerdict, PTL DEF Spec

(* The validator takes what its contract says: a dict, within the depth    *)
(* limit, of values and keys that may be of subclasses, or text without an *)
(* encoding. The depth limit alone refuses every cycle                     *)
(* (validation.py:66-106).                                                 *)
THEOREM ValidatorDecides == Spec => []ValidatorDecidesContract
<1>1. VerdictInv => ValidatorDecidesContract
  BY DEF VerdictInv
<1>2. VerdictInv /\ [Next]_vars => VerdictInv'
  BY NextVerdict
<1>. QED  BY <1>1, <1>2, InitVerdict, PTL DEF Spec

(* A dict that is the payload inside what passes the preflight passes the  *)
(* validator: the contract of the one implies that of the other, a level   *)
(* further down (policy_binding.py:174-189, validation.py:102-106).        *)
THEOREM PreflightedValidates == Spec => []SnapshotsValidate
<1>1. ASSUME VerdictInv PROVE SnapshotsValidate
  <2>1. SUFFICES ASSUME Over, verdicts[1] = "accepted", heap[payload].kind = "dict"
                 PROVE  verdicts[3] = "accepted"
    BY DEF SnapshotsValidate
  <2>2. /\ Inv /\ heap \in Heaps /\ root \in Objects
        /\ payload \in Range(heap[root].children) \cup {root}
        /\ PreflightDecidesContract /\ ValidatorDecidesContract
    BY <1>1 DEF VerdictInv, Inv, WalkStaysWithinLimits
  <2>3. 1 \in DOMAIN verdicts
    BY <2>1, <2>2 DEF Inv, WalkStaysWithinLimits, Over, Walkers
  <2>4. root \in Fine(heap, TRUE)[MaxDepth + 1]
    BY <2>1, <2>2, <2>3 DEF PreflightDecidesContract, WellFormed
  <2>5. MaxDepth \in 0 .. MaxDepth /\ MaxDepth + 1 \in 0 .. MaxDepth + 1
    BY DepthIsNat
  <2> DEFINE exact == TRUE
  <2>6. root \in Fine(heap, exact)[MaxDepth + 1]
    BY <2>4
  <2> HIDE DEF exact
  <2>7. Range(heap[root].children) \subseteq Fine(heap, exact)[MaxDepth]
    BY <2>2, <2>5, <2>6, FineLevels
  <2>8. Fine(heap, exact)[MaxDepth] \subseteq Fine(heap, exact)[MaxDepth + 1]
    BY <2>5, FineGrows
  <2>9. payload \in Fine(heap, exact)[MaxDepth + 1]
    BY <2>2, <2>6, <2>7, <2>8
  <2>10. payload \in Fine(heap, TRUE)[MaxDepth + 1]
    BY <2>9 DEF exact
  <2>11. payload \in Fine(heap, FALSE)[MaxDepth + 1]
    BY <2>5, <2>10, ExactIsFine
  <2>. QED  BY <2>1, <2>2, <2>11 DEF ValidatorDecidesContract, WellFormed
<1>2. VerdictInv /\ [Next]_vars => VerdictInv'
  BY NextVerdict
<1>. QED  BY <1>1, <1>2, InitVerdict, PTL DEF Spec
=============================================================================
