------------------------------ MODULE ExactJson ------------------------------
(***************************************************************************)
(* The bounded walk over a host value that decides whether it is exact     *)
(* JSON: _preflight_exact_json of the gateway, _preflight_governed_value   *)
(* of the independent checker, and _validate_payload of the validator,     *)
(* whose walk _validate_canonical_value has no budgets and starts one      *)
(* level further down, at a payload.                                       *)
(*                                                                         *)
(* A host value is an object on a heap: containers may be shared and may   *)
(* contain themselves. The walks are recursive in the code; here a stack   *)
(* holds the containers being iterated over, and one step enters one value *)
(* or leaves one container. Three walks are taken one after the other over *)
(* the same heap.                                                          *)
(***************************************************************************)
EXTENDS Naturals, Sequences, SequencesExt, Functions

CONSTANTS
    Objects,   \* host objects
    Heaps,     \* functions from Objects to what an object is (below)
    Roots,     \* objects a walk may be asked about
    MaxDepth, MaxNodes, MaxText,
    MaxLength, \* MAX_STRING_LENGTH
    MaxBits,   \* MAX_EXACT_JSON_INTEGER_BITS
    MaxItems   \* MAX_LIST_ITEMS and MAX_KEYS

VARIABLES
    heap,      \* what the objects are; no walk changes it
    root,      \* the value asked about
    payload,   \* the value in it that is validated
    verdicts,  \* of the walks that are over
    stack,     \* containers being iterated over: [object, next]
    active,    \* active_containers
    nodes, text  \* budget

walk == <<stack, active, nodes, text>>
vars == <<heap, root, payload, verdicts, walk>>

Containers == {"list", "dict"}
Scalars    == {"text", "number", "null"}   \* "null": None, True and False

(* An object is [kind, exact, size, weight, children, keys], a key of a    *)
(* dict [kind, exact, size, weight].  The kind is that of isinstance, and  *)
(* "other" is what every walk refuses, such as a float.  An object is      *)
(* exact if it is of the built-in type itself and, as text, has a UTF-8    *)
(* encoding.  The size is the length of text or the bits of a number, the  *)
(* weight what it adds to the text budget: its bytes or its digits.        *)
Key   == [kind : {"text", "other"}, exact : BOOLEAN, size : Nat, weight : Nat]
NoKey == [kind |-> "text", exact |-> TRUE, size |-> 0, weight |-> 0]

ASSUME ExactJsonAssumption ==
    /\ {MaxDepth, MaxNodes, MaxText, MaxLength, MaxBits, MaxItems} \subseteq Nat
    /\ Roots \subseteq Objects
    /\ \A h \in Heaps : \A o \in Objects :
          /\ h[o].size \in Nat /\ h[o].weight \in Nat
          /\ h[o].children \in Seq(Objects)
          /\ h[o].keys \in Seq(Key)
          /\ Len(h[o].keys) \in {0, Len(h[o].children)}
          /\ h[o].kind \notin Containers => h[o].children = <<>>

-----------------------------------------------------------------------------
(* Values.                                                                 *)

Walkers == <<"gateway", "checker", "validator">>
walker  == Walkers[Len(verdicts) + 1]
Over    == Len(verdicts) = Len(Walkers)
Start   == IF walker = "validator" THEN payload ELSE root

IsContainer(o) == heap[o].kind \in Containers
KeyOf(o, i)    == IF heap[o].keys = <<>> THEN NoKey ELSE heap[o].keys[i]

(* Whether a key passes.  The preflights want it exact, the validator      *)
(* takes an instance of a subclass and text without an encoding too.       *)
KeyFits(key, exact) ==
    /\ key.kind = "text" /\ key.size <= MaxLength
    /\ exact => key.exact

(* The sums of the first 0, 1, 2, ... elements of a sequence of numbers.   *)
PartialSums(s) ==
    LET sum[i \in 0 .. Len(s)] == IF i = 0 THEN 0 ELSE sum[i - 1] + s[i]
    IN sum
SumOf(s) == PartialSums(s)[Len(s)]

KeyWeights(h, o) == [i \in DOMAIN h[o].keys |-> h[o].keys[i].weight]

(* What the budgets of the preflights are charged: a scalar when it is     *)
(* entered; a key when its value is, or, by the checker, all the keys of a *)
(* dict when that is entered.                                              *)
Budgeted == walker # "validator"
KeyCharge(key) == IF walker = "gateway" THEN key.weight ELSE 0
OwnCharge(o) ==
    IF heap[o].kind \in {"text", "number"} THEN heap[o].weight
    ELSE IF walker = "checker" THEN SumOf(KeyWeights(heap, o))
    ELSE 0

(* The checks of a value by itself.                                        *)
Usable(o) ==
    /\ heap[o].kind \in Containers \cup Scalars
    /\ Budgeted => heap[o].exact
    /\ heap[o].kind = "text" => heap[o].size <= MaxLength
    /\ heap[o].kind = "number" /\ Budgeted => heap[o].size <= MaxBits
    /\ Len(heap[o].children) <= MaxItems
    /\ walker = "checker" => \A i \in DOMAIN heap[o].keys : KeyFits(heap[o].keys[i], TRUE)

(* Mutant of the next definition: the budget is checked before the value   *)
(* is charged to it.                                                       *)
RefusedLate(o, key) ==
    \/ ~ KeyFits(key, Budgeted)
    \/ Len(stack) > MaxDepth
    \/ ~ Usable(o)
    \/ Budgeted /\ (nodes > MaxNodes \/ text > MaxText \/ o \in active)

(* Mutant of the next definition: the preflights only charge keys.         *)
RefusedWithWideKeys(o, key) ==
    \/ ~ Budgeted /\ ~ KeyFits(key, Budgeted)
    \/ Len(stack) > MaxDepth
    \/ ~ Usable(o)
    \/ /\ Budgeted
       /\ \/ nodes + 1 > MaxNodes
          \/ text + KeyCharge(key) + OwnCharge(o) > MaxText
          \/ o \in active

(* Whether the walk raises when it comes to o, under a key or NoKey.       *)
Refused(o, key) ==
    \/ ~ KeyFits(key, Budgeted)
    \/ Len(stack) > MaxDepth
    \/ ~ Usable(o)
    \/ /\ Budgeted
       /\ \/ nodes + 1 > MaxNodes
          \/ text + KeyCharge(key) + OwnCharge(o) > MaxText
          \/ o \in active

-----------------------------------------------------------------------------
Init ==
    /\ heap \in Heaps
    /\ root \in Roots
    /\ payload \in Range(heap[root].children) \cup {root}
    /\ verdicts = <<>>
    /\ stack = <<>> /\ active = {} /\ nodes = 0 /\ text = 0

(* The walk returns, or raises through all its frames.                     *)
End(verdict) ==
    /\ verdicts' = Append(verdicts, verdict)
    /\ stack' = <<>> /\ active' = {} /\ nodes' = 0 /\ text' = 0

Top == Last(stack)

(* Mutant of the next definition: the loop takes the same child again.     *)
NotAdvanced == stack

Advanced == IF stack = <<>> THEN <<>>
            ELSE Append(Front(stack), [object |-> Top.object, next |-> Top.next + 1])

(* The walk calls itself for o.                                            *)
Enter(o, key) ==
    IF Refused(o, key) THEN End("refused")
    ELSE IF stack = <<>> /\ ~ IsContainer(o) THEN End("accepted")
    ELSE /\ nodes' = IF Budgeted THEN nodes + 1 ELSE 0
         /\ text' = IF Budgeted THEN text + KeyCharge(key) + OwnCharge(o) ELSE 0
         /\ active' = IF Budgeted /\ IsContainer(o) THEN active \cup {o} ELSE active
         /\ stack' = IF IsContainer(o) THEN Append(Advanced, [object |-> o, next |-> 1])
                     ELSE Advanced
         /\ UNCHANGED verdicts

(* Mutant of the next definition: any value may be a payload.              *)
BeginAnywhere ==
    /\ ~ Over /\ stack = <<>>
    /\ Enter(Start, NoKey)
    /\ UNCHANGED <<heap, root, payload>>

(* A preflight, or _validate_payload, is called.                           *)
Begin ==
    /\ ~ Over /\ stack = <<>>
    /\ IF walker = "validator" /\ heap[payload].kind # "dict" THEN End("refused")
       ELSE Enter(Start, NoKey)
    /\ UNCHANGED <<heap, root, payload>>

Descend ==
    /\ stack # <<>>
    /\ Top.next <= Len(heap[Top.object].children)
    /\ Enter(heap[Top.object].children[Top.next], KeyOf(Top.object, Top.next))
    /\ UNCHANGED <<heap, root, payload>>

(* Mutant of the next definition: the container stays active.              *)
LeaveActive ==
    /\ stack # <<>>
    /\ Top.next > Len(heap[Top.object].children)
    /\ IF Len(stack) = 1 THEN End("accepted")
       ELSE /\ stack' = Front(stack)
            /\ UNCHANGED <<verdicts, active, nodes, text>>
    /\ UNCHANGED <<heap, root, payload>>

(* The end of the loop over a container, and its finally clause.           *)
Leave ==
    /\ stack # <<>>
    /\ Top.next > Len(heap[Top.object].children)
    /\ IF Len(stack) = 1 THEN End("accepted")
       ELSE /\ stack' = Front(stack)
            /\ active' = active \ {Top.object}
            /\ UNCHANGED <<verdicts, nodes, text>>
    /\ UNCHANGED <<heap, root, payload>>

Next == Begin \/ Descend \/ Leave

Spec == Init /\ [][Next]_vars /\ WF_vars(Next)

-----------------------------------------------------------------------------
(* What the contract says of a value on heap h, without a walk.            *)

(* The limits that hold for each value by itself.  "exact" is for the two  *)
(* preflights.                                                             *)
FineAlone(h, o, exact) ==
    /\ h[o].kind \in Containers \cup Scalars
    /\ exact => h[o].exact
    /\ h[o].kind = "text" => h[o].size <= MaxLength
    /\ h[o].kind = "number" /\ exact => h[o].size <= MaxBits
    /\ Len(h[o].children) <= MaxItems
    /\ \A i \in DOMAIN h[o].keys : KeyFits(h[o].keys[i], exact)

(* The values that are nested at most so many levels deep, each part of    *)
(* them within those limits.                                               *)
Fine(h, exact) ==
    LET within[levels \in 0 .. MaxDepth + 1] ==
          IF levels = 0 THEN {}
          ELSE {o \in Objects :
                  FineAlone(h, o, exact) /\ Range(h[o].children) \subseteq within[levels - 1]}
    IN within

WellFormed(top, exact) == top \in Fine(heap, exact)[MaxDepth + 1]

(* What so many levels of a value add up to if every occurrence of o in it *)
(* adds own[o], along every path to it.                                    *)
Unfolded(h, own) ==
    LET total[levels \in 0 .. MaxDepth + 1] ==
          IF levels = 0 THEN [o \in Objects |-> 0]
          ELSE [o \in Objects |->
                  own[o] + SumOf([i \in DOMAIN h[o].children |->
                                    total[levels - 1][h[o].children[i]]])]
    IN total

(* Within the budgets: every occurrence of a value is a node, and every    *)
(* occurrence of text is counted, that of keys included.                   *)
NodeOf == [o \in Objects |-> 1]
TextOf(h) ==
    [o \in Objects |->
        (IF h[o].kind \in {"text", "number"} THEN h[o].weight ELSE 0) + SumOf(KeyWeights(h, o))]
WithinBudgets(top) ==
    /\ Unfolded(heap, NodeOf)[MaxDepth + 1][top] <= MaxNodes
    /\ Unfolded(heap, TextOf(heap))[MaxDepth + 1][top] <= MaxText

-----------------------------------------------------------------------------
(* Properties.                                                             *)

Frame     == [object : Objects, next : Nat \ {0}]
PathOf(s) == [i \in DOMAIN s |-> s[i].object]

(* A walk never exceeds a limit, whatever the heap: it works on a bounded  *)
(* number of values even if the value contains itself or shares parts; and *)
(* what it holds active are the containers on its path, each once          *)
(* (policy_binding.py:72-135).                                             *)
WalkStaysWithinLimits ==
    /\ root \in Objects /\ payload \in Objects
    /\ verdicts \in Seq({"accepted", "refused"}) /\ Len(verdicts) <= Len(Walkers)
    /\ Over => stack = <<>>
    /\ stack \in Seq(Frame) /\ Len(stack) <= MaxDepth + 1
    /\ nodes \in 0 .. MaxNodes /\ text \in 0 .. MaxText
    /\ ~ Over /\ Budgeted =>
          active = Range(PathOf(stack)) /\ IsInjective(PathOf(stack))

(* The verdict of either preflight is what the contract says of the value, *)
(* so the two agree, although they charge keys in another order: aliases   *)
(* are counted at each occurrence, and a cycle is refused                  *)
(* (AI_GATEWAY_CANONICAL_JSON_V1.md:130-147).                              *)
PreflightDecidesContract ==
    \A i \in {1, 2} \cap DOMAIN verdicts :
        verdicts[i] = "accepted" <=> WellFormed(root, TRUE) /\ WithinBudgets(root)

(* Likewise the validator, which takes dicts only, subclasses of the       *)
(* built-in types and any text it finds short enough, and which has no     *)
(* cycle check: the depth limit alone refuses every cycle                  *)
(* (validation.py:66-106).                                                 *)
ValidatorDecidesContract ==
    Over => (verdicts[3] = "accepted" <=>
               heap[payload].kind = "dict" /\ WellFormed(payload, FALSE))

(* A dict that is the payload of an artifact that passes the preflight     *)
(* passes the validator: the one counts depth from the artifact, the other *)
(* from the payload (policy_binding.py:174-189, validation.py:102-106).    *)
SnapshotsValidate ==
    Over /\ verdicts[1] = "accepted" /\ heap[payload].kind = "dict" => verdicts[3] = "accepted"

(* Every walk ends, also the validator's over a value that contains        *)
(* itself, for which it keeps neither a budget nor the set of active       *)
(* containers (validation.py:66-99).                                       *)
EveryWalkEnds == <>Over
=============================================================================
