------------------------ MODULE AdapterRegistryProofs ------------------------
(***************************************************************************)
(* Proofs about AdapterRegistry for every set of names, adapters and       *)
(* manifests and every nesting bound.  TypeOK is inductive by itself;      *)
(* CheckStillHolds is inductive on top of it when foreign code does not    *)
(* register a pending name, and gives the write-once refinement.           *)
(***************************************************************************)
EXTENDS AdapterRegistry, StackLemmas, SequenceTheorems, TLAPS

(* The innermost property read moves on to the second attribute name: only *)
(* the attribute of the top frame changes (registry.py:80).                *)
LEMMA NextAttribute ==
    ASSUME frames \in Seq(Frame), frames # <<>>
    PROVE  LET moved == Append(Front(frames),
                               [Last(frames) EXCEPT !.attribute = "MANIFEST"])
           IN /\ moved \in Seq(Frame)
              /\ DOMAIN moved = DOMAIN frames
              /\ \A i \in DOMAIN moved : moved[i].name = frames[i].name
<1> DEFINE top   == [Last(frames) EXCEPT !.attribute = "MANIFEST"]
           moved == Append(Front(frames), top)
<1>1. /\ Front(frames) \in Seq(Frame)
      /\ Len(Front(frames)) = Len(frames) - 1
      /\ \A i \in DOMAIN Front(frames) : Front(frames)[i] = frames[i]
      /\ Last(frames) = frames[Len(frames)]
      /\ Last(frames) \in Frame
  BY StackTop
<1>2. top \in Frame /\ top.name = Last(frames).name
  BY <1>1 DEF Frame, Attributes
<1>3. /\ moved \in Seq(Frame)
      /\ Len(moved) = Len(frames)
      /\ \A i \in 1 .. Len(frames) - 1 : moved[i] = frames[i]
      /\ moved[Len(frames)] = top
  <2> HIDE DEF top
  <2>. QED  BY <1>1, <1>2
<1>4. DOMAIN moved = 1 .. Len(frames) /\ DOMAIN frames = 1 .. Len(frames)
  BY <1>3, LenProperties
<1>5. ASSUME NEW i \in 1 .. Len(frames) PROVE moved[i].name = frames[i].name
  <2>1. CASE i = Len(frames)  BY <2>1, <1>1, <1>2, <1>3
  <2>2. CASE i # Len(frames)
    <3>1. i \in 1 .. Len(frames) - 1
      BY <2>2, <1>1
    <3>. QED  BY <3>1, <1>3
  <2>. QED  BY <2>1, <2>2
<1>. QED  BY <1>3, <1>4, <1>5

(* The kinds of step a registry takes, whatever action takes them.         *)

(* A call raises: at its start, or out of the innermost property read.     *)
Raises ==
    /\ UNCHANGED <<adapters, manifests>>
    /\ frames' = frames \/ (frames # <<>> /\ frames' = Front(frames))

(* A registration of n commits adapter a and a manifest m it came up with. *)
Writes(n, a, m) ==
    /\ m # None => m \in Offers[a] /\ m.adapter_id = n
    /\ adapters' = [adapters EXCEPT ![n] = a]
    /\ manifests' = IF m = None THEN manifests ELSE [manifests EXCEPT ![n] = m]
    /\ \/ /\ frames' = frames
          /\ ~ Registered(n) /\ (n \in Pending => SameNameReentry)
       \/ /\ frames # <<>> /\ frames' = Front(frames)
          /\ n = Last(frames).name

(* A registration of n starts reading its adapter's manifest property.     *)
Pushes(n, a) ==
    /\ ~ Registered(n) /\ (n \in Pending => SameNameReentry)
    /\ frames' = Append(frames, [name |-> n, adapter |-> a, attribute |-> "manifest"])
    /\ UNCHANGED <<adapters, manifests>>

(* The innermost registration goes on to the other attribute name.         *)
MovesOn ==
    /\ frames # <<>>
    /\ frames' = Append(Front(frames), [Last(frames) EXCEPT !.attribute = "MANIFEST"])
    /\ UNCHANGED <<adapters, manifests>>

StepKind ==
    \/ Raises
    \/ \E n \in Names, a \in Adapters, m \in Manifests \cup {None} : Writes(n, a, m)
    \/ \E n \in Names, a \in Adapters : Pushes(n, a)
    \/ MovesOn

(* Every action of the registry is one of these kinds (registry.py:32-51). *)
LEMMA StepKinds ==
    ASSUME TypeOK, Next
    PROVE  StepKind
<1>1. ASSUME NEW n \in Names \cup {BadName}, NEW a \in Adapters,
             NEW m \in CandidatesOf(a), Register(n, a, m)
      PROVE  StepKind
  <2>1. CASE n \notin Names \/ Registered(n)
    <3>1. Raises
      BY <1>1, <2>1 DEF Register, StartUnless, RaiseFrom, Raises
    <3>. QED  BY <3>1 DEF StepKind
  <2>2. CASE n \in Names /\ ~ Registered(n) /\ m = None
    <3>1. Pushes(n, a)
      BY <1>1, <2>2 DEF Register, StartUnless, Pushes
    <3>. QED  BY <2>2, <3>1 DEF StepKind
  <2>3. CASE n \in Names /\ ~ Registered(n) /\ m # None
    <3>1. CommitOrRaise(n, a, m, frames) /\ (n \in Pending => SameNameReentry)
      BY <1>1, <2>3 DEF Register, StartUnless
    <3>2. CASE m = BadManifest \/ m.adapter_id # n
      BY <2>3, <3>1, <3>2 DEF CommitOrRaise, WriteUnless, RaiseFrom, Raises, StepKind
    <3>3. CASE ~ (m = BadManifest \/ m.adapter_id # n)
      <4>1. m \in Offers[a]
        BY <2>3, <3>3 DEF CandidatesOf
      <4>2. Writes(n, a, m)
        BY <2>3, <3>1, <3>3, <4>1 DEF CommitOrRaise, WriteUnless, Writes
      <4>3. m \in Manifests
        BY <4>1, RegistryAssumption
      <4>. QED  BY <2>3, <4>2, <4>3 DEF StepKind
    <3>. QED  BY <3>2, <3>3
  <2>. QED  BY <2>1, <2>2, <2>3
<1>2. ASSUME NEW c \in Manifests \cup {BadManifest, None}, AttributeReturns(c)
      PROVE  StepKind
  <2>1. frames # <<>> /\ frames \in Seq(Frame)
    BY <1>2 DEF AttributeReturns, TypeOK
  <2>2. Last(frames) \in Frame
    BY <2>1, StackTop
  <2>3. CASE c = None /\ Last(frames).attribute = "manifest"
    BY <1>2, <2>3 DEF AttributeReturns, MovesOn, StepKind
  <2>4. CASE ~ (c = None /\ Last(frames).attribute = "manifest")
    <3>1. CommitOrRaise(Last(frames).name, Last(frames).adapter, c, Front(frames))
      BY <1>2, <2>4 DEF AttributeReturns
    <3>2. CASE c = BadManifest \/ (c # None /\ c.adapter_id # Last(frames).name)
      BY <2>1, <3>1, <3>2 DEF CommitOrRaise, WriteUnless, RaiseFrom, Raises, StepKind
    <3>3. CASE ~ (c = BadManifest \/ (c # None /\ c.adapter_id # Last(frames).name))
      <4>0. c # None => c \in Offers[Last(frames).adapter]
        BY <1>2, <3>3 DEF AttributeReturns, CandidatesOf
      <4>1. Writes(Last(frames).name, Last(frames).adapter, c)
        BY <2>1, <3>1, <3>3, <4>0 DEF CommitOrRaise, WriteUnless, Writes
      <4>2. c \in Manifests \cup {None}
        BY <1>2, <3>3
      <4>. QED  BY <2>2, <4>1, <4>2 DEF StepKind, Frame
    <3>. QED  BY <3>2, <3>3
  <2>. QED  BY <2>3, <2>4
<1>3. ASSUME AttributeRaises
      PROVE  StepKind
  BY <1>3 DEF AttributeRaises, RaiseFrom, Raises, StepKind
<1>. QED  BY <1>1, <1>2, <1>3 DEF Next

(* The registry's dictionaries and its stack of registrations keep their   *)
(* types: in particular nothing but an adapter and a validated manifest is *)
(* ever filed (registry.py:29-51).                                         *)
THEOREM TypeCorrect == Spec => []TypeOK
<1>1. Init => TypeOK
  BY EmptySeq DEF Init, TypeOK
<1>2. TypeOK /\ [Next]_vars => TypeOK'
  <2> SUFFICES ASSUME TypeOK, [Next]_vars
               PROVE  TypeOK'
    OBVIOUS
  <2>1. CASE UNCHANGED vars
    BY <2>1 DEF vars, TypeOK
  <2>2. CASE Raises
    <3>1. frames' \in Seq(Frame)
      BY <2>2, StackTop DEF Raises, TypeOK
    <3>. QED  BY <2>2, <3>1 DEF Raises, TypeOK
  <2>3. ASSUME NEW n \in Names, NEW a \in Adapters,
               NEW m \in Manifests \cup {None}, Writes(n, a, m)
        PROVE  TypeOK'
    <3>1. frames' \in Seq(Frame)
      BY <2>3, StackTop DEF Writes, TypeOK
    <3>. QED  BY <2>3, <3>1 DEF Writes, TypeOK
  <2>4. ASSUME NEW n \in Names, NEW a \in Adapters, Pushes(n, a)
        PROVE  TypeOK'
    BY <2>4 DEF Pushes, TypeOK, Frame, Attributes
  <2>5. CASE MovesOn
    BY <2>5, NextAttribute DEF MovesOn, TypeOK
  <2>. QED  BY <2>1, <2>2, <2>3, <2>4, <2>5, StepKinds DEF StepKind
<1>. QED  BY <1>1, <1>2, PTL DEF Spec

(* A manifest is filed only under the name it declares and only for a      *)
(* registered adapter, even when foreign code registers names that are     *)
(* being registered (registry.py:45-51).                                   *)
THEOREM ManifestIdentityHolds == Spec => []ManifestIdentity
<1>1. Init => ManifestIdentity
  BY DEF Init, ManifestIdentity
<1>2. TypeOK /\ ManifestIdentity /\ [Next]_vars => ManifestIdentity'
  <2> SUFFICES ASSUME TypeOK, ManifestIdentity, [Next]_vars
               PROVE  ManifestIdentity'
    OBVIOUS
  <2>1. CASE UNCHANGED <<adapters, manifests>>
    BY <2>1 DEF ManifestIdentity, Registered
  <2>2. ASSUME NEW n \in Names, NEW a \in Adapters,
               NEW m \in Manifests \cup {None}, Writes(n, a, m)
        PROVE  ManifestIdentity'
    <3> SUFFICES ASSUME NEW k \in Names, manifests'[k] # None
                 PROVE  adapters'[k] # None /\ manifests'[k].adapter_id = k
      BY DEF ManifestIdentity, Registered
    <3>1. CASE k = n
      <4>1. adapters'[k] # None
        BY <2>2, <3>1, RegistryAssumption DEF Writes, TypeOK
      <4>2. CASE m = None
        BY <2>2, <3>1, <4>1, <4>2 DEF Writes, ManifestIdentity
      <4>3. CASE m # None
        BY <2>2, <3>1, <4>1, <4>3 DEF Writes, TypeOK
      <4>. QED  BY <4>2, <4>3
    <3>2. CASE k # n
      BY <2>2, <3>2 DEF Writes, TypeOK, ManifestIdentity, Registered
    <3>. QED  BY <3>1, <3>2
  <2>. QED  BY <2>1, <2>2, StepKinds DEF StepKind, Raises, Pushes, MovesOn, vars
<1>. QED  BY <1>1, <1>2, TypeCorrect, PTL DEF Spec

(* The names on the stack are registry names (registry.py:33).             *)
LEMMA FrameNames ==
    ASSUME NEW s \in Seq(Frame)
    PROVE  \A i \in DOMAIN s : s[i].name \in Names
<1>1. \A i \in DOMAIN s : s[i] \in Frame
  BY ElementOfSeq, LenProperties
<1>. QED  BY <1>1 DEF Frame

(* What CheckStillHolds needs when the stack shrinks or keeps its names.   *)
LEMMA FewerFrames ==
    ASSUME CheckStillHolds, TypeOK, TypeOK',
           \A i \in DOMAIN frames' :
               i \in DOMAIN frames /\ frames'[i].name = frames[i].name,
           \A i \in DOMAIN frames' : adapters'[frames'[i].name] = None
    PROVE  CheckStillHolds'
BY DEF CheckStillHolds, Registered

(* Foreign code that leaves pending names alone cannot outdate the         *)
(* duplicate check of register: between the check and the writes nobody    *)
(* else takes the name (registry.py:35, 38, 48).                           *)
THEOREM CheckStillHoldsThm ==
    ASSUME SameNameReentry = FALSE
    PROVE  Spec => []CheckStillHolds
<1>1. Init => CheckStillHolds
  BY DEF Init, CheckStillHolds
<1>2. TypeOK /\ TypeOK' /\ CheckStillHolds /\ [Next]_vars => CheckStillHolds'
  <2> SUFFICES ASSUME TypeOK, TypeOK', CheckStillHolds, [Next]_vars
               PROVE  CheckStillHolds'
    OBVIOUS
  <2>0. /\ \A i \in DOMAIN frames : frames[i].name \in Names /\ adapters[frames[i].name] = None
        /\ \A i \in DOMAIN frames' : frames'[i].name \in Names
    BY FrameNames DEF TypeOK, CheckStillHolds, Registered
  <2>1. CASE UNCHANGED <<adapters, frames>>
    BY <2>1 DEF CheckStillHolds, Registered
  <2>2. CASE Raises
    <3>1. \A i \in DOMAIN frames' : i \in DOMAIN frames /\ frames'[i].name = frames[i].name
      BY <2>2, StackTop DEF Raises, TypeOK
    <3>2. \A i \in DOMAIN frames' : adapters'[frames'[i].name] = None
      BY <2>0, <2>2, <3>1 DEF Raises
    <3>. QED  BY <3>1, <3>2, FewerFrames
  <2>3. ASSUME NEW n \in Names, NEW a \in Adapters,
               NEW m \in Manifests \cup {None}, Writes(n, a, m)
        PROVE  CheckStillHolds'
    <3>1. /\ \A i \in DOMAIN frames' :
                 i \in DOMAIN frames /\ frames'[i].name = frames[i].name
          /\ \A i \in DOMAIN frames' : frames[i].name # n
      <4>1. CASE frames' = frames /\ n \notin Pending
        BY <4>1 DEF Pending
      <4>2. CASE frames # <<>> /\ frames' = Front(frames) /\ n = Last(frames).name
        <5>1. /\ \A i \in DOMAIN frames' : i \in DOMAIN frames /\ frames'[i] = frames[i]
              /\ Len(frames') = Len(frames) - 1
              /\ Len(frames) \in DOMAIN frames /\ n = frames[Len(frames)].name
          BY <4>2, StackTop DEF TypeOK
        <5>2. DOMAIN frames' = 1 .. Len(frames') /\ Len(frames) \in Nat
          BY LenProperties DEF TypeOK
        <5>3. \A i \in DOMAIN frames' : i # Len(frames)
          BY <5>1, <5>2
        <5>. QED  BY <5>1, <5>3 DEF CheckStillHolds
      <4>. QED  BY <2>3, <4>1, <4>2 DEF Writes
    <3>2. \A k \in Names : k # n => adapters'[k] = adapters[k]
      BY <2>3 DEF Writes, TypeOK
    <3>4. \A i \in DOMAIN frames' : adapters'[frames'[i].name] = None
      BY <2>0, <3>1, <3>2
    <3>. QED  BY <3>1, <3>4, FewerFrames
  <2>4. ASSUME NEW n \in Names, NEW a \in Adapters, Pushes(n, a)
        PROVE  CheckStillHolds'
    <3> DEFINE new == [name |-> n, adapter |-> a, attribute |-> "manifest"]
    <3>1. /\ DOMAIN frames' = 1 .. Len(frames) + 1 /\ DOMAIN frames = 1 .. Len(frames)
          /\ Len(frames) \in Nat
          /\ \A i \in 1 .. Len(frames) : frames'[i] = frames[i]
          /\ frames'[Len(frames) + 1].name = n
      <4>1. new \in Frame
        BY DEF Frame, Attributes
      <4>2. new.name = n
        OBVIOUS
      <4> HIDE DEF new
      <4>3. frames' = Append(frames, new) /\ frames \in Seq(Frame)
        BY <2>4 DEF Pushes, TypeOK, new
      <4>. QED  BY <4>1, <4>2, <4>3, AppendProperties, LenProperties
    <3>2. \A i \in DOMAIN frames : frames[i].name # n
      BY <2>4 DEF Pushes, Pending
    <3>3. \A i \in DOMAIN frames' : i \in DOMAIN frames \/ i = Len(frames) + 1
      BY <3>1
    <3>5. \A i \in DOMAIN frames' : adapters'[frames'[i].name] = None
      BY <2>0, <2>4, <3>1, <3>3 DEF Pushes, Registered
    <3>6. ASSUME NEW i \in DOMAIN frames', NEW j \in DOMAIN frames',
                 frames'[i].name = frames'[j].name
          PROVE  i = j
      BY <3>1, <3>2, <3>3, <3>6 DEF CheckStillHolds
    <3>. QED  BY <3>5, <3>6 DEF CheckStillHolds, Registered
  <2>5. CASE MovesOn
    <3>1. DOMAIN frames' = DOMAIN frames
          /\ \A i \in DOMAIN frames' : frames'[i].name = frames[i].name
      BY <2>5, NextAttribute DEF MovesOn, TypeOK
    <3>2. \A i \in DOMAIN frames' : adapters'[frames'[i].name] = None
      BY <2>0, <2>5, <3>1 DEF MovesOn
    <3>. QED  BY <3>1, <3>2, FewerFrames
  <2>. QED  BY <2>1, <2>2, <2>3, <2>4, <2>5, StepKinds DEF StepKind, vars
<1>. QED  BY <1>1, <1>2, TypeCorrect, PTL DEF Spec

(* A commit fills a name that was vacant until then: at the write itself,  *)
(* not only at the check that came before the property read.               *)
LEMMA WritesVacant ==
    ASSUME TypeOK, CheckStillHolds, NEW n \in Names, NEW a \in Adapters,
           NEW m \in Manifests \cup {None}, Writes(n, a, m)
    PROVE  adapters[n] = None
<1>1. CASE ~ Registered(n)
  BY <1>1 DEF Registered
<1>2. CASE frames # <<>> /\ n = Last(frames).name
  <2>1. Len(frames) \in DOMAIN frames /\ n = frames[Len(frames)].name
    BY <1>2, StackTop DEF TypeOK
  <2>. QED  BY <2>1 DEF CheckStillHolds, Registered
<1>. QED  BY <1>1, <1>2 DEF Writes

(* When foreign code leaves pending names alone, the registry implements a *)
(* write-once map of (adapter, manifest) pairs, each of one adapter: the   *)
(* two dictionary writes of register count as one (registry.py:48-51).     *)
THEOREM RegistryIsWriteOnceMap ==
    ASSUME SameNameReentry = FALSE
    PROVE  Spec => ImplementsWriteOnceMap
<1> DEFINE seen    == [n \in Names |-> Visible(n)]
           allowed == [n \in Names |-> EntriesOf(n)]
<1>1. Init => Map!Init
  BY DEF Init, Map!Init, Visible
<1>2. TypeOK /\ ManifestIdentity /\ CheckStillHolds /\ [Next]_vars
        => [Map!Next]_([n \in Names |-> Visible(n)])
  <2> SUFFICES ASSUME TypeOK, ManifestIdentity, CheckStillHolds, [Next]_vars
               PROVE  Map!Next \/ seen' = seen
    BY DEF Map!Next
  <2>1. CASE UNCHANGED <<adapters, manifests>>
    BY <2>1 DEF Visible
  <2>2. ASSUME NEW n \in Names, NEW a \in Adapters,
               NEW m \in Manifests \cup {None}, Writes(n, a, m)
        PROVE  Map!Next
    <3> DEFINE new == [adapter |-> a, manifest |-> m]
    <3>1. adapters[n] = None
      BY <2>2, WritesVacant
    <3>2. manifests[n] = None
      BY <3>1 DEF ManifestIdentity, Registered
    <3>3. new \in allowed[n]
      BY <2>2 DEF Writes, EntriesOf
    <3>4. adapters' = [adapters EXCEPT ![n] = a] /\ manifests' = [manifests EXCEPT ![n] = m]
      BY <2>2, <3>2 DEF Writes, TypeOK
    <3>5. a # None
      BY RegistryAssumption
    <3>6. seen[n] = None
      BY <3>1 DEF Visible
    <3>7. seen' = [seen EXCEPT ![n] = new]
      BY <3>4, <3>5 DEF Visible, TypeOK
    <3>8. Map!Write(n, new)
      BY <3>6, <3>7 DEF Map!Write
    <3>. QED  BY <3>3, <3>8 DEF Map!Next
  <2>. QED  BY <2>1, <2>2, StepKinds DEF StepKind, Raises, Pushes, MovesOn, vars
<1>. QED  BY <1>1, <1>2, TypeCorrect, ManifestIdentityHolds, CheckStillHoldsThm, PTL
          DEF Spec, ImplementsWriteOnceMap, Map!Spec

(* When foreign code leaves pending names alone, no registration replaces  *)
(* an adapter or its manifest (ADAPTER_CONTRACT.md; registry.py:35).       *)
THEOREM NoOverrideThm ==
    ASSUME SameNameReentry = FALSE
    PROVE  Spec => NoOverride
<1>1. TypeOK /\ CheckStillHolds /\ [Next]_vars
        => [\A n \in Names : Registered(n) =>
               adapters'[n] = adapters[n] /\ manifests'[n] = manifests[n]]_vars
  <2> SUFFICES ASSUME TypeOK, CheckStillHolds, [Next]_vars, NEW k \in Names, Registered(k)
               PROVE  adapters'[k] = adapters[k] /\ manifests'[k] = manifests[k]
    OBVIOUS
  <2>1. CASE UNCHANGED <<adapters, manifests>>
    BY <2>1
  <2>2. ASSUME NEW n \in Names, NEW a \in Adapters,
               NEW m \in Manifests \cup {None}, Writes(n, a, m)
        PROVE  adapters'[k] = adapters[k] /\ manifests'[k] = manifests[k]
    <3>1. k # n
      BY <2>2, WritesVacant DEF Registered
    <3>. QED  BY <2>2, <3>1 DEF Writes, TypeOK
  <2>. QED  BY <2>1, <2>2, StepKinds DEF StepKind, Raises, Pushes, MovesOn, vars
<1>. QED  BY <1>1, TypeCorrect, CheckStillHoldsThm, PTL DEF Spec, NoOverride
=============================================================================
