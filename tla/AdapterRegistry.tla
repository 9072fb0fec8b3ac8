--------------------------- MODULE AdapterRegistry ---------------------------
(***************************************************************************)
(* ai_gateway/registry.py.  AdapterRegistry.register reads the manifest of *)
(* the adapter it is given through a property, so foreign code runs in the *)
(* middle of a registration and may register other adapters.  The nested   *)
(* registrations form a stack of frames.                                   *)
(***************************************************************************)
EXTENDS Naturals, Sequences, SequencesExt

CONSTANTS
    Names,        \* the non-empty strings used as registry names
    BadName,      \* stands for "" and for everything that is not a str
    Adapters,     \* adapter objects
    Manifests,    \* well-formed manifests: records with an adapter_id
    Offers,       \* Offers[a]: those that a, or who registers it, comes up with
    BadManifest,  \* a manifest validate_manifest_v1 or _snapshot_manifest refuses
    None,
    MaxNesting,   \* bound: how deep foreign code nests registrations
    SameNameReentry  \* may foreign code register a name that is being registered?

ASSUME RegistryAssumption ==
    /\ BadName \notin Names
    /\ None \notin Adapters
    /\ {None, BadManifest} \cap Manifests = {}
    /\ None # BadManifest
    /\ \A m \in Manifests : m.adapter_id \in Names
    /\ Offers \in [Adapters -> SUBSET Manifests]
    /\ MaxNesting \in Nat
    /\ SameNameReentry \in BOOLEAN

VARIABLES
    adapters,   \* _adapters: name -> adapter object, None if absent
    manifests,  \* _manifests: name -> manifest snapshot, None if absent
    frames      \* the register calls in progress, innermost last

vars == <<adapters, manifests, frames>>

Attributes == {"manifest", "MANIFEST"}
CandidatesOf(a) == Offers[a] \cup {BadManifest, None}
Frame == [name : Names, adapter : Adapters, attribute : Attributes]

TypeOK ==
    /\ adapters \in [Names -> Adapters \cup {None}]
    /\ manifests \in [Names -> Manifests \cup {None}]
    /\ frames \in Seq(Frame)

Init ==
    /\ adapters = [n \in Names |-> None]
    /\ manifests = [n \in Names |-> None]
    /\ frames = <<>>

Registered(n) == n \in Names /\ adapters[n] # None

-----------------------------------------------------------------------------
(* Readers: the error get or get_manifest raises, or "none".               *)

GetFault(n) ==
    IF n \notin Names THEN "SCHEMA_VIOLATION"
    ELSE IF ~ Registered(n) THEN "ADAPTER_NOT_REGISTERED"
    ELSE "none"

GetManifestFault(n) ==
    IF GetFault(n) # "none" THEN GetFault(n)
    ELSE IF manifests[n] = None THEN "ADAPTER_VALIDATION_FAILED"
    ELSE "none"

-----------------------------------------------------------------------------
(* register                                                                *)

(* A call raises and leaves this stack behind: nothing was written.        *)
RaiseFrom(rest) ==
    /\ frames' = rest
    /\ UNCHANGED <<adapters, manifests>>

(* The two dictionary writes at the end of register, unless it refuses.    *)
WriteUnless(refused, n, a, m, rest) ==
    IF refused
    THEN RaiseFrom(rest)
    ELSE /\ adapters' = [adapters EXCEPT ![n] = a]
         /\ manifests' = IF m = None THEN manifests ELSE [manifests EXCEPT ![n] = m]
         /\ frames' = rest

(* Mutants of the next definition: no identity check; no validation.       *)
CommitAnyIdentity(n, a, m, rest) == WriteUnless(m = BadManifest, n, a, m, rest)
CommitUnvalidated(n, a, m, rest) ==
    WriteUnless(m \in Manifests /\ m.adapter_id # n, n, a, m, rest)

(* The snapshot of candidate m, the identity check, and the two writes.    *)
CommitOrRaise(n, a, m, rest) ==
    WriteUnless(m = BadManifest \/ (m # None /\ m.adapter_id # n), n, a, m, rest)

Pending == {frames[i].name : i \in DOMAIN frames}

StartUnless(refused, n, a, m) ==
    /\ Len(frames) <= MaxNesting
    /\ n \in Pending => SameNameReentry
    /\ IF refused
       THEN RaiseFrom(frames)
       ELSE IF m # None
       THEN CommitOrRaise(n, a, m, frames)
       ELSE /\ frames' = Append(frames, [name |-> n, adapter |-> a,
                                         attribute |-> "manifest"])
            /\ UNCHANGED <<adapters, manifests>>

(* Mutant of the next definition: no duplicate check.                      *)
RegisterUnchecked(n, a, m) == StartUnless(n \notin Names, n, a, m)

(* register(n, a, m) is called, at top level or by foreign code that runs  *)
(* inside a registration.  With a manifest argument the call completes     *)
(* without running foreign code.                                           *)
Register(n, a, m) == StartUnless(n \notin Names \/ Registered(n), n, a, m)

(* Mutant of the next definition: what is committed is the adapter of the  *)
(* outermost registration.                                                 *)
AttributeReturnsToOutermost(c) ==
    /\ frames # <<>>
    /\ c \in CandidatesOf(Last(frames).adapter)
    /\ LET top  == Last(frames)
           rest == Front(frames)
       IN IF c = None /\ top.attribute = "manifest"
          THEN /\ frames' = Append(rest, [top EXCEPT !.attribute = "MANIFEST"])
               /\ UNCHANGED <<adapters, manifests>>
          ELSE CommitOrRaise(top.name, Head(frames).adapter, c, rest)

(* The property read of the innermost frame returns c.  None, also what    *)
(* getattr makes of an AttributeError, moves on to the next attribute.     *)
AttributeReturns(c) ==
    /\ frames # <<>>
    /\ c \in CandidatesOf(Last(frames).adapter)
    /\ LET top  == Last(frames)
           rest == Front(frames)
       IN IF c = None /\ top.attribute = "manifest"
          THEN /\ frames' = Append(rest, [top EXCEPT !.attribute = "MANIFEST"])
               /\ UNCHANGED <<adapters, manifests>>
          ELSE CommitOrRaise(top.name, top.adapter, c, rest)

(* The property read raises something other than AttributeError.           *)
AttributeRaises ==
    /\ frames # <<>>
    /\ RaiseFrom(Front(frames))

Next ==
    \/ \E n \in Names \cup {BadName}, a \in Adapters :
          \E m \in CandidatesOf(a) : Register(n, a, m)
    \/ \E c \in Manifests \cup {BadManifest, None} : AttributeReturns(c)
    \/ AttributeRaises

Spec == Init /\ [][Next]_vars

-----------------------------------------------------------------------------
(* Properties.                                                             *)

(* A manifest is only ever filed under the name it declares, next to an    *)
(* adapter of that name, whatever foreign code registers while register    *)
(* is waiting for a property (registry.py:45-51).                          *)
ManifestIdentity ==
    \A n \in Names : manifests[n] # None =>
        Registered(n) /\ manifests[n].adapter_id = n

(* The duplicate check at the start of register (registry.py:35) still     *)
(* holds when the registration resumes after foreign code: no name on the  *)
(* stack is taken, and none is there twice.                                *)
CheckStillHolds ==
    /\ \A i \in DOMAIN frames : ~ Registered(frames[i].name)
    /\ \A i, j \in DOMAIN frames : frames[i].name = frames[j].name => i = j

(* No registration replaces the adapter of a registered name, or its       *)
(* manifest: register writes a name once (registry.py:35, 48-51).          *)
NoOverride ==
    [][\A n \in Names : Registered(n) =>
          adapters'[n] = adapters[n] /\ manifests'[n] = manifests[n]]_vars

(* What one registration of n may file: an adapter, with a manifest of     *)
(* that name which it or who registered it came up with, or with none.     *)
EntriesOf(n) ==
    {e \in [adapter : Adapters, manifest : Manifests \cup {None}] :
        e.manifest # None => e.manifest \in Offers[e.adapter] /\ e.manifest.adapter_id = n}

(* The registry as its readers see it.                                     *)
Visible(n) == IF adapters[n] = None THEN None
              ELSE [adapter |-> adapters[n], manifest |-> manifests[n]]

Map == INSTANCE WriteOnceMap WITH
    Entries <- [n \in Names |-> EntriesOf(n)],
    Vacant  <- None,
    entries <- [n \in Names |-> Visible(n)]

(* The registry implements a write-once map of (adapter, manifest) pairs:  *)
(* the two dictionary writes of register count as one, and no adapter gets *)
(* the manifest of another, however registrations nest                     *)
(* (registry.py:35-51).                                                    *)
ImplementsWriteOnceMap == Map!Spec
=============================================================================
