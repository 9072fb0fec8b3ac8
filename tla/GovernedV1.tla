----------------------------- MODULE GovernedV1 -----------------------------
(***************************************************************************)
(* The four V1 methods of AIGateway: process, process_with_policy,         *)
(* process_with_receipt and process_governed.  They share one call         *)
(* machine; "method" selects what a block checks and what is returned.     *)
(*                                                                         *)
(* Unlike the policy-bound path they capture nothing: the policy pack and  *)
(* the artifacts are the caller's and the adapter's own objects, read when *)
(* a block reaches them.                                                   *)
(***************************************************************************)
EXTENDS GatewayArtifacts

CONSTANTS
    Names, Adapters, Manifests, BadManifest,  \* the registry, as in BoundGateway
    PolicyPacks,    \* packs a caller may pass, or an adapter may turn them into
    Sources,        \* source_input: [task, model] of a plain dict, None if no dict
    RawEnvelopes,   \* what build_envelope may return
    RawOutputs,     \* what build_output may return
    CallbackErrors  \* what adapter code may raise

VARIABLES
    adapters, manifests,  \* the registry
    pc,         \* the block the call is at; "idle" between calls
    method, name,  \* the method called and its adapter_name
    live,       \* the caller's objects as they are now: [source, pack]
    manifest, envelope, output,  \* the locals of the call
    judged,     \* the pack and the envelope the policy was evaluated on
    result      \* what the last call returned, or Raised

registry == <<adapters, manifests>>
call     == <<method, name>>
locals   == <<manifest, envelope, output, judged>>
vars     == <<registry, pc, call, live, locals, result>>

Registry == INSTANCE AdapterRegistry WITH
    BadName <- NoLabel, frames <- <<>>, MaxNesting <- 0, SameNameReentry <- FALSE,
    Offers <- [a \in Adapters |-> Manifests]

ASSUME GovernedV1Assumption ==
    /\ Names \subseteq AnyLabel \ {NoLabel}
    /\ {None, BadManifest} \cap Manifests = {} /\ None # BadManifest
    /\ None \notin Adapters
    /\ \A m \in Manifests : m.adapter_id \in Names \cap Labels
    /\ \A p \in PolicyPacks : p.form \in ChoiceForms
    /\ \A s \in Sources : s # None => {s.task, s.model} \subseteq AnyLabel
    /\ \A e \in RawEnvelopes : e.form \in EnvelopeForms
    /\ \A o \in RawOutputs : o.form \in ChoiceForms
    /\ CallbackErrors \subseteq [class : ErrorClasses, message : Reasons]
    /\ None \notin [source : Sources, pack : PolicyPacks]

Methods   == {"process", "with_policy", "with_receipt", "governed"}
Blocks    == {"get_manifest", "get_adapter", "build_envelope", "build_output", "evidence"}
Callbacks == {"build_envelope", "build_output"}
Judging   == {"with_policy", "governed"}      \* methods that take a policy pack
Proving   == {"with_receipt", "governed"}     \* methods that return evidence
Raised    == [raised |-> TRUE]                \* instead of a result

Init ==
    /\ adapters = [n \in Names |-> None]
    /\ manifests = [n \in Names |-> None]
    /\ pc = "idle" /\ method = "process" /\ name = NoLabel
    /\ live = None
    /\ manifest = None /\ envelope = None /\ output = None /\ judged = None
    /\ result = None

-----------------------------------------------------------------------------
(* The fail-closed artifacts.                                              *)

Usable(value, fallback) == IF value = NoLabel THEN fallback ELSE value

TaskOf(n, source) ==
    IF source = None THEN "unknown"
    ELSE Usable(source.task, IF n = "wallet" THEN "wallet_operation" ELSE "unknown")
ModelOf(n, source) ==
    IF source = None THEN "fail_closed_v1"
    ELSE Usable(source.model, IF n = "wallet" THEN "wallet-v1" ELSE "fail_closed_v1")

(* The form of an artifact whose text fields are these.                    *)
FormOf(labels) ==
    IF labels \cap {BlankLabel, NoLabel} # {} THEN "misshapen"
    ELSE IF SurrogateLabel \in labels THEN "unencodable"
    ELSE "wellformed"

(* _fail_closed *)
FailClosed(n, source, reason) ==
    [form |-> FormOf({n, TaskOf(n, source)}), adapter |-> n,
     task_type |-> TaskOf(n, source), accepted |-> FALSE, reason_id |-> reason,
     context_hash |-> EmptyHash]

(* _fail_closed_envelope, which validates what it makes and may raise.     *)
FailClosedEnvelope(n, source) ==
    [form |-> FormOf({n, TaskOf(n, source), ModelOf(n, source)}), adapter |-> n,
     task_type |-> TaskOf(n, source), model_family |-> ModelOf(n, source),
     action |-> NoAction]
FailsClosed(n, source) == EnvelopeFault(FailClosedEnvelope(n, source)) = NoError

-----------------------------------------------------------------------------
(* Leaving a block.                                                        *)

Return(o, receipt, handoff) ==
    /\ pc' = "idle"
    /\ result' = [output |-> o, receipt |-> receipt, handoff |-> handoff]
    /\ UNCHANGED <<registry, call, live>>

(* An exception leaves the gateway.                                        *)
Escape ==
    /\ pc' = "idle"
    /\ result' = Raised
    /\ UNCHANGED <<registry, call, live, locals>>

(* The components of the call are e and o: evidence is next, or the output *)
(* alone is returned.                                                      *)
Settle(e, o) ==
    /\ envelope' = e /\ output' = o
    /\ UNCHANGED <<manifest, judged>>
    /\ IF method \in Proving
       THEN pc' = "evidence" /\ UNCHANGED <<registry, call, live, result>>
       ELSE Return(o, None, None)

(* Every except clause evaluates _fail_closed_envelope before it returns.  *)
Reject(reason) ==
    IF FailsClosed(name, live.source)
    THEN Settle(FailClosedEnvelope(name, live.source), FailClosed(name, live.source, reason))
    ELSE Escape

Clauses ==
    [Validation |-> "SCHEMA_VIOLATION", Contract |-> "INVALID_ENVELOPE",
     Policy |-> "POLICY_DENIED", Adapter |-> "ADAPTER_VALIDATION_FAILED"]

-----------------------------------------------------------------------------
(* The call.                                                               *)

Call(m, n, source, pack) ==
    /\ pc = "idle"
    /\ pc' = IF m = "process" THEN "get_adapter" ELSE "get_manifest"
    /\ method' = m /\ name' = n
    /\ live' = [source |-> source, pack |-> pack]
    /\ manifest' = None /\ envelope' = None /\ output' = None /\ judged' = None
    /\ result' = None
    /\ UNCHANGED registry

(* Only AdapterError is caught: a name that is no name escapes.            *)
GetManifest ==
    /\ pc = "get_manifest"
    /\ LET fault == Registry!GetManifestFault(name)
       IN IF fault = "none"
          THEN /\ manifest' = manifests[name]
               /\ pc' = "get_adapter"
               /\ UNCHANGED <<registry, call, live, envelope, output, judged, result>>
          ELSE IF fault = "SCHEMA_VIOLATION" THEN Escape
          ELSE Return(FailClosed(name, live.source, fault), None, None) /\ UNCHANGED locals

GetAdapter ==
    /\ pc = "get_adapter"
    /\ LET fault == Registry!GetFault(name)
       IN IF fault = "none"
          THEN pc' = "build_envelope" /\ UNCHANGED <<registry, call, live, locals, result>>
          ELSE IF fault = "SCHEMA_VIOLATION" THEN Escape
          ELSE Reject(fault)

(* _enforce_manifest_envelope_alignment: the action is optional in V1.     *)
EnvelopeAlignmentFault(e) ==
    IF ~ Subscripts(e, e.adapter) THEN Raise("Other", Opaque)
    ELSE IF e.adapter # name \/ manifest.adapter_id # name
    THEN Raise("Contract", "INVALID_ENVELOPE")
    ELSE IF e.action # NoAction /\ e.action \notin manifest.supported_actions
    THEN Raise("Adapter", "ADAPTER_VALIDATION_FAILED")
    ELSE NoError

(* Mutant of the next definition: an envelope without an action is let by. *)
EnforceIfActing(e) ==
    IF method \notin Judging \/ e.action = NoAction THEN NoError
    ELSE PolicyFault(live.pack, name, e)

(* enforce_policy_for_adapter on the pack as it is by now.                 *)
EnforceFault(e) ==
    IF method \notin Judging THEN NoError
    ELSE IF ~ Subscripts(e, e.task_type) \/ ~ Subscripts(e, e.model_family)
    THEN Raise("Other", Opaque)
    ELSE PolicyFault(live.pack, name, e)

(* Mutant of the next definition: the policy decides first.                *)
PolicyFirst(e) ==
    IF method = "process" THEN NoError
    ELSE IF EnforceFault(e) # NoError THEN EnforceFault(e)
    ELSE EnvelopeAlignmentFault(e)

EnvelopeChecks(e) ==
    IF method = "process" THEN NoError
    ELSE IF EnvelopeAlignmentFault(e) # NoError THEN EnvelopeAlignmentFault(e)
    ELSE EnforceFault(e)

(* adapter.build_envelope(source_input) and all the code up to build_output. *)
BuildEnvelopeReturns(e) ==
    /\ pc = "build_envelope"
    /\ IF EnvelopeChecks(e) = NoError
       THEN /\ envelope' = e
            /\ judged' = IF method \in Judging
                         THEN [pack |-> live.pack, envelope |-> e] ELSE None
            /\ pc' = "build_output"
            /\ UNCHANGED <<registry, call, live, manifest, output, result>>
       ELSE Reject(ReasonOf(EnvelopeChecks(e), Clauses))

(* _enforce_manifest_output_alignment *)
OutputAlignmentFault(o) ==
    IF ~ Subscripts(o, o.adapter) THEN Raise("Other", Opaque)
    ELSE IF o.adapter # manifest.adapter_id \/ o.form = "misversioned"
    THEN Raise("Contract", "INVALID_OUTPUT")
    ELSE IF ~ Subscripts(o, o.task_type) \/ ~ Subscripts(envelope, envelope.task_type)
    THEN Raise("Other", Opaque)
    ELSE IF o.task_type # envelope.task_type THEN Raise("Contract", "INVALID_OUTPUT")
    ELSE NoError

OutputChecks(o) == IF method = "process" THEN NoError ELSE OutputAlignmentFault(o)

BuildOutputReturns(o) ==
    /\ pc = "build_output"
    /\ IF OutputChecks(o) = NoError
       THEN Settle(envelope, o)
       ELSE Reject(ReasonOf(OutputChecks(o), Clauses))

(* Mutant of the next definition: except Exception is missing.             *)
RaiseUncaught(err) ==
    /\ pc \in Callbacks
    /\ IF err.class \in DOMAIN Clauses THEN Reject(ReasonOf(err, Clauses)) ELSE Escape

CallbackRaises(err) ==
    /\ pc \in Callbacks
    /\ Reject(ReasonOf(err, Clauses))

-----------------------------------------------------------------------------
(* Evidence.                                                               *)

EvidenceBuilds(e, o) ==
    /\ ReceiptBuilds(e, o)
    /\ method = "governed" => HandoffBuilds(e, o, ReceiptFor(manifest, e, o))

ReturnEvidence(e, o) ==
    /\ envelope' = e /\ output' = o
    /\ Return(o, ReceiptFor(manifest, e, o),
              IF method = "governed" THEN HandoffFor(e, o) ELSE None)
    /\ UNCHANGED <<manifest, judged>>

(* Mutants of the next definition: the failed artifacts' output survives   *)
(* without evidence; fallback evidence for the failed output; the block is *)
(* tried again on the fallback artifacts.                                  *)
KeepOutput == Return(output, None, None) /\ UNCHANGED locals
MixFallBack ==
    LET e == FailClosedEnvelope(name, live.source)
        o == FailClosed(name, live.source, "INTERNAL_ERROR")
    IN IF ~ FailsClosed(name, live.source) \/ ~ EvidenceBuilds(e, o) THEN Escape
       ELSE /\ Return(output, ReceiptFor(manifest, e, o), HandoffFor(e, o))
            /\ envelope' = e /\ UNCHANGED <<manifest, output, judged>>
RetryFallBack ==
    IF ~ FailsClosed(name, live.source) THEN Escape
    ELSE Settle(FailClosedEnvelope(name, live.source),
                FailClosed(name, live.source, "INTERNAL_ERROR"))

(* The except clause of the evidence block.                                *)
FallBack ==
    LET e == FailClosedEnvelope(name, live.source)
        o == FailClosed(name, live.source, "INTERNAL_ERROR")
    IN IF ~ FailsClosed(name, live.source) THEN Escape
       ELSE IF EvidenceBuilds(e, o) THEN ReturnEvidence(e, o)
       ELSE IF method = "governed" THEN Return(o, None, None) /\ UNCHANGED locals
       ELSE Escape

BuildEvidence ==
    /\ pc = "evidence"
    /\ IF EvidenceBuilds(envelope, output) THEN ReturnEvidence(envelope, output)
       ELSE FallBack

-----------------------------------------------------------------------------
(* Foreign code, as in BoundGateway.                                       *)

RewriteSource(pack, source) ==
    /\ pc \in Callbacks
    /\ live' = [source |-> source, pack |-> pack]
    /\ UNCHANGED <<registry, pc, call, locals, result>>

RewriteEnvelope(e) ==
    /\ pc = "build_output"
    /\ envelope.form # "not_dict" /\ e.form # "not_dict"
    /\ envelope' = e
    /\ UNCHANGED <<registry, pc, call, live, manifest, output, judged, result>>

CompleteRegistration(n, a, m) ==
    /\ pc \in Callbacks \cup {"idle"}
    /\ ~ Registry!Registered(n)
    /\ Registry!CommitOrRaise(n, a, m, <<>>)
    /\ UNCHANGED <<pc, call, live, locals, result>>

-----------------------------------------------------------------------------
GatewayStep ==
    \/ GetManifest
    \/ GetAdapter
    \/ \E e \in RawEnvelopes : BuildEnvelopeReturns(e)
    \/ \E o \in RawOutputs : BuildOutputReturns(o)
    \/ \E err \in CallbackErrors : CallbackRaises(err)
    \/ BuildEvidence

CallAny == \E m \in Methods, n \in Names \cup {NoLabel}, s \in Sources, p \in PolicyPacks :
              Call(m, n, s, p)

ForeignStep ==
    \/ \E p \in PolicyPacks, s \in Sources : RewriteSource(p, s)
    \/ \E e \in RawEnvelopes : RewriteEnvelope(e)
    \/ \E n \in Names, a \in Adapters, m \in Manifests \cup {BadManifest, None} :
          CompleteRegistration(n, a, m)

Next == CallAny \/ GatewayStep \/ ForeignStep

Spec == Init /\ [][Next]_vars

(* As in BoundGateway: adapter callbacks are taken to return or to raise.  *)
FairSpec == Spec /\ WF_vars(GatewayStep)

-----------------------------------------------------------------------------
(* Properties.                                                             *)

(* The locals hold what their blocks may leave there; only the methods     *)
(* that return evidence reach the evidence block (gateway.py:29-177).      *)
TypeOK ==
    /\ adapters \in [Names -> Adapters \cup {None}]
    /\ manifests \in [Names -> Manifests \cup {None}]
    /\ pc \in Blocks \cup {"idle"}
    /\ method \in Methods /\ name \in Names \cup {NoLabel}
    /\ live \in [source : Sources, pack : PolicyPacks] \cup {None}
    /\ manifest \in Manifests \cup {None}
    /\ pc # "idle" => live # None /\ result = None
    /\ pc = "evidence" => method \in Proving /\ manifest # None

Returned == pc = "idle" /\ result \notin {None, Raised}

(* Evidence is evidence of the very output it is returned with, and of one *)
(* envelope for receipt and handoff alike, also when the first attempt     *)
(* failed and fallback artifacts replaced the adapter's                    *)
(* (gateway.py:82-101, 132-177).                                           *)
EvidenceOfOutput ==
    Returned /\ result.receipt # None =>
        /\ method \in Proving
        /\ Hashable(envelope) /\ Hashable(result.output)
        /\ result.receipt = ReceiptFor([adapter_id |-> name], envelope, result.output)
        /\ result.handoff = IF method = "governed"
                            THEN HandoffFor(envelope, result.output) ELSE None

(* A method that promises evidence accepts nothing without it, whichever   *)
(* step of building it failed (gateway.py:82-101, 132-177).                *)
AcceptedHasEvidence ==
    Returned /\ method \in Proving /\ result.output.accepted =>
        result.receipt = ReceiptFor([adapter_id |-> name], envelope, result.output)

(* What a policy method accepts, the policy allowed: the pack, as it was   *)
(* when it was evaluated, was valid and allowed the envelope evaluated     *)
(* (gateway.py:603-626).                                                   *)
Allowed ==
    /\ judged \in [pack : PolicyPacks, envelope : RawEnvelopes]
    /\ judged.pack.form \in ValidForms
    /\ judged.envelope.adapter = name
    /\ PolicyReason(judged.pack, name, judged.envelope) = Accepted
AcceptedWasAllowed ==
    Returned /\ method \in Judging /\ result.output.accepted =>
        Allowed /\ result.output.adapter = name

(* A call raises only if its name is unusable or the source, None or a     *)
(* plain dict, says something unusable: whatever an adapter raises or      *)
(* returns for usable text ends in a returned rejection                    *)
(* (gateway.py:423-679, 749-774).                                          *)
UnusableText ==
    \/ name \notin Labels
    \/ live.source # None /\ {live.source.task, live.source.model} \cap
                             {BlankLabel, SurrogateLabel} # {}
RaisesOnlyOnUnusableText == pc = "idle" /\ result = Raised => UnusableText

(* Every call ends, the fallback included (gateway.py:29-177).             *)
EveryCallEnds == (pc # "idle") ~> (pc = "idle")

(* No step of a call for a registered adapter with a usable name lets an   *)
(* exception out: whatever fails becomes a rejected output                 *)
(* (gateway.py:749-774, called in every except clause).  The adapter is    *)
(* registered when the step is taken, and so it was when the call was      *)
(* made: nothing is registered before the callbacks, which a call for an   *)
(* unregistered name does not reach.                                       *)
NeverRaises ==
    [][pc # "idle" /\ Registry!Registered(name) /\ name \in Labels
          => result' # Raised]_vars

(* An accepted governed result carries a handoff that validate_handoff_v1  *)
(* accepts (gateway.py:138-147, handoff.py:21-50).                         *)
GovernedHandoffIsValid ==
    Returned /\ method = "governed" /\ result.output.accepted =>
        result.handoff # None /\ HandoffValid(result.handoff)
=============================================================================
