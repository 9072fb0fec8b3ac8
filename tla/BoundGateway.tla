---------------------------- MODULE BoundGateway ----------------------------
(***************************************************************************)
(* AIGateway.process_governed_with_policy_binding_v1: the path whose       *)
(* evidence is bound to the policy pack.  One action per try block.        *)
(*                                                                         *)
(* The gateway runs no threads, but adapters are foreign code: while it    *)
(* waits in build_envelope or build_output, they may rewrite whatever they *)
(* hold a reference to (the caller's policy pack and source input, the     *)
(* envelope handed to build_output) and register further adapters.         *)
(***************************************************************************)
EXTENDS GatewayArtifacts

CONSTANTS
    Names,          \* registry names: the non-empty strings in use
    Adapters,       \* adapter objects
    Manifests,      \* manifests that pass their validator
    BadManifest,    \* a manifest that does not
    PolicyPacks,    \* packs a caller may pass, or an adapter may turn them into
    SourceTasks,    \* what source_input may say under "task_type"
    RawEnvelopes,   \* what build_envelope may return
    RawOutputs,     \* what build_output may return
    CallbackErrors, \* what adapter code may raise
    EnvelopeWrites  \* may build_output change the envelope it is handed?

VARIABLES
    adapters, manifests,  \* the registry
    pc,         \* the try block the call is at; "idle" between calls
    asked,      \* the name and the pack the caller passed, as passed
    live,       \* the caller's objects as they are now: [pack, task]
    snapshot,   \* captured_policy_pack
    manifest, envelope, output, receipt, handoff,  \* the locals of the call
    evaluated,  \* the envelope the policy was evaluated on
    result      \* what the last call returned, None while a call runs

registry == <<adapters, manifests>>
locals   == <<snapshot, manifest, envelope, output, receipt, handoff, evaluated>>
vars     == <<registry, pc, asked, live, locals, result>>

Registry == INSTANCE AdapterRegistry WITH
    BadName <- NoLabel, frames <- <<>>, MaxNesting <- 0, SameNameReentry <- FALSE,
    Offers <- [a \in Adapters |-> Manifests]

ASSUME BoundGatewayAssumption ==
    /\ Names \subseteq AnyLabel \ {NoLabel}
    /\ {None, BadManifest} \cap Manifests = {} /\ None # BadManifest
    /\ None \notin Adapters
    /\ \A m \in Manifests : m.adapter_id \in Names \cap Labels
    /\ \A m \in Manifests : m.form \in {"wellformed", "inexact"}
    /\ \A p \in PolicyPacks : p.form \in ChoiceForms
    /\ SourceTasks \subseteq AnyLabel
    /\ \A e \in RawEnvelopes : e.form \in EnvelopeForms
    /\ \A e \in RawEnvelopes : e.form \in {"wellformed", "boundary"} =>
           {e.adapter, e.task_type, e.model_family} \subseteq Labels
    /\ \A o \in RawOutputs : o.form \in ChoiceForms
    /\ \A o \in RawOutputs : o.form \in {"wellformed", "boundary"} =>
           {o.adapter, o.task_type} \subseteq Labels
    /\ CallbackErrors \subseteq [class : ErrorClasses, message : Reasons]
    /\ EnvelopeWrites \in BOOLEAN
    /\ None \notin [name : Names \cup {NoLabel}, pack : PolicyPacks]

Blocks == {"capture", "get_manifest", "get_adapter", "build_envelope", "align",
           "enforce", "build_output", "receipt", "handoff", "bind"}
Callbacks == {"build_envelope", "build_output"}

Init ==
    /\ adapters = [n \in Names |-> None]
    /\ manifests = [n \in Names |-> None]
    /\ pc = "idle"
    /\ asked = None /\ live = None
    /\ snapshot = None /\ manifest = None /\ envelope = None /\ output = None
    /\ receipt = None /\ handoff = None /\ evaluated = None
    /\ result = None

-----------------------------------------------------------------------------
(* Results.                                                                *)

(* Mutant of the next definition: any non-empty text is a safe label.      *)
TruthyLabel(value, fallback) == IF value = NoLabel THEN fallback ELSE value

(* _safe_failure_label *)
SafeLabel(value, fallback) == IF value \in Labels THEN value ELSE fallback

(* The output of _policy_binding_failure_result.                           *)
FailureOutput(n, task, reason) ==
    LET a == SafeLabel(n, "unknown")
        fallback == IF a = "wallet" THEN "wallet_operation" ELSE "unknown"
    IN [form |-> "wellformed", adapter |-> a,
        task_type |-> SafeLabel(task, fallback), accepted |-> FALSE,
        reason_id |-> reason, context_hash |-> EmptyHash]

(* _policy_binding_rejected_output *)
RejectedOutput(e, reason) ==
    [form |-> "wellformed", adapter |-> e.adapter, task_type |-> e.task_type,
     accepted |-> FALSE, reason_id |-> reason, context_hash |-> Sha256(e)]

DropLocals ==
    /\ snapshot' = None /\ manifest' = None /\ envelope' = None /\ output' = None
    /\ receipt' = None /\ handoff' = None /\ evaluated' = None

(* The call returns a failure: no evidence, and its locals are gone.       *)
Fail(reason) ==
    /\ pc' = "idle"
    /\ result' = [output |-> FailureOutput(asked.name, live.task, reason),
                  receipt |-> None, handoff |-> None, policy_binding |-> None]
    /\ DropLocals
    /\ UNCHANGED <<registry, asked, live>>

Goto(block) == pc' = block /\ UNCHANGED <<registry, asked, live, result>>

-----------------------------------------------------------------------------
(* The call.                                                               *)

Call(n, task, pack) ==
    /\ pc = "idle"
    /\ pc' = "capture"
    /\ asked' = [name |-> n, pack |-> pack]
    /\ live' = [task |-> task, pack |-> pack]
    /\ DropLocals
    /\ result' = None
    /\ UNCHANGED registry

(* _capture_policy_pack_v1 and _materialize_policy_pack_v1: what the rest  *)
(* of the call evaluates and hashes is a value of its own from here on.    *)
CapturePolicy ==
    /\ pc = "capture"
    /\ LET fault == Snapshotted(live.pack, PolicyPackFault(live.pack))
       IN IF fault = NoError
          THEN /\ snapshot' = live.pack
               /\ Goto("get_manifest")
               /\ UNCHANGED <<manifest, envelope, output, receipt, handoff, evaluated>>
          ELSE Fail(ReasonFromError(fault, "SCHEMA_VIOLATION"))

GetManifest ==
    /\ pc = "get_manifest"
    /\ LET missing == Registry!GetManifestFault(asked.name)
           found   == manifests[asked.name]
       IN IF missing # "none" THEN Fail(missing)
          ELSE IF Snapshotted(found, NoError) # NoError
          THEN Fail(Snapshotted(found, NoError).message)
          ELSE /\ manifest' = found
               /\ Goto("get_adapter")
               /\ UNCHANGED <<snapshot, envelope, output, receipt, handoff, evaluated>>

GetAdapter ==
    /\ pc = "get_adapter"
    /\ IF Registry!GetFault(asked.name) # "none"
       THEN Fail(Registry!GetFault(asked.name))
       ELSE Goto("build_envelope") /\ UNCHANGED locals

(* adapter.build_envelope(source_input), snapshot and validation.          *)
EnvelopeClauses ==
    [Validation |-> "SCHEMA_VIOLATION", Contract |-> "INVALID_ENVELOPE",
     Adapter |-> "ADAPTER_VALIDATION_FAILED"]

BuildEnvelopeReturns(e) ==
    /\ pc = "build_envelope"
    /\ LET fault == Snapshotted(e, EnvelopeFault(e))
       IN IF fault = NoError
          THEN /\ envelope' = e
               /\ Goto("align")
               /\ UNCHANGED <<snapshot, manifest, output, receipt, handoff, evaluated>>
          ELSE Fail(ReasonOf(fault, EnvelopeClauses))

BuildEnvelopeRaises(err) ==
    /\ pc = "build_envelope"
    /\ Fail(ReasonOf(err, EnvelopeClauses))

(* The identity checks and the mandatory, declared action.                 *)
AlignEnvelope ==
    /\ pc = "align"
    /\ IF envelope.adapter # asked.name \/ manifest.adapter_id # asked.name
       THEN Fail("INVALID_ENVELOPE")
       ELSE IF envelope.action = NoAction \/ envelope.action \notin manifest.supported_actions
       THEN Fail("ADAPTER_VALIDATION_FAILED")
       ELSE Goto("enforce") /\ UNCHANGED locals

(* enforce_policy_for_adapter against the captured pack; a denial is       *)
(* evidence of its own.                                                    *)
EnforceWith(pack) ==
    /\ pc = "enforce"
    /\ LET fault == PolicyFault(pack, asked.name, envelope)
       IN IF fault = NoError
          THEN /\ Goto("build_output")
               /\ evaluated' = envelope
               /\ UNCHANGED <<snapshot, manifest, envelope, output, receipt, handoff>>
          ELSE IF fault.class = "Policy"
          THEN /\ Goto("receipt")
               /\ evaluated' = envelope
               /\ output' = RejectedOutput(envelope, ReasonFromError(fault, "POLICY_DENIED"))
               /\ UNCHANGED <<snapshot, manifest, envelope, receipt, handoff>>
          ELSE Fail("INTERNAL_ERROR")

(* Mutant of the next definition: the caller's own pack is evaluated.      *)
EnforceLivePolicy == EnforceWith(live.pack)

EnforcePolicy == EnforceWith(snapshot)

(* adapter.build_output(envelope), snapshot, validation and alignment.     *)
OutputClauses ==
    [Validation |-> "SCHEMA_VIOLATION", Contract |-> "INVALID_OUTPUT",
     Policy |-> "POLICY_DENIED", Adapter |-> "ADAPTER_VALIDATION_FAILED"]

OutputAlignmentFault(m, e, o) ==
    IF o.adapter # m.adapter_id THEN Raise("Contract", "INVALID_OUTPUT")
    ELSE IF ~ Subscripts(e, e.task_type) THEN Raise("Other", Opaque)
    ELSE IF o.task_type # e.task_type THEN Raise("Contract", "INVALID_OUTPUT")
    ELSE NoError

BuildOutputReturns(o) ==
    /\ pc = "build_output"
    /\ LET shape == Snapshotted(o, OutputFault(o))
           fault == IF shape # NoError THEN shape
                    ELSE OutputAlignmentFault(manifest, envelope, o)
       IN IF fault = NoError
          THEN /\ output' = o
               /\ Goto("receipt")
               /\ UNCHANGED <<snapshot, manifest, envelope, receipt, handoff, evaluated>>
          ELSE Fail(ReasonOf(fault, OutputClauses))

BuildOutputRaises(err) ==
    /\ pc = "build_output"
    /\ Fail(ReasonOf(err, OutputClauses))

BuildReceipt ==
    /\ pc = "receipt"
    /\ IF ReceiptBuilds(envelope, output)
       THEN /\ receipt' = ReceiptFor(manifest, envelope, output)
            /\ Goto("handoff")
            /\ UNCHANGED <<snapshot, manifest, envelope, output, handoff, evaluated>>
       ELSE Fail("INTERNAL_ERROR")

BuildHandoff ==
    /\ pc = "handoff"
    /\ IF HandoffBuilds(envelope, output, receipt)
       THEN /\ handoff' = HandoffFor(envelope, output)
            /\ Goto("bind")
            /\ UNCHANGED <<snapshot, manifest, envelope, output, receipt, evaluated>>
       ELSE Fail("INTERNAL_ERROR")

(* The call returns its evidence; envelope and evaluated stay behind for   *)
(* the properties.                                                         *)
ReturnBound(binding) ==
    /\ pc' = "idle"
    /\ result' = [output |-> output, receipt |-> receipt, handoff |-> handoff,
                  policy_binding |-> binding]
    /\ snapshot' = None /\ manifest' = None /\ output' = None
    /\ receipt' = None /\ handoff' = None
    /\ UNCHANGED <<registry, asked, live, envelope, evaluated>>

BindUnless(refused, pack) ==
    /\ pc = "bind"
    /\ IF refused
       THEN Fail("INTERNAL_ERROR")
       ELSE ReturnBound(BindingFor(pack, receipt, handoff))

(* Mutants of the next definition: the receipt and the handoff survive a   *)
(* failed binding; the caller's own pack is hashed; nothing is checked; a  *)
(* failed binding is tried again.                                          *)
BindOrReturnChain ==
    /\ pc = "bind"
    /\ ReturnBound(IF BindingBuilds(envelope, output, receipt, handoff)
                   THEN BindingFor(snapshot, receipt, handoff) ELSE None)
BindLivePolicy ==
    BindUnless(~ BindingBuilds(envelope, output, receipt, handoff), live.pack)
BindUnchecked == BindUnless(FALSE, snapshot)
BindOrRetry ==
    /\ pc = "bind"
    /\ IF BindingBuilds(envelope, output, receipt, handoff)
       THEN ReturnBound(BindingFor(snapshot, receipt, handoff))
       ELSE Goto("handoff") /\ UNCHANGED locals

(* _build_policy_binding_v1 *)
BindPolicy ==
    BindUnless(~ BindingBuilds(envelope, output, receipt, handoff), snapshot)

-----------------------------------------------------------------------------
(* Foreign code.                                                           *)

RewriteSource(pack, task) ==
    /\ pc \in Callbacks
    /\ live' = [task |-> task, pack |-> pack]
    /\ UNCHANGED <<registry, pc, asked, locals, result>>

(* The envelope is rewritten in place: it stays a dict.                    *)
RewriteEnvelope(e) ==
    /\ pc = "build_output" /\ EnvelopeWrites
    /\ e.form # "not_dict"
    /\ envelope' = e
    /\ UNCHANGED <<registry, pc, asked, live, snapshot, manifest, output, receipt,
                   handoff, evaluated, result>>

(* A registration completes, between calls or inside a callback.           *)
CompleteRegistration(n, a, m) ==
    /\ pc \in Callbacks \cup {"idle"}
    /\ ~ Registry!Registered(n)
    /\ Registry!CommitOrRaise(n, a, m, <<>>)
    /\ UNCHANGED <<pc, asked, live, locals, result>>

-----------------------------------------------------------------------------
CallAny == \E n \in Names \cup {NoLabel}, t \in SourceTasks, p \in PolicyPacks : Call(n, t, p)

GatewayStep ==
    \/ CapturePolicy
    \/ GetManifest
    \/ GetAdapter
    \/ \E e \in RawEnvelopes : BuildEnvelopeReturns(e)
    \/ \E err \in CallbackErrors : BuildEnvelopeRaises(err)
    \/ AlignEnvelope
    \/ EnforcePolicy
    \/ \E o \in RawOutputs : BuildOutputReturns(o)
    \/ \E err \in CallbackErrors : BuildOutputRaises(err)
    \/ BuildReceipt
    \/ BuildHandoff
    \/ BindPolicy

ForeignStep ==
    \/ \E p \in PolicyPacks, t \in SourceTasks : RewriteSource(p, t)
    \/ \E e \in RawEnvelopes : RewriteEnvelope(e)
    \/ \E n \in Names, a \in Adapters, m \in Manifests \cup {BadManifest, None} :
          CompleteRegistration(n, a, m)

Next == CallAny \/ GatewayStep \/ ForeignStep

Spec == Init /\ [][Next]_vars

(* A call that has started goes on: the gateway's own code runs to its     *)
(* next callback, and adapter callbacks are taken to return or to raise.   *)
FairSpec == Spec /\ WF_vars(GatewayStep)

-----------------------------------------------------------------------------
(* Properties.                                                             *)

Request == [name : Names \cup {NoLabel}, pack : PolicyPacks]
Live    == [task : SourceTasks, pack : PolicyPacks]

(* Every local holds a value its try block may have left there, and a call *)
(* in progress has its arguments and no result yet (gateway.py:179-282).   *)
TypeOK ==
    /\ adapters \in [Names -> Adapters \cup {None}]
    /\ manifests \in [Names -> Manifests \cup {None}]
    /\ pc \in Blocks \cup {"idle"}
    /\ snapshot \in PolicyPacks \cup {None}
    /\ manifest \in Manifests \cup {None}
    /\ envelope \in RawEnvelopes \cup {None}
    /\ evaluated \in RawEnvelopes \cup {None}
    /\ pc # "idle" => asked \in Request /\ live \in Live /\ result = None
    /\ result # None => asked \in Request

Returned == pc = "idle" /\ result # None
Bound    == Returned /\ result.policy_binding # None
Verdict  == PolicyReason(asked.pack, asked.name, evaluated)

(* The evidence of a call is all or nothing: either no receipt, handoff or *)
(* binding beside a rejected output, or all three, where receipt and       *)
(* handoff hash one and the same envelope and output and the binding, of   *)
(* whatever pack, hashes that receipt and handoff (gateway.py:246-282).    *)
AtomicEvidence ==
    Returned =>
        \/ /\ {result.receipt, result.handoff, result.policy_binding} = {None}
           /\ ~ result.output.accepted
        \/ /\ result.receipt = ReceiptFor([adapter_id |-> asked.name], envelope, result.output)
           /\ result.handoff = HandoffFor(envelope, result.output)
           /\ \E p \in PolicyPacks :
                 result.policy_binding = BindingFor(p, result.receipt, result.handoff)
           /\ result.output.context_hash = Sha256(envelope)

(* The binding names and hashes the pack the caller passed, as it was when *)
(* the call began, whatever adapters made of the caller's object meanwhile *)
(* (gateway.py:192-194).                                                   *)
PolicyIdentity ==
    Bound => /\ result.policy_binding.policy_pack_id = asked.pack.id
             /\ result.policy_binding.policy_pack_hash = Sha256(asked.pack)

(* The decision of a bound result is the decision that pack takes on the   *)
(* envelope the gateway evaluated, whose action the registered manifest    *)
(* declares: a denial is returned as that denial with its reason, and what *)
(* is accepted was allowed (gateway.py:365-395).                           *)
VerdictMatchesPolicy ==
    Bound =>
        /\ evaluated.action \in manifests[asked.name].supported_actions
        /\ Verdict # Accepted => result.output = RejectedOutput(evaluated, Verdict)
        /\ result.output.accepted => Verdict = Accepted

(* A refused call still answers with an output its caller can use: usable  *)
(* labels whatever name and source were passed, and a registered reason,   *)
(* never ACCEPTED, whatever a callback raised (gateway.py:776-861).        *)
RefusalsAreExplained ==
    Returned /\ ~ result.output.accepted =>
        /\ {result.output.adapter, result.output.task_type} \subseteq Labels
        /\ result.output.reason_id \in ReasonIds

(* Accepted evidence is evidence of an envelope the bound policy allows,   *)
(* whatever build_output did with the envelope it was handed               *)
(* (gateway.py:374, 395).                                                  *)
AcceptedEnvelopeAllowed ==
    Bound /\ result.output.accepted =>
        PolicyReason(asked.pack, asked.name, envelope) = Accepted

(* Every call returns, whatever the adapter returns or raises: no exit of  *)
(* a try block is missing (gateway.py:192-282).                            *)
EveryCallReturns == (pc # "idle") ~> (pc = "idle")

(* The call is one atomic step to its caller: a refusal, or the evidence   *)
(* of one envelope under the pack it passed (gateway.py:185-190).          *)
Abstract == INSTANCE AtomicBinding WITH
    Requests  <- Request,
    Envelopes <- RawEnvelopes,
    Outputs   <- RawOutputs,
    request   <- IF pc = "idle" THEN None ELSE asked,
    answer    <- result

ImplementsAtomicBinding == Abstract!Spec

-----------------------------------------------------------------------------
(* What a call has established when it reaches a block: the strengthening  *)
(* that makes the properties above inductive.                              *)

BudgetForms    == {"wellformed", "boundary"}    \* exact and valid
AfterCapture   == Blocks \ {"capture"}
AfterManifest  == AfterCapture \ {"get_manifest"}
AfterPolicy    == {"build_output", "receipt", "handoff", "bind"}
AfterOutput    == AfterPolicy \ {"build_output"}

Captured ==
    /\ pc = "capture" => live.pack = asked.pack
    /\ pc \in AfterCapture => snapshot = asked.pack /\ snapshot.form \in BudgetForms

Found ==
    pc \in AfterManifest \/ Bound =>
        /\ asked.name \in Names
        /\ adapters[asked.name] # None
        /\ manifests[asked.name] # None
        /\ pc \in AfterManifest => manifest = manifests[asked.name]

Aligned(e) ==
    /\ e \in RawEnvelopes /\ e.form \in BudgetForms
    /\ e.adapter = asked.name /\ manifest.adapter_id = asked.name
    /\ e.action # NoAction /\ e.action \in manifest.supported_actions

EnvelopeKept ==
    /\ pc = "align" => envelope \in RawEnvelopes /\ envelope.form \in BudgetForms
    /\ pc = "enforce" => Aligned(envelope)
    /\ pc \in AfterPolicy =>
          /\ Aligned(evaluated)
          /\ envelope \in RawEnvelopes
          /\ ~ EnvelopeWrites => envelope = evaluated

Judged ==
    /\ pc = "build_output" => Verdict = Accepted
    /\ pc \in AfterOutput =>
          \/ /\ Verdict # Accepted
             /\ envelope = evaluated
             /\ output = RejectedOutput(evaluated, Verdict)
          \/ /\ Verdict = Accepted
             /\ output \in RawOutputs /\ output.form \in BudgetForms
             /\ output.adapter = asked.name /\ output.task_type = envelope.task_type

Chained ==
    /\ pc \in {"handoff", "bind"} => receipt = ReceiptFor(manifest, envelope, output)
    /\ pc = "bind" => handoff = HandoffFor(envelope, output)

(* Each block relies on what the blocks before it established about the    *)
(* captured pack, the registered manifest, the aligned envelope, the       *)
(* verdict and the chain built so far; no foreign step between two blocks  *)
(* may undo it (gateway.py:192-282, 294-421).                              *)
Progress == Captured /\ Found /\ EnvelopeKept /\ Judged /\ Chained
=============================================================================
