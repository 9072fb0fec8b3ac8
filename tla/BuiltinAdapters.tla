-------------------------- MODULE BuiltinAdapters --------------------------
(***************************************************************************)
(* The two adapters the package ships, PoIAdapter and WalletAdapter, and   *)
(* the gateway run with them: every request is put to the policy-bound     *)
(* path and to one V1 method, on one registry, and the two answers are     *)
(* compared.  Neither adapter has state, calls back or writes to what it   *)
(* is given, so the two calls do not disturb each other; the bound one     *)
(* runs first.                                                             *)
(***************************************************************************)
EXTENDS GatewayArtifacts

CONSTANTS
    BadManifest,  \* as in AdapterRegistry; the two manifests are validated
    PolicyPacks,  \* packs a caller may pass
    Sources       \* what source_input may be

VARIABLES
    adapters, manifests,  \* the registry
    source,               \* the source_input of the request
    (* the policy-bound call *)
    bpc, asked, blive, snapshot, bmanifest, benvelope, boutput, receipt, handoff,
    evaluated, bresult,
    (* the V1 call *)
    pc, method, name, live, manifest, envelope, output, judged, result

boundVars == <<bpc, asked, blive, snapshot, bmanifest, benvelope, boutput, receipt,
               handoff, evaluated, bresult>>
v1Vars    == <<pc, method, name, live, manifest, envelope, output, judged, result>>
vars      == <<adapters, manifests, source, boundVars, v1Vars>>

-----------------------------------------------------------------------------
(* Sources.                                                                *)
(*   fields   "complete"; "lacking" if a required field is absent (for     *)
(*            PoI: or None); "not_dict"                                    *)
(*   task, model   under "task_type" and "model_family"                    *)
(*   action   the wallet's own field, or input_payload["action"]           *)
(*   payload  the form of input_payload, or of the wallet's fields taken   *)
(*            together; "not_dict" also when one of those is blank         *)

BlankAction == "<blank action>"   \* an action to the gateway, none to the wallet

PayloadForms == ValidForms \cup {"misshapen", "not_dict"}

ASSUME BuiltinAssumption ==
    /\ {"poi", "wallet"} \subseteq Labels
    /\ BlankAction \in Actions
    /\ Sources \subseteq
          [fields : {"complete", "lacking", "not_dict"}, task : AnyLabel, model : AnyLabel,
           action : Actions \cup {NoAction}, payload : PayloadForms]
    /\ \A s \in Sources : s.payload = "not_dict" => s.action = NoAction
    /\ \A p \in PolicyPacks : p.form \in ChoiceForms

(* What the gateway reads of the source when it builds a refusal.          *)
TaskText(s) == IF s.fields = "not_dict" THEN NoLabel ELSE s.task
LiveText(s) ==
    IF s.fields = "not_dict" THEN None ELSE [task |-> s.task, model |-> s.model]

-----------------------------------------------------------------------------
(* The adapters.                                                           *)

Names == {"poi", "wallet"}

SUPPORTED_WALLET_ACTIONS == {"build_transaction", "sign_transaction_request"}

CommonReasons ==
    {Accepted, "UNSUPPORTED_TASK", "UNSUPPORTED_MODEL", "INVALID_ENVELOPE",
     "INVALID_OUTPUT", "MISSING_REQUIRED_FIELD", "SCHEMA_VIOLATION",
     "ADAPTER_VALIDATION_FAILED", "POLICY_DENIED", "INTERNAL_ERROR"}

PoIManifest ==
    [form |-> "wellformed", adapter_id |-> "poi",
     supported_actions |-> {"evaluate_candidate"}, failure_reason_ids |-> CommonReasons]
WalletManifest ==
    [form |-> "wellformed", adapter_id |-> "wallet",
     supported_actions |-> SUPPORTED_WALLET_ACTIONS,
     failure_reason_ids |-> CommonReasons \cup {"ADAPTER_NOT_REGISTERED"}]

AdapterOf(n)  == IF n = "poi" THEN "PoIAdapter" ELSE "WalletAdapter"
ManifestOf(n) == IF n = "poi" THEN PoIManifest ELSE WalletManifest

(* PoIAdapter.build_envelope copies three fields and validates.            *)
PoIForm(s) ==
    IF s.fields = "lacking" THEN "incomplete"
    ELSE IF {s.task, s.model} \cap {BlankLabel, NoLabel} # {} \/ s.payload = "not_dict"
    THEN "misshapen"
    ELSE IF SurrogateLabel \in {s.task, s.model} /\ s.payload # "misshapen"
    THEN "unencodable"
    ELSE s.payload
PoIEnvelope(s) ==
    [form |-> PoIForm(s), adapter |-> "poi", task_type |-> s.task,
     model_family |-> s.model, action |-> s.action]
PoIFault(s) ==
    IF s.fields = "not_dict" THEN Raise("Other", Opaque)   \* no attribute "get"
    ELSE EnvelopeFault(PoIEnvelope(s))

(* WalletAdapter.build_envelope: the fields, the action, the envelope.     *)
WalletEnvelope(s) ==
    [form |-> s.payload, adapter |-> "wallet", task_type |-> "wallet_operation",
     model_family |-> "wallet-v1", action |-> s.action]
WalletFault(s) ==
    IF s.fields = "not_dict" THEN Raise("Validation", "SCHEMA_VIOLATION")
    ELSE IF s.fields = "lacking" THEN Raise("Validation", "MISSING_REQUIRED_FIELD")
    ELSE IF s.action \in {NoAction, BlankAction} \/ s.payload = "not_dict"
    THEN Raise("Validation", "SCHEMA_VIOLATION")
    ELSE IF s.action \notin SUPPORTED_WALLET_ACTIONS
    THEN Raise("Adapter", "ADAPTER_VALIDATION_FAILED")
    ELSE EnvelopeFault(WalletEnvelope(s))

EnvelopeOf(n, s)      == IF n = "poi" THEN PoIEnvelope(s) ELSE WalletEnvelope(s)
BuildEnvelopeFault(n, s) == IF n = "poi" THEN PoIFault(s) ELSE WalletFault(s)

(* policy_reason_for, over the package's own lists                         *)
ALLOWED_TASK_TYPES == {"code_review", "test_generation", "documentation", "bug_report"}
ALLOWED_MODEL_FAMILIES == {"deterministic-test-model", "poi-v1"}

(* Mutant of the next definition: the model is not looked at.              *)
ReasonForTask(e) ==
    IF e.task_type \notin ALLOWED_TASK_TYPES THEN "UNSUPPORTED_TASK" ELSE Accepted

ReasonFor(e) ==
    IF e.task_type \notin ALLOWED_TASK_TYPES THEN "UNSUPPORTED_TASK"
    ELSE IF e.model_family \notin ALLOWED_MODEL_FAMILIES THEN "UNSUPPORTED_MODEL"
    ELSE Accepted

(* Mutants of the next two definitions: no context hash; a failure to hash *)
(* is named.                                                               *)
NoContextHash(e) == EmptyHash
NamedHashFault(e) ==
    IF Hashable(e) THEN NoError ELSE Raise("Validation", "HASHING_FAILED")

(* context_hash_for_value, and what the encoder raises if it cannot        *)
ContextHash(e) == Sha256(e)
HashFault(e) == IF Hashable(e) THEN NoError ELSE Raise("Other", Opaque)

(* build_output: PoI judges the envelope and echoes none of its payload,   *)
(* the wallet accepts and echoes all of it.                                *)
OutputOf(n, e) ==
    LET reason == IF n = "poi" THEN ReasonFor(e) ELSE Accepted
    IN [form |-> IF n = "poi" THEN "wellformed" ELSE e.form, adapter |-> n,
        task_type |-> e.task_type, accepted |-> reason = Accepted, reason_id |-> reason,
        context_hash |-> ContextHash(e)]

-----------------------------------------------------------------------------
(* The gateway.                                                            *)

Adapters  == {AdapterOf(n) : n \in Names}
Manifests == {ManifestOf(n) : n \in Names}
Envelopes == {EnvelopeOf(n, s) : n \in Names, s \in Sources}
Outputs   == {OutputOf(n, EnvelopeOf(n, s)) : n \in Names, s \in Sources}

Bound == INSTANCE BoundGateway WITH
    SourceTasks <- {TaskText(s) : s \in Sources}, EnvelopeWrites <- FALSE,
    RawEnvelopes <- Envelopes, RawOutputs <- Outputs, CallbackErrors <- {},
    pc <- bpc, live <- blive, manifest <- bmanifest, envelope <- benvelope,
    output <- boutput, result <- bresult

V1 == INSTANCE GovernedV1 WITH
    Sources <- {LiveText(s) : s \in Sources},
    RawEnvelopes <- Envelopes, RawOutputs <- Outputs, CallbackErrors <- {}

(* None is no source, adapter, manifest or policy binding.                 *)
ASSUME BuiltinNoneAssumption ==
    /\ None \notin Sources /\ None \notin Adapters /\ None \notin Manifests
    /\ \A p \in PolicyPacks, e \in Envelopes :
          \A o \in Outputs \cup {Bound!RejectedOutput(e, reason) : reason \in ReasonIds} :
             BindingFor(p, ReceiptFor(ManifestOf(e.adapter), e, o), HandoffFor(e, o)) # None

Init ==
    /\ \E registered \in SUBSET Names :
          /\ adapters = [n \in Names |-> IF n \in registered THEN AdapterOf(n) ELSE None]
          /\ manifests = [n \in Names |-> IF n \in registered THEN ManifestOf(n) ELSE None]
    /\ source = None
    /\ bpc = "idle" /\ asked = None /\ blive = None /\ snapshot = None /\ bmanifest = None
    /\ benvelope = None /\ boutput = None /\ receipt = None /\ handoff = None
    /\ evaluated = None /\ bresult = None
    /\ pc = "idle" /\ method = "process" /\ name = NoLabel /\ live = None
    /\ manifest = None /\ envelope = None /\ output = None /\ judged = None
    /\ result = None

(* The same request to both paths.  A call leaves nothing behind that a    *)
(* later one reads, so a behaviour has one request.                        *)
Request(m, n, s, pack) ==
    /\ source = None /\ source' = s
    /\ Bound!Call(n, TaskText(s), pack)
    /\ V1!Call(m, n, LiveText(s), pack)

BoundBuildsEnvelope ==
    LET fault == BuildEnvelopeFault(asked.name, source)
    IN IF fault = NoError
       THEN Bound!BuildEnvelopeReturns(EnvelopeOf(asked.name, source))
       ELSE Bound!BuildEnvelopeRaises(fault)

BoundBuildsOutput ==
    IF HashFault(benvelope) = NoError
    THEN Bound!BuildOutputReturns(OutputOf(asked.name, benvelope))
    ELSE Bound!BuildOutputRaises(HashFault(benvelope))

BoundStep ==
    /\ \/ Bound!CapturePolicy \/ Bound!GetManifest \/ Bound!GetAdapter
       \/ bpc = "build_envelope" /\ BoundBuildsEnvelope
       \/ Bound!AlignEnvelope \/ Bound!EnforcePolicy
       \/ bpc = "build_output" /\ BoundBuildsOutput
       \/ Bound!BuildReceipt \/ Bound!BuildHandoff \/ Bound!BindPolicy
    /\ UNCHANGED <<source, v1Vars>>

V1BuildsEnvelope ==
    LET fault == BuildEnvelopeFault(name, source)
    IN IF fault = NoError
       THEN V1!BuildEnvelopeReturns(EnvelopeOf(name, source))
       ELSE V1!CallbackRaises(fault)

V1BuildsOutput ==
    IF HashFault(envelope) = NoError
    THEN V1!BuildOutputReturns(OutputOf(name, envelope))
    ELSE V1!CallbackRaises(HashFault(envelope))

V1Step ==
    /\ bpc = "idle"
    /\ \/ V1!GetManifest \/ V1!GetAdapter
       \/ pc = "build_envelope" /\ V1BuildsEnvelope
       \/ pc = "build_output" /\ V1BuildsOutput
       \/ V1!BuildEvidence
    /\ UNCHANGED <<source, boundVars>>

RequestAny == \E m \in V1!Methods, n \in Names, s \in Sources, p \in PolicyPacks :
                 Request(m, n, s, p)

Next == RequestAny \/ BoundStep \/ V1Step

Spec == Init /\ [][Next]_vars

-----------------------------------------------------------------------------
(* Properties.                                                             *)

Answered    == bpc = "idle" /\ pc = "idle" /\ bresult # None /\ result # None
Registered  == adapters[name] # None

(* Whatever is wrong with source or pack, a registered adapter's call ends *)
(* in a reason its manifest declares, on both paths (poi.py:37-48,         *)
(* wallet.py:49-61).                                                       *)
DeclaredReasons ==
    Answered /\ Registered =>
        /\ bresult.output.reason_id \in ManifestOf(name).failure_reason_ids
        /\ result # V1!Raised =>
              result.output.reason_id \in ManifestOf(name).failure_reason_ids

(* The paths of one gateway do not contradict each other.  What the bound  *)
(* path accepts, a V1 method that takes the pack accepts with the same     *)
(* output, receipt and handoff.  What the bound path decides with          *)
(* evidence, or could not object to the exactness or the missing action    *)
(* of, both decide for the same reason, unless a V1 refusal, which quotes  *)
(* the source, meets text it cannot use (gateway.py:132-177, 239-282).     *)
Exact ==
    /\ asked.pack.form \in {"wellformed", "boundary"}
    /\ source.payload \notin {"boundary", "inexact", "unencodable"}
    /\ source.action # NoAction
SameReason ==
    /\ result.output.accepted = bresult.output.accepted
    /\ result.output.reason_id = bresult.output.reason_id
PathsAgree ==
    Answered /\ method \in V1!Judging =>
        /\ bresult.output.accepted =>
              /\ result.output = bresult.output
              /\ method = "governed" => /\ result.receipt = bresult.receipt
                                        /\ result.handoff = bresult.handoff
        /\ /\ result # V1!Raised /\ SurrogateLabel \notin {source.task, source.model}
           /\ Exact \/ bresult.policy_binding # None
           => SameReason

(* No check refuses what all rules allow: a source the adapter supports,   *)
(* under a pack that allows it, ends accepted and bound                    *)
(* (gateway.py:179-282, poi.py:53-84, wallet.py:66-103).                   *)
Supported ==
    /\ Registered /\ Exact
    /\ EnvelopeOf(name, source).form = "wellformed"
    /\ BuildEnvelopeFault(name, source) = NoError
    /\ source.action \in ManifestOf(name).supported_actions
    /\ PolicyReason(asked.pack, name, EnvelopeOf(name, source)) = Accepted
    /\ name = "poi" => ReasonFor(EnvelopeOf(name, source)) = Accepted
SupportedIsBound ==
    Answered /\ Supported => bresult.output.accepted /\ bresult.policy_binding # None

(* No pack and no method widens what an adapter supports: an accepted PoI  *)
(* output is of a listed task and model, an accepted wallet output of a    *)
(* supported action, also through process, which enforces nothing          *)
(* (policy.py:28-33, wallet.py:105-109).                                   *)
WithinAdapterRules(o) ==
    o.accepted =>
        IF name = "poi"
        THEN source.task \in ALLOWED_TASK_TYPES /\ source.model \in ALLOWED_MODEL_FAMILIES
        ELSE source.action \in SUPPORTED_WALLET_ACTIONS
AdapterRulesHold ==
    Answered => /\ WithinAdapterRules(bresult.output)
                /\ result # V1!Raised => WithinAdapterRules(result.output)
=============================================================================
