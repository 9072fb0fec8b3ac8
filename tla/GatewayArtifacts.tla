-------------------------- MODULE GatewayArtifacts --------------------------
(***************************************************************************)
(* The artifacts the gateway moves around, what its validators say of      *)
(* them and how its builders derive one from another.  No state here: the  *)
(* modules that model the registry and the gateway paths extend this one.  *)
(*                                                                         *)
(* An artifact is a record of the fields that some decision compares, plus *)
(* a "form": the way its JSON shape passes or fails the validators.        *)
(***************************************************************************)
EXTENDS Naturals

CONSTANTS
    Labels,   \* usable text: not blank, within MAX_STRING_LENGTH, UTF-8 encodable
    Actions,  \* usable values of input_payload["action"]
    None      \* Python's None where an artifact or a snapshot may be missing

(* Text the validators tell apart from usable text.                        *)
BlankLabel     == "<blank or overlong>"    \* truthy, refused by _validate_non_empty_str
SurrogateLabel == "<lone surrogate>"       \* validates, cannot be encoded as UTF-8
NoLabel        == "<absent, empty or not text>"
NoAction       == "<no action>"

AnyLabel == Labels \cup {BlankLabel, SurrogateLabel, NoLabel}

ASSUME LabelsAssumption ==
    /\ {"unknown", "wallet", "wallet_operation",
        "fail_closed_v1", "wallet-v1"} \subseteq Labels
    /\ {BlankLabel, SurrogateLabel, NoLabel} \cap Labels = {}
    /\ NoAction \notin Actions

-----------------------------------------------------------------------------
(* Reason ids and errors.                                                  *)

ReasonIds ==
    {"INVALID_ENVELOPE", "INVALID_OUTPUT", "SCHEMA_VIOLATION",
     "MISSING_REQUIRED_FIELD", "CANONICALIZATION_FAILED", "HASHING_FAILED",
     "POLICY_DENIED", "UNSUPPORTED_TASK", "UNSUPPORTED_MODEL",
     "NON_DETERMINISTIC_OUTPUT", "ADAPTER_NOT_REGISTERED",
     "ADAPTER_VALIDATION_FAILED", "INTERNAL_ERROR"}

Accepted == "ACCEPTED"           \* what an accepted output says; not a ReasonID
Opaque   == "<other text>"       \* a message, or a reason, that is no ReasonID
Reasons  == ReasonIds \cup {Accepted, Opaque}

ErrorClasses == {"Validation", "Contract", "Policy", "Adapter", "Other"}
Raise(c, m) == [class |-> c, message |-> m]
NoError == Raise("none", Opaque)

(* _reason_id_from_error: the message if it names a ReasonID, else the     *)
(* default of the except clause.                                           *)
ReasonFromError(err, default) ==
    IF err.message \in ReasonIds THEN err.message ELSE default

(* One try block: "defaults" maps the error classes it catches to the      *)
(* default reason of their clause; except Exception yields INTERNAL_ERROR. *)
ReasonOf(err, defaults) ==
    IF err.class \in DOMAIN defaults
    THEN ReasonFromError(err, defaults[err.class])
    ELSE "INTERNAL_ERROR"

-----------------------------------------------------------------------------
(* Hashing: SHA-256 over canonical JSON bytes, collisions left out.        *)

Sha256(value) == <<"sha256", value>>
EmptyHash     == <<"empty">>        \* ""
MalformedHash == <<"not a hash">>   \* text that is not 64 lowercase hex digits

-----------------------------------------------------------------------------
(* Forms of an artifact an adapter or a caller hands over.                 *)
(*   wellformed    passes its validator and the exact-JSON preflight       *)
(*   boundary      the same, but exceeds the depth, node or byte budget of *)
(*                 the preflight once the call's artifacts are put         *)
(*                 together in one more dict                               *)
(*   inexact       passes its validator, is no bounded exact-built-in tree *)
(*                 or, for a pack, has an identity that is too long        *)
(*   unencodable   passes its validator, has no UTF-8 encoding             *)
(*   misversioned  another contract_version                                *)
(*   incomplete    a required field is absent or None                      *)
(*   misshapen     an unknown field, unusable text, or a bad payload       *)
(*   not_dict      no dict at all                                          *)
(*   badly_decided a required choice is outside its domain: "accepted" of  *)
(*                 an output, "default_decision" of a policy pack          *)

ValidForms    == {"wellformed", "boundary", "inexact", "unencodable"}
EncodableForms == {"wellformed", "boundary", "inexact"}
ExactForms    == {"wellformed", "boundary", "misversioned", "incomplete",
                  "misshapen", "not_dict", "badly_decided"}
EnvelopeForms == ValidForms \cup {"misversioned", "incomplete", "misshapen", "not_dict"}
ChoiceForms   == EnvelopeForms \cup {"badly_decided"}   \* outputs, policy packs

(* The failure of a validator on a value of this form.                     *)
Fault(form, misversioned, badly_decided) ==
    CASE form \in ValidForms     -> NoError
      [] form = "misversioned"   -> Raise("Contract", misversioned)
      [] form = "badly_decided"  -> Raise("Contract", badly_decided)
      [] form = "incomplete"     -> Raise("Validation", "MISSING_REQUIRED_FIELD")
      [] OTHER                   -> Raise("Validation", "SCHEMA_VIOLATION")

EnvelopeFault(e)   == Fault(e.form, "INVALID_ENVELOPE", "INVALID_ENVELOPE")
OutputFault(o)     == Fault(o.form, "INVALID_OUTPUT", "INVALID_OUTPUT")
PolicyPackFault(p) == Fault(p.form, "SCHEMA_VIOLATION", "POLICY_DENIED")

(* _snapshot_exact_json_artifact refuses before the validator is asked.    *)
Snapshotted(x, fault) ==
    IF x.form \in ExactForms THEN fault ELSE Raise("Validation", "SCHEMA_VIOLATION")

(* A subscript of an artifact that is no dict, or lacks the key (NoLabel   *)
(* in an incomplete artifact), raises TypeError or KeyError.               *)
Subscripts(x, value) ==
    x.form # "not_dict" /\ (x.form = "incomplete" => value # NoLabel)

-----------------------------------------------------------------------------
(* Policy.  A pack is [form, id, rules]: rules maps an adapter id to the   *)
(* sets [tasks, models, actions] it may use.  default_decision is checked  *)
(* by the validator and never consulted by the evaluation.                 *)

PolicyReason(pack, name, e) ==
    IF name \notin DOMAIN pack.rules THEN "POLICY_DENIED"
    ELSE IF e.task_type \notin pack.rules[name].tasks THEN "UNSUPPORTED_TASK"
    ELSE IF e.model_family \notin pack.rules[name].models THEN "UNSUPPORTED_MODEL"
    ELSE IF e.action # NoAction /\ e.action \notin pack.rules[name].actions
    THEN "POLICY_DENIED"
    ELSE Accepted

(* enforce_policy_for_adapter: validate the pack, then evaluate it.        *)
PolicyFault(pack, name, e) ==
    IF PolicyPackFault(pack) # NoError THEN PolicyPackFault(pack)
    ELSE IF PolicyReason(pack, name, e) # Accepted
    THEN Raise("Policy", PolicyReason(pack, name, e))
    ELSE NoError

-----------------------------------------------------------------------------
(* Derived artifacts.                                                      *)

Decision(o) == IF o.accepted THEN "accepted" ELSE "rejected"

DeterminismProfile == "canonical_sha256_no_time_v1"

ReceiptFor(manifest, e, o) ==
    [adapter_id |-> manifest.adapter_id, envelope_hash |-> Sha256(e),
     output_hash |-> Sha256(o), policy_decision |-> Decision(o),
     reason_id |-> o.reason_id, determinism_profile |-> DeterminismProfile]

HandoffFor(e, o) ==
    [adapter |-> o.adapter, task_type |-> o.task_type,
     policy_decision |-> Decision(o), reason_id |-> o.reason_id,
     envelope_hash |-> Sha256(e), output_hash |-> Sha256(o),
     context_hash |-> o.context_hash]

(* What build_receipt_v1 and build_handoff_v1 refuse, by raising: an       *)
(* artifact its validator refuses, or one that cannot be encoded to hash.  *)
Hashable(x) == x.form \in EncodableForms
ReceiptBuilds(e, o) == Hashable(e) /\ Hashable(o)
HandoffBuilds(e, o, receipt) ==
    /\ Hashable(e) /\ Hashable(o)
    /\ receipt.envelope_hash = Sha256(e)
    /\ receipt.output_hash = Sha256(o)
    /\ receipt.policy_decision = Decision(o)

(* validate_handoff_v1 on a handoff made by build_handoff_v1, which does   *)
(* not run it: only the context hash can be wrong.                         *)
HandoffValid(handoff) == handoff.context_hash # MalformedHash

(* _validate_reason_semantics *)
ReasonSemantics(decision, reason) ==
    IF decision = "accepted" THEN reason = Accepted ELSE reason \in ReasonIds

(* The artifacts _build_policy_binding_v1 agrees to bind.                  *)
BindingBuilds(e, o, receipt, handoff) ==
    /\ {e.form, o.form} \subseteq {"wellformed"}
    /\ HandoffValid(handoff)
    /\ ReasonSemantics(Decision(o), o.reason_id)
    /\ e.adapter = o.adapter /\ e.task_type = o.task_type
    /\ receipt.adapter_id = o.adapter
    /\ handoff.adapter = o.adapter /\ handoff.task_type = o.task_type
    /\ {receipt.envelope_hash, handoff.envelope_hash} = {Sha256(e)}
    /\ {receipt.output_hash, handoff.output_hash} = {Sha256(o)}
    /\ {receipt.policy_decision, handoff.policy_decision} = {Decision(o)}
    /\ {receipt.reason_id, handoff.reason_id} = {o.reason_id}
    /\ handoff.context_hash = o.context_hash
    /\ o.context_hash = Sha256(e)
    /\ receipt.determinism_profile = DeterminismProfile

BindingFor(snapshot, receipt, handoff) ==
    [policy_pack_id |-> snapshot.id, policy_pack_hash |-> Sha256(snapshot),
     receipt_hash |-> Sha256(receipt), handoff_hash |-> Sha256(handoff)]
=============================================================================
