--------------------------- MODULE EvidenceExport ---------------------------
(***************************************************************************)
(* The four evidence exporters of integration/adamantine.py, and the       *)
(* caller between the gateway and them.  The caller keeps the results of   *)
(* several calls, and what it hands an exporter need not be one of them:   *)
(* it may put parts of two results together, or hold a part that differs   *)
(* from the one it was given.                                              *)
(*                                                                         *)
(* The policy-bound calls are those of AtomicBinding, which BoundGateway   *)
(* implements; the V1 results are as GovernedV1 returns them.              *)
(***************************************************************************)
EXTENDS GatewayArtifacts

CONSTANTS
    Requests, Envelopes, Outputs,  \* as in AtomicBinding
    Refusals,    \* the refusals a caller keeps
    Slots,       \* where the caller keeps results; bounds the number of calls
    Edits,       \* how a part may differ from what was returned: [part, field, value]
    Absent,      \* a key that is not in the dict (None is the value null)
    Budget,      \* what one snapshot may weigh, in nodes or in bytes
    Weight(_)    \* what an artifact adds to a snapshot

VARIABLES
    request, answer,  \* the policy-bound gateway
    held,       \* what the caller keeps: a result per slot, or None
    bundle,     \* what it handed the last exporter: a result, put together
    export      \* what that exporter returned or refused; None before

caller == <<held, bundle, export>>
vars   == <<request, answer, caller>>

Gateway == INSTANCE AtomicBinding

Parts == {"output", "receipt", "handoff", "policy_binding"}

(* What a policy-bound call may give evidence of, besides Outputs.         *)
Denials(e) == {Gateway!Denial(e, reason) : reason \in ReasonIds}

(* Text in a valid artifact is usable; every artifact weighs something and *)
(* is told from a missing one.                                             *)
ASSUME EvidenceExportAssumption ==
    /\ None # Absent
    /\ None \notin Requests \cup Edits
    /\ \A edit \in Edits : edit.part \in Parts
    /\ Budget \in Nat
    /\ \A r \in Requests : r.pack.form \in ValidForms \cap ExactForms => r.pack.id \in Labels
    /\ \A e \in Envelopes :
          /\ e.form = "wellformed" /\ {e.adapter, e.task_type} \subseteq Labels
          /\ Weight(e) \in Nat
    /\ \A o \in Outputs : o.form \in EncodableForms
    /\ \A r \in Requests, e \in Envelopes : \A o \in Outputs \cup Denials(e) :
          LET evidence == Gateway!Evidence(r.pack, o.adapter, e, o)
          IN \A part \in Parts :
                evidence[part] \notin {None, Absent} /\ Weight(evidence[part]) \in Nat

Init ==
    /\ Gateway!Init
    /\ held = [s \in Slots |-> None]
    /\ bundle = None /\ export = None

-----------------------------------------------------------------------------
(* The calls.                                                              *)

(* _snapshot_exact_json_artifact of a dict of artifacts: the dict itself   *)
(* adds to what they weigh.                                                *)
Fits(weight) == weight + 1 <= Budget

(* A binding is built only if its own snapshot fits.                       *)
Envelope(result) == result.receipt.envelope_hash[2]
BindingFits(result) ==
    Fits(Weight(Envelope(result)) + Weight(result.output)
           + Weight(result.receipt) + Weight(result.handoff))

(* The caller waits for the gateway and for the exporters; it calls while  *)
(* it has room for the answer.                                             *)
Ask ==
    /\ export = None
    /\ \E s \in Slots : held[s] = None
    /\ Gateway!Ask
    /\ UNCHANGED caller

(* The answer goes to a vacant slot.  A refusal is kept if it is one of    *)
(* Refusals.                                                               *)
BoundCallReturns(s) ==
    /\ held[s] = None
    /\ \/ Gateway!Refuse /\ answer'.output \in Refusals
       \/ /\ \/ \E e \in Envelopes : Gateway!Deny(e)
             \/ \E e \in Envelopes, o \in Outputs : Gateway!Decide(e, o)
          /\ BindingFits(answer')
    /\ held' = [held EXCEPT ![s] = answer']
    /\ UNCHANGED <<bundle, export>>

(* Mutant of the next definition: a receipt on failure, but no handoff.    *)
ReceiptInAnyCase(e, o, proved) ==
    [output |-> o,
     receipt |-> ReceiptFor([adapter_id |-> o.adapter], e, o),
     handoff |-> IF proved THEN HandoffFor(e, o) ELSE None,
     policy_binding |-> Absent]

(* process_governed: evidence of the output, or a refusal with neither     *)
(* receipt nor handoff; there is no policy_binding key.                    *)
V1Result(e, o, proved) ==
    [output |-> o,
     receipt |-> IF proved THEN ReceiptFor([adapter_id |-> o.adapter], e, o) ELSE None,
     handoff |-> IF proved THEN HandoffFor(e, o) ELSE None,
     policy_binding |-> Absent]

V1CallReturns(s, e, o, proved) ==
    /\ request = None /\ export = None
    /\ held[s] = None
    /\ IF proved THEN o \in Outputs /\ Hashable(o) ELSE o \in Refusals
    /\ held' = [held EXCEPT ![s] = V1Result(e, o, proved)]
    /\ UNCHANGED <<request, answer, bundle, export>>

(* The output of a V1 result is the adapter's own object, unless it is a   *)
(* refusal: a later call may rewrite it.  That of a bound result is a      *)
(* snapshot.                                                               *)
RewriteReturnedOutput(s, o) ==
    /\ export = None
    /\ held[s] # None
    /\ held[s].policy_binding = Absent /\ held[s].receipt # None
    /\ held' = [held EXCEPT ![s].output = o]
    /\ UNCHANGED <<request, answer, bundle, export>>

-----------------------------------------------------------------------------
(* What the validators say of the parts.  They refuse unknown fields and   *)
(* let only text through, so that _contains_forbidden_authority_field,     *)
(* which is asked after them, has nothing left to find.                    *)

IsHash(h) == h \notin {EmptyHash, MalformedHash}

TextFault(values) ==
    IF NoLabel \in values THEN "MISSING_REQUIRED_FIELD"
    ELSE IF BlankLabel \in values THEN "SCHEMA_VIOLATION"
    ELSE "none"

(* _validate_hash_hex *)
HashFault(h) ==
    IF IsHash(h) THEN "none"
    ELSE IF h = EmptyHash THEN "SCHEMA_VIOLATION" ELSE "INVALID_OUTPUT"

(* What validate_handoff_v1 and validate_receipt_v1 have in common.        *)
ChainFault(x, values) ==
    IF TextFault(values) # "none" THEN TextFault(values)
    ELSE IF x.policy_decision \notin {"accepted", "rejected"} THEN "INVALID_OUTPUT"
    ELSE IF ~ IsHash(x.envelope_hash) THEN HashFault(x.envelope_hash)
    ELSE HashFault(x.output_hash)

(* validate_handoff_v1; the context hash may be empty.                     *)
HandoffFault(h) ==
    LET fault == ChainFault(h, {h.adapter, h.task_type, h.reason_id})
    IN IF fault = "none" /\ ~ HandoffValid(h) THEN "INVALID_OUTPUT" ELSE fault

(* validate_receipt_v1 *)
ReceiptFault(r) == ChainFault(r, {r.adapter_id, r.reason_id, r.determinism_profile})

(* validate_policy_binding_v1: every field is non-empty text first.        *)
BindingFault(b) ==
    LET hashes == {b.policy_pack_hash, b.receipt_hash, b.handoff_hash}
    IN IF TextFault({b.policy_pack_id}) # "none" THEN TextFault({b.policy_pack_id})
       ELSE IF EmptyHash \in hashes THEN "SCHEMA_VIOLATION"
       ELSE IF MalformedHash \in hashes THEN "INVALID_OUTPUT"
       ELSE "none"

-----------------------------------------------------------------------------
(* The checks the exporters share.                                         *)

(* Mutant of the next definition: the outputs are not compared.            *)
SameEnvelope(h, r) ==
    /\ r.adapter_id = h.adapter /\ r.envelope_hash = h.envelope_hash
    /\ r.policy_decision = h.policy_decision /\ r.reason_id = h.reason_id

(* _receipt_matches_handoff *)
ReceiptMatchesHandoff(h, r) ==
    /\ r.adapter_id = h.adapter
    /\ r.envelope_hash = h.envelope_hash /\ r.output_hash = h.output_hash
    /\ r.policy_decision = h.policy_decision /\ r.reason_id = h.reason_id

(* Mutant of the next definition: the output itself is not hashed.         *)
SameFields(o, h, r) ==
    /\ {h.adapter, r.adapter_id} = {o.adapter}
    /\ h.task_type = o.task_type /\ h.context_hash = o.context_hash
    /\ {h.policy_decision, r.policy_decision} = {Decision(o)}
    /\ {h.reason_id, r.reason_id} = {o.reason_id}

(* _output_matches_evidence *)
OutputMatchesEvidence(o, h, r) ==
    /\ {h.adapter, r.adapter_id} = {o.adapter}
    /\ h.task_type = o.task_type /\ h.context_hash = o.context_hash
    /\ {h.policy_decision, r.policy_decision} = {Decision(o)}
    /\ {h.reason_id, r.reason_id} = {o.reason_id}
    /\ {h.output_hash, r.output_hash} = {Sha256(o)}
    /\ ReasonSemantics(Decision(o), o.reason_id)

-----------------------------------------------------------------------------
(* What each exporter refuses, in the order in which it asks; b is what it *)
(* was handed.                                                             *)

Missing(part) == part \in {None, Absent}
WeightOf(part) == IF Missing(part) THEN 0 ELSE Weight(part)

(* build_adamantine_ai_gateway_evidence_v1 *)
V1Fault(b, expected) ==
    IF ~ IsHash(expected) THEN "INVALID_CONTEXT_HASH"
    ELSE IF Missing(b.handoff) THEN "SCHEMA_VIOLATION"
    ELSE IF HandoffFault(b.handoff) # "none" THEN HandoffFault(b.handoff)
    ELSE IF Missing(b.receipt) THEN "SCHEMA_VIOLATION"
    ELSE IF ReceiptFault(b.receipt) # "none" THEN ReceiptFault(b.receipt)
    ELSE IF b.handoff.context_hash # expected THEN "CONTEXT_HASH_MISMATCH"
    ELSE IF ~ ReceiptMatchesHandoff(b.handoff, b.receipt) THEN "RECEIPT_MISMATCH"
    ELSE "none"

(* Mutant of the next definition: the budget is exclusive.                 *)
ResultFitsBelow(b) ==
    /\ Missing(b.output) \/ b.output.form \in ExactForms
    /\ Fits(WeightOf(b.output) + WeightOf(b.receipt) + WeightOf(b.handoff)
              + WeightOf(b.policy_binding) + 1)

(* The snapshot of a whole result.                                         *)
ResultFits(b) ==
    /\ Missing(b.output) \/ b.output.form \in ExactForms
    /\ Fits(WeightOf(b.output) + WeightOf(b.receipt) + WeightOf(b.handoff)
              + WeightOf(b.policy_binding))

(* build_adamantine_ai_gateway_evidence_from_gateway_result_v1: the output *)
(* is not looked at.                                                       *)
ResultV1Fault(b, expected) ==
    IF ~ ResultFits(b) THEN "SCHEMA_VIOLATION"
    ELSE IF b.policy_binding # Absent THEN "POLICY_BOUND_RESULT_REQUIRES_EVIDENCE_V2"
    ELSE IF Missing(b.handoff) THEN "MISSING_HANDOFF"
    ELSE IF Missing(b.receipt) THEN "MISSING_RECEIPT"
    ELSE V1Fault(b, expected)

(* Mutant of the next definition: the handoff is not hashed.               *)
BoundReceiptFault(b, expected) ==
    IF V1Fault(b, expected) # "none" THEN V1Fault(b, expected)
    ELSE IF Missing(b.policy_binding) THEN "MISSING_POLICY_BINDING"
    ELSE IF b.policy_binding.receipt_hash # Sha256(b.receipt)
    THEN "POLICY_BINDING_RECEIPT_HASH_MISMATCH"
    ELSE "none"

(* build_adamantine_ai_gateway_evidence_v2 *)
V2Fault(b, expected) ==
    IF ~ IsHash(expected) THEN "INVALID_CONTEXT_HASH"
    ELSE IF Missing(b.handoff) THEN "MISSING_HANDOFF"
    ELSE IF Missing(b.receipt) THEN "MISSING_RECEIPT"
    ELSE IF Missing(b.policy_binding) THEN "MISSING_POLICY_BINDING"
    ELSE IF ~ Fits(Weight(b.handoff) + Weight(b.receipt) + Weight(b.policy_binding))
    THEN "SCHEMA_VIOLATION"
    ELSE IF HandoffFault(b.handoff) # "none" THEN HandoffFault(b.handoff)
    ELSE IF ReceiptFault(b.receipt) # "none" THEN ReceiptFault(b.receipt)
    ELSE IF BindingFault(b.policy_binding) # "none" THEN BindingFault(b.policy_binding)
    ELSE IF b.handoff.context_hash # expected THEN "CONTEXT_HASH_MISMATCH"
    ELSE IF b.handoff.context_hash # b.handoff.envelope_hash
    THEN "CONTEXT_ENVELOPE_HASH_MISMATCH"
    ELSE IF ~ ReceiptMatchesHandoff(b.handoff, b.receipt) THEN "RECEIPT_MISMATCH"
    ELSE IF ~ ReasonSemantics(b.handoff.policy_decision, b.handoff.reason_id)
    THEN "EVIDENCE_SEMANTICS_MISMATCH"
    ELSE IF b.receipt.determinism_profile # DeterminismProfile
    THEN "UNSUPPORTED_DETERMINISM_PROFILE"
    ELSE IF b.policy_binding.receipt_hash # Sha256(b.receipt)
    THEN "POLICY_BINDING_RECEIPT_HASH_MISMATCH"
    ELSE IF b.policy_binding.handoff_hash # Sha256(b.handoff)
    THEN "POLICY_BINDING_HANDOFF_HASH_MISMATCH"
    ELSE "none"

(* build_adamantine_ai_gateway_evidence_from_gateway_result_v2 *)
ResultV2Fault(b, expected) ==
    IF ~ ResultFits(b) THEN "SCHEMA_VIOLATION"
    ELSE IF Absent \in {b.output, b.receipt, b.handoff, b.policy_binding}
    THEN "GATEWAY_RESULT_SCHEMA_INVALID"
    ELSE IF b.handoff = None THEN "MISSING_HANDOFF"
    ELSE IF b.receipt = None THEN "MISSING_RECEIPT"
    ELSE IF b.policy_binding = None THEN "MISSING_POLICY_BINDING"
    ELSE IF OutputFault(b.output) # NoError THEN OutputFault(b.output).message
    ELSE IF HandoffFault(b.handoff) # "none" THEN HandoffFault(b.handoff)
    ELSE IF ReceiptFault(b.receipt) # "none" THEN ReceiptFault(b.receipt)
    ELSE IF ~ OutputMatchesEvidence(b.output, b.handoff, b.receipt)
    THEN "OUTPUT_EVIDENCE_MISMATCH"
    ELSE V2Fault(b, expected)

-----------------------------------------------------------------------------
(* Handing something to an exporter.                                       *)

Exporters == {"v1", "result_v1", "v2", "result_v2"}

Takes(exporter) ==
    CASE exporter = "v1" -> {"receipt", "handoff"}
      [] exporter = "v2" -> {"receipt", "handoff", "policy_binding"}
      [] OTHER           -> Parts

(* A result of those parts alone, each from the slot "from" names.         *)
PutTogether(parts, from) ==
    [part \in Parts |-> IF part \in parts THEN held[from[part]][part] ELSE Absent]

FaultOf(exporter, b, expected) ==
    CASE exporter = "v1"        -> V1Fault(b, expected)
      [] exporter = "result_v1" -> ResultV1Fault(b, expected)
      [] exporter = "v2"        -> V2Fault(b, expected)
      [] exporter = "result_v2" -> ResultV2Fault(b, expected)

Export(exporter, b, expected) ==
    /\ request = None /\ export = None
    /\ bundle' = b
    /\ export' = [by |-> exporter, expected |-> expected,
                  fault |-> FaultOf(exporter, b, expected)]
    /\ UNCHANGED <<request, answer, held>>

(* Unaltered parts, of one result or of several.                           *)
ExportParts(exporter, from, expected) ==
    /\ \A part \in Takes(exporter) : held[from[part]] # None
    /\ Export(exporter, PutTogether(Takes(exporter), from), expected)

(* The parts of one result, one of them altered.                           *)
ExportAltered(exporter, s, edit, expected) ==
    /\ held[s] # None
    /\ edit.part \in Takes(exporter) /\ ~ Missing(held[s][edit.part])
    /\ edit.field \in DOMAIN held[s][edit.part]
    /\ Export(exporter,
              [PutTogether(Takes(exporter), [part \in Parts |-> s])
                  EXCEPT ![edit.part][edit.field] = edit.value],
              expected)

(* The caller is done with what it got.                                    *)
Discard ==
    /\ export # None
    /\ bundle' = None /\ export' = None
    /\ UNCHANGED <<request, answer, held>>

-----------------------------------------------------------------------------
Contexts == {Sha256(e) : e \in Envelopes} \cup {EmptyHash}

Next ==
    \/ Ask
    \/ \E s \in Slots : BoundCallReturns(s)
    \/ \E s \in Slots, e \in Envelopes, o \in Outputs \cup Refusals, proved \in BOOLEAN :
          V1CallReturns(s, e, o, proved)
    \/ \E s \in Slots, o \in Outputs : RewriteReturnedOutput(s, o)
    \/ \E exporter \in Exporters, expected \in Contexts :
          \/ \E from \in [Takes(exporter) -> Slots] : ExportParts(exporter, from, expected)
          \/ \E s \in Slots, edit \in Edits : ExportAltered(exporter, s, edit, expected)
    \/ Discard

Spec == Init /\ [][Next]_vars

-----------------------------------------------------------------------------
(* Properties.                                                             *)

Kept == {held[s] : s \in Slots} \ {None}
Exported(exporters) == export # None /\ export.by \in exporters /\ export.fault = "none"

(* The evidence of output o for envelope e, whose output the binding, if   *)
(* there is one, stands beside.                                            *)
EvidenceOf(r, e, o) ==
    /\ r.receipt = ReceiptFor([adapter_id |-> o.adapter], e, o)
    /\ r.handoff = HandoffFor(e, o)
    /\ r.policy_binding # Absent =>
          /\ r.output = o
          /\ r.policy_binding.receipt_hash = Sha256(r.receipt)
          /\ r.policy_binding.handoff_hash = Sha256(r.handoff)

(* What the caller keeps is evidence or the lack of it, never a part, for  *)
(* as long as it is kept (gateway.py:132-177, 253-282).                    *)
TypeOK ==
    /\ request \in Requests \cup {None}
    /\ request # None => export = None
    /\ DOMAIN held = Slots
    /\ \A r \in Kept :
          \/ /\ r.receipt = None /\ r.handoff = None
             /\ r.policy_binding \in {None, Absent}
          \/ \E e \in Envelopes :
                \E o \in Outputs \cup {Gateway!Denial(e, r.receipt.reason_id)} :
                   EvidenceOf(r, e, o)

(* Policy-bound evidence is the receipt and the handoff of one call, under *)
(* the context that call evaluated, with a binding that names them: no     *)
(* splice of two results gets through, and no altered part but the policy  *)
(* identity in the binding, which only a consumer that knows the policy    *)
(* can check (adamantine.py:200-220; ADAMANTINE_AI_GATEWAY_EVIDENCE_V2.md  *)
(* :98-102).                                                               *)
WholeEvidence ==
    Exported({"v2", "result_v2"}) =>
        \E r \in Kept :
            /\ <<r.receipt, r.handoff>> = <<bundle.receipt, bundle.handoff>>
            /\ export.expected = r.receipt.envelope_hash
            /\ r.policy_binding \notin {None, Absent}
            /\ r.policy_binding.receipt_hash = bundle.policy_binding.receipt_hash
            /\ r.policy_binding.handoff_hash = bundle.policy_binding.handoff_hash
            /\ (\E k \in Kept : k.policy_binding = bundle.policy_binding)
                  => r.policy_binding = bundle.policy_binding

(* The output beside policy-bound evidence is the one that call returned,  *)
(* although it is not exported itself (adamantine.py:77-95, 259-267).      *)
OutputBelongsToEvidence ==
    Exported({"result_v2"}) =>
        \E r \in Kept : <<r.output, r.receipt>> = <<bundle.output, bundle.receipt>>

(* V1 evidence hashes nothing of its own, so an altered handoff may pass;  *)
(* but unaltered parts of two calls do not, and what an adapter makes of a *)
(* returned output changes nothing (adamantine.py:55-62, 111-126).         *)
V1PartsBelongTogether ==
    /\ Exported({"v1", "result_v1"})
    /\ \E r \in Kept : r.receipt = bundle.receipt
    /\ \E r \in Kept : r.handoff = bundle.handoff
    => \E r \in Kept : <<r.receipt, r.handoff>> = <<bundle.receipt, bundle.handoff>>

(* A bound result that is handed over as it was returned is exported,      *)
(* rejections included.  The one exception: the binding weighs more than   *)
(* the envelope it replaces in the snapshot, and the result was within     *)
(* that difference of the budget (policy_binding.py:242, adamantine.py:242). *)
BoundResultExports ==
    /\ export # None /\ export.by = "result_v2" /\ bundle \in Kept
    /\ ~ Missing(bundle.policy_binding)
    /\ export.expected = bundle.receipt.envelope_hash
    => \/ export.fault = "none"
       \/ /\ export.fault = "SCHEMA_VIOLATION"
          /\ Weight(Envelope(bundle)) < Weight(bundle.policy_binding)
=============================================================================
