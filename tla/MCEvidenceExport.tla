-------------------------- MODULE MCEvidenceExport --------------------------
(***************************************************************************)
(* A small instance of EvidenceExport: a caller with two results, of two   *)
(* packs, three envelopes and outputs that differ in what nothing but a    *)
(* hash tells apart; edits of every part.                                  *)
(***************************************************************************)
EXTENDS EvidenceExport, TLC

MCLabels == {"unknown", "wallet", "wallet_operation", "fail_closed_v1", "wallet-v1",
             "poi", "review"}

Pack(id, tasks) ==
    [form |-> "wellformed", id |-> id,
     rules |-> [n \in {"poi"} |->
                   [tasks |-> tasks, models |-> {"wallet-v1"}, actions |-> {"run"}]]]
MCRequests == [name : {"poi"}, pack : {Pack("unknown", {"review"}), Pack("wallet", {})}]

(* "payload" stands for what is hashed and never compared by itself.       *)
EnvelopeOf(payload) ==
    [form |-> "wellformed", adapter |-> "poi", task_type |-> "review",
     model_family |-> "wallet-v1", action |-> "run", payload |-> payload]
MCEnvelopes == {EnvelopeOf("slight"), EnvelopeOf("ample")}

OutputOf(form, payload, accepted, context) ==
    [form |-> form, adapter |-> "poi", task_type |-> "review", accepted |-> accepted,
     reason_id |-> IF accepted THEN Accepted ELSE "UNSUPPORTED_TASK",
     context_hash |-> context, payload |-> payload]
MCOutputs ==
    {OutputOf("wellformed", "slight", TRUE, Sha256(EnvelopeOf("slight"))),
     OutputOf("wellformed", "bulky", TRUE, Sha256(EnvelopeOf("slight"))),
     OutputOf("wellformed", "bulky", FALSE, Sha256(EnvelopeOf("ample"))),
     OutputOf("inexact", "slight", TRUE, EmptyHash)}
MCRefusals == {Gateway!Refusal("poi", "unknown", "INTERNAL_ERROR")}

Edit(part, field, value) == [part |-> part, field |-> field, value |-> value]
MCEdits ==
    {Edit("output", "payload", "ample"), Edit("output", "form", "misshapen"),
     Edit("handoff", "task_type", "wallet"), Edit("handoff", "adapter", NoLabel),
     Edit("handoff", "context_hash", MalformedHash),
     Edit("receipt", "determinism_profile", BlankLabel),
     Edit("receipt", "determinism_profile", "poi"),
     Edit("receipt", "output_hash", EmptyHash),
     Edit("policy_binding", "policy_pack_hash", MalformedHash),
     Edit("policy_binding", "policy_pack_hash", Sha256(None)),
     Edit("policy_binding", "policy_pack_id", NoLabel)}

(* A receipt, a handoff and a binding weigh 2 each.                        *)
MCWeight(x) ==
    IF "payload" \notin DOMAIN x THEN 2
    ELSE CASE x.payload = "slight" -> 1
           [] x.payload = "ample"  -> 2
           [] x.payload = "bulky"  -> 3
MCBudget == 9

Symmetry == Permutations(Slots)
=============================================================================
