---------------------------- MODULE MCGovernedV1 ----------------------------
(***************************************************************************)
(* A small instance of GovernedV1: the wallet's name and a blank one,      *)
(* packs that allow, deny and are malformed, artifacts of every form.      *)
(***************************************************************************)
EXTENDS GovernedV1

MCLabels == {"unknown", "wallet", "wallet_operation", "fail_closed_v1", "wallet-v1",
             "poi", "review"}
MCNames == {"wallet", BlankLabel}
MCManifests == {[adapter_id |-> "wallet", supported_actions |-> {"run"}]}

Pack(form, rules) == [form |-> form, id |-> "pack", rules |-> rules]
Rule(actions) ==
    [tasks |-> {"review"}, models |-> {"wallet-v1"}, actions |-> actions]
MCPolicyPacks ==
    {Pack("inexact", [n \in {"wallet"} |-> Rule({"run"})]),
     Pack("wellformed", [n \in {"poi"} |-> Rule({"run"})]),
     Pack("badly_decided", [n \in {"wallet"} |-> Rule({"run"})])}
MCSources ==
    {None, [task |-> "review", model |-> NoLabel], [task |-> BlankLabel, model |-> "review"],
     [task |-> NoLabel, model |-> SurrogateLabel]}

EnvelopeOf(form, adapter, task, action) ==
    [form |-> form, adapter |-> adapter, task_type |-> task,
     model_family |-> "wallet-v1", action |-> action]
MCRawEnvelopes ==
    {EnvelopeOf("wellformed", "wallet", "review", "run"),
     EnvelopeOf("wellformed", "wallet", "wallet", NoAction),
     EnvelopeOf("wellformed", "wallet", "review", "deploy"),
     EnvelopeOf("incomplete", "wallet", NoLabel, "run"),
     EnvelopeOf("misshapen", "wallet", "review", NoAction),
     EnvelopeOf("unencodable", "wallet", "review", "run"),
     EnvelopeOf("wellformed", "poi", "review", "run"),
     EnvelopeOf("not_dict", NoLabel, NoLabel, NoAction)}

OutputOf(form, adapter, accepted, context) ==
    [form |-> form, adapter |-> adapter, task_type |-> "review", accepted |-> accepted,
     reason_id |-> IF accepted THEN Accepted ELSE Opaque, context_hash |-> context]
MCRawOutputs ==
    {OutputOf("wellformed", "wallet", TRUE, EmptyHash),
     OutputOf("wellformed", "wallet", TRUE, MalformedHash),
     OutputOf("wellformed", "wallet", FALSE, EmptyHash),
     OutputOf("wellformed", "poi", TRUE, EmptyHash),
     OutputOf("misversioned", "wallet", TRUE, EmptyHash),
     OutputOf("badly_decided", "wallet", TRUE, EmptyHash),
     OutputOf("unencodable", "wallet", TRUE, EmptyHash),
     OutputOf("not_dict", NoLabel, TRUE, EmptyHash)}

MCCallbackErrors ==
    {Raise("Contract", Accepted), Raise("Adapter", "INTERNAL_ERROR"), Raise("Other", Opaque)}
=============================================================================
