--------------------------- MODULE MCBoundGateway ---------------------------
(***************************************************************************)
(* A small instance of BoundGateway: three registry names, packs that      *)
(* allow, deny and are malformed, envelopes and outputs of every form.     *)
(***************************************************************************)
EXTENDS BoundGateway

MCLabels == {"unknown", "wallet", "wallet_operation", "fail_closed_v1", "wallet-v1",
             "poi", "review", "deploy"}
MCNames == {"poi", "wallet", BlankLabel}
MCManifests ==
    {[adapter_id |-> "poi", supported_actions |-> {"run"}, form |-> "wellformed"],
     [adapter_id |-> "poi", supported_actions |-> {"run"}, form |-> "inexact"]}

Rule(tasks, actions) ==
    [tasks |-> tasks, models |-> {"wallet-v1"}, actions |-> actions]
Pack(form, id, rules) == [form |-> form, id |-> id, rules |-> rules]

(* One pack allows "review", one allows only "deploy", one knows no "poi". *)
MCAllow == Pack("wellformed", "allow", [n \in {"poi"} |-> Rule({"review"}, {"run"})])
MCDeny  == Pack("boundary", "deny", [n \in {"poi"} |-> Rule({"deploy"}, {"run"})])
MCPolicyPacks ==
    {MCAllow, MCDeny,
     Pack("wellformed", "other", [n \in {"wallet"} |-> Rule({"review"}, {"run"})]),
     Pack("badly_decided", "allow", MCAllow.rules)}
MCSourceTasks == {"review", BlankLabel, NoLabel}

EnvelopeOf(form, task, action) ==
    [form |-> form, adapter |-> "poi", task_type |-> task,
     model_family |-> "wallet-v1", action |-> action]
MCRawEnvelopes ==
    {EnvelopeOf("wellformed", "review", "run"), EnvelopeOf("wellformed", "deploy", "run"),
     EnvelopeOf("boundary", "review", "run"), EnvelopeOf("incomplete", NoLabel, "run"),
     EnvelopeOf("misversioned", "review", "run"), EnvelopeOf("unencodable", "review", "run"),
     EnvelopeOf("wellformed", "review", NoAction),
     [EnvelopeOf("wellformed", "review", "run") EXCEPT !.adapter = "wallet"],
     [EnvelopeOf("wellformed", "review", "run") EXCEPT !.model_family = "poi"]}

OutputOf(form, task, accepted, reason, context) ==
    [form |-> form, adapter |-> "poi", task_type |-> task, accepted |-> accepted,
     reason_id |-> reason, context_hash |-> context]
MCContexts ==
    {Sha256(EnvelopeOf("wellformed", t, "run")) : t \in {"review", "deploy"}}
      \cup {EmptyHash, MalformedHash}
MCRawOutputs ==
    {OutputOf("wellformed", t, a, r, c) :
        t \in {"review", "deploy"}, a \in BOOLEAN,
        r \in {Accepted, "UNSUPPORTED_TASK", Opaque}, c \in MCContexts}
      \cup {OutputOf(f, "review", TRUE, Accepted,
                     Sha256(EnvelopeOf("wellformed", "review", "run"))) :
               f \in {"boundary", "inexact", "incomplete", "badly_decided"}}

MCCallbackErrors ==
    {Raise(c, m) : c \in ErrorClasses, m \in {Accepted, "POLICY_DENIED", Opaque}}
=============================================================================
