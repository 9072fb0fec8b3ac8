------------------------- MODULE MCBuiltinAdapters -------------------------
(***************************************************************************)
(* A small instance of BuiltinAdapters: sources that are right, and wrong  *)
(* in each way and in some two ways at once; packs that allow everything   *)
(* the adapters do, deny each part of it, or are no usable pack.           *)
(***************************************************************************)
EXTENDS BuiltinAdapters

MCLabels ==
    {"unknown", "wallet", "wallet_operation", "fail_closed_v1", "wallet-v1", "poi",
     "code_review", "documentation", "essay", "poi-v1", "gpt"}
MCActions ==
    {"evaluate_candidate", "build_transaction", "sign_transaction_request", "deploy",
     BlankAction}

Source(fields, task, model, action, payload) ==
    [fields |-> fields, task |-> task, model |-> model, action |-> action,
     payload |-> payload]

Tasks  == {"code_review", "documentation", "essay", BlankLabel, NoLabel}
Models == {"poi-v1", "gpt", SurrogateLabel, NoLabel}
ActionsAsked == {"evaluate_candidate", "build_transaction", "deploy", BlankAction, NoAction}

MCSources ==
    {Source(f, "code_review", "poi-v1", a, "wellformed") :
        f \in {"complete", "lacking", "not_dict"}, a \in ActionsAsked}
    \cup {Source("complete", t, m, a, "wellformed") :
        t \in Tasks, m \in Models, a \in {"evaluate_candidate", "build_transaction"}}
    \cup {Source("complete", t, "poi-v1", a, f) :
        t \in {"code_review", BlankLabel}, a \in ActionsAsked, f \in PayloadForms \ {"not_dict"}}
    \cup {Source("complete", t, m, NoAction, "not_dict") :
        t \in {"code_review", NoLabel}, m \in {"poi-v1", NoLabel}}

Pack(form, rules) == [form |-> form, id |-> "pack", rules |-> rules]
Rule(tasks, models, actions) == [tasks |-> tasks, models |-> models, actions |-> actions]
AllowAll ==
    [n \in {"poi", "wallet"} |->
        Rule({"code_review", "essay", "wallet_operation"}, {"poi-v1", "gpt", "wallet-v1"},
             MCActions)]
Narrow ==
    [n \in {"poi", "wallet"} |->
        IF n = "poi" THEN Rule({"code_review"}, {"poi-v1"}, {})
        ELSE Rule({"wallet_operation"}, {"poi-v1"}, {"build_transaction"})]
PoIOnly == [n \in {"poi"} |-> Rule({"essay", "documentation"}, {"poi-v1"}, MCActions)]
MCPolicyPacks ==
    {Pack("wellformed", AllowAll), Pack("wellformed", Narrow), Pack("boundary", PoIOnly),
     Pack("inexact", AllowAll), Pack("incomplete", Narrow), Pack("badly_decided", AllowAll)}
=============================================================================
