---------------------------- MODULE AtomicBinding ----------------------------
(***************************************************************************)
(* What a policy-bound gateway call promises its caller, with the call as  *)
(* one step: a refusal without any evidence, or a complete evidence chain  *)
(* over one envelope, whose decision is the one the policy pack of the     *)
(* request takes on that envelope, bound to that very pack.  Evidence is   *)
(* only ever of artifacts that pass their validators and the preflight.    *)
(***************************************************************************)
EXTENDS GatewayArtifacts

CONSTANTS
    Requests,   \* what a caller may ask: records [name, pack]
    Envelopes,  \* envelopes an adapter may put together
    Outputs     \* outputs an adapter may put together

VARIABLES
    request,    \* the request being worked on, or None
    answer      \* the answer to the last request, or None

Refusal(a, t, reason) ==
    [form |-> "wellformed", adapter |-> a, task_type |-> t, accepted |-> FALSE,
     reason_id |-> reason, context_hash |-> EmptyHash]

Denial(e, reason) ==
    [form |-> "wellformed", adapter |-> e.adapter, task_type |-> e.task_type,
     accepted |-> FALSE, reason_id |-> reason, context_hash |-> Sha256(e)]

Unbound(o) ==
    [output |-> o, receipt |-> None, handoff |-> None, policy_binding |-> None]

(* The chain for envelope e and output o of adapter a, bound to pack p.    *)
Evidence(p, a, e, o) ==
    LET receipt == ReceiptFor([adapter_id |-> a], e, o)
        handoff == HandoffFor(e, o)
    IN [output |-> o, receipt |-> receipt, handoff |-> handoff,
        policy_binding |-> BindingFor(p, receipt, handoff)]

Init == request = None /\ answer = None

Ask == /\ request = None
       /\ request' \in Requests
       /\ answer' = None

Refuse ==
    /\ request # None
    /\ request' = None
    /\ \E a \in Labels, t \in Labels, reason \in ReasonIds :
          answer' = Unbound(Refusal(a, t, reason))

(* What is evaluated and bound is exact and valid, the envelope also when  *)
(* the artifacts of the call are put together.                             *)
Bindable(pack, e) == pack.form \in ValidForms \cap ExactForms /\ e.form = "wellformed"

(* The pack of the request denies e: the denial itself is the evidence.    *)
Deny(e) ==
    /\ request # None
    /\ request' = None
    /\ Bindable(request.pack, e)
    /\ e.adapter = request.name
    /\ PolicyReason(request.pack, request.name, e) # Accepted
    /\ answer' = Evidence(request.pack, request.name, e,
                          Denial(e, PolicyReason(request.pack, request.name, e)))

(* The pack allows e, for an action e names: the adapter's output stands,  *)
(* with the reason that goes with its decision, tied to e by its context   *)
(* hash.                                                                   *)
Decide(e, o) ==
    /\ request # None
    /\ request' = None
    /\ Bindable(request.pack, e) /\ o.form = "wellformed"
    /\ e.adapter = request.name /\ o.adapter = request.name
    /\ e.action # NoAction
    /\ o.task_type = e.task_type
    /\ o.context_hash = Sha256(e)
    /\ PolicyReason(request.pack, request.name, e) = Accepted
    /\ IF o.accepted THEN o.reason_id = Accepted ELSE o.reason_id \in ReasonIds
    /\ answer' = Evidence(request.pack, request.name, e, o)

Next ==
    \/ Ask
    \/ Refuse
    \/ \E e \in Envelopes : Deny(e)
    \/ \E e \in Envelopes, o \in Outputs : Decide(e, o)

Spec == Init /\ [][Next]_<<request, answer>>
=============================================================================
