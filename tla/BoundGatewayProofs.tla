------------------------- MODULE BoundGatewayProofs -------------------------
(***************************************************************************)
(* Proofs about the policy-bound path, for every set of packs, envelopes,  *)
(* outputs, manifests and callback errors, with any number of foreign      *)
(* steps during the callbacks and any number of calls.                     *)
(*                                                                         *)
(* Inv is inductive: what each block has established (Progress), and the   *)
(* properties of the result that the last block draws from it.             *)
(***************************************************************************)
EXTENDS BoundGateway, TLAPS

Properties ==
    /\ AtomicEvidence
    /\ PolicyIdentity
    /\ VerdictMatchesPolicy
    /\ RefusalsAreExplained

Inv == TypeOK /\ Progress /\ Properties

-----------------------------------------------------------------------------
(* The operators the blocks are built from.                                *)

(* A snapshot that neither the preflight nor the validator refuses is      *)
(* exact and valid; a refusal carries a registered reason                  *)
(* (policy_binding.py:171-189).                                            *)
LEMMA SnapshotVerdict ==
    ASSUME NEW x, x.form \in ChoiceForms,
           NEW misversioned \in ReasonIds, NEW badly_decided \in ReasonIds
    PROVE  LET fault == Snapshotted(x, Fault(x.form, misversioned, badly_decided))
           IN /\ fault = NoError => x.form \in BudgetForms
              /\ fault # NoError => fault.message \in ReasonIds
<1>1. CASE x.form \notin ExactForms
  BY <1>1 DEF Snapshotted, Raise, NoError, ReasonIds
<1>2. CASE x.form \in ExactForms
  <2>1. Fault(x.form, misversioned, badly_decided) = NoError => x.form \in BudgetForms
    BY <1>2 DEF Fault, ExactForms, ValidForms, BudgetForms, Raise, NoError
  <2>2. Fault(x.form, misversioned, badly_decided) # NoError =>
            Fault(x.form, misversioned, badly_decided).message \in ReasonIds
    BY <1>2 DEF Fault, ExactForms, ValidForms, Raise, NoError, ReasonIds
  <2>. QED  BY <1>2, <2>1, <2>2 DEF Snapshotted
<1>. QED  BY <1>1, <1>2

(* Whatever a callback raises, the reason returned is a registered one     *)
(* (gateway.py:848-861).                                                   *)
LEMMA MappedReasons ==
    ASSUME NEW err
    PROVE  /\ ReasonOf(err, EnvelopeClauses) \in ReasonIds
           /\ ReasonOf(err, OutputClauses) \in ReasonIds
           /\ ReasonFromError(err, "SCHEMA_VIOLATION") \in ReasonIds
<1>1. \A default \in ReasonIds : ReasonFromError(err, default) \in ReasonIds
  BY DEF ReasonFromError
<1>2. /\ "INTERNAL_ERROR" \in ReasonIds /\ "SCHEMA_VIOLATION" \in ReasonIds
  BY DEF ReasonIds
<1>3. \A c \in DOMAIN EnvelopeClauses : EnvelopeClauses[c] \in ReasonIds
  BY DEF EnvelopeClauses, ReasonIds
<1>4. \A c \in DOMAIN OutputClauses : OutputClauses[c] \in ReasonIds
  BY DEF OutputClauses, ReasonIds
<1>. QED  BY <1>1, <1>2, <1>3, <1>4 DEF ReasonOf

(* Failure labels are usable whatever the caller passed                    *)
(* (gateway.py:783-789, 807-817).                                          *)
LEMMA FailureLabels ==
    ASSUME NEW n, NEW task, NEW reason
    PROVE  /\ FailureOutput(n, task, reason).adapter \in Labels
           /\ FailureOutput(n, task, reason).task_type \in Labels
           /\ FailureOutput(n, task, reason).reason_id = reason
           /\ ~ FailureOutput(n, task, reason).accepted
BY LabelsAssumption DEF FailureOutput, SafeLabel

(* Evaluating a valid pack either allows, or raises a PolicyError with the *)
(* reason of the first failed membership test (policy.py:46-82).           *)
LEMMA PolicyVerdict ==
    ASSUME NEW pack, pack.form \in BudgetForms, NEW n, NEW e
    PROVE  LET fault   == PolicyFault(pack, n, e)
               verdict == PolicyReason(pack, n, e)
           IN /\ verdict \in ReasonIds \cup {Accepted}
              /\ verdict = Accepted => fault = NoError
              /\ verdict # Accepted => /\ fault # NoError
                                       /\ fault.class = "Policy"
                                       /\ ReasonFromError(fault, "POLICY_DENIED") = verdict
<1>1. PolicyPackFault(pack) = NoError
  BY DEF PolicyPackFault, Fault, BudgetForms, ValidForms
<1>2. PolicyReason(pack, n, e) \in ReasonIds \cup {Accepted}
  BY DEF PolicyReason, ReasonIds, Accepted
<1>. QED  BY <1>1, <1>2 DEF PolicyFault, Raise, NoError, ReasonFromError, ReasonIds, Accepted

-----------------------------------------------------------------------------
(* Leaving a call.                                                         *)

(* A failing call returns no evidence and an explained refusal, from any   *)
(* block (gateway.py:776-831).                                             *)
LEMMA FailKeepsInv ==
    ASSUME Inv, pc \in Blocks, NEW reason \in ReasonIds, Fail(reason)
    PROVE  Inv'
<1>1. pc' = "idle" /\ UNCHANGED <<adapters, manifests, asked, live>>
  BY DEF Fail, registry
<1>2. /\ result'.output = FailureOutput(asked.name, live.task, reason)
      /\ result'.receipt = None /\ result'.handoff = None
      /\ result'.policy_binding = None
  BY DEF Fail
<1>3. /\ snapshot' = None /\ manifest' = None /\ envelope' = None /\ evaluated' = None
  BY DEF Fail, DropLocals
<1>4. TypeOK'
  BY <1>1, <1>3 DEF Inv, TypeOK, Blocks
<1>5. ~ Bound'
  BY <1>2 DEF Bound, Returned
<1>6. Progress'
  BY <1>1, <1>5 DEF Progress, Captured, Found, EnvelopeKept, Judged, Chained,
                    AfterCapture, AfterManifest, AfterPolicy, AfterOutput, Blocks
<1>7. AtomicEvidence'
  BY <1>2, FailureLabels DEF AtomicEvidence
<1>8. RefusalsAreExplained'
  <2>1. /\ {result'.output.adapter, result'.output.task_type} \subseteq Labels
        /\ result'.output.reason_id \in ReasonIds
    BY <1>2, FailureLabels
  <2>. QED  BY <2>1 DEF RefusalsAreExplained
<1>. QED  BY <1>4, <1>5, <1>6, <1>7, <1>8
          DEF Inv, Properties, PolicyIdentity, VerdictMatchesPolicy

(* While a call runs there is no result, so there is nothing to show about *)
(* it.                                                                     *)
LEMMA RunningProperties ==
    ASSUME pc' \in Blocks
    PROVE  Properties' /\ ~ Bound'
BY DEF Properties, AtomicEvidence, PolicyIdentity, VerdictMatchesPolicy,
       RefusalsAreExplained, Bound, Returned, Blocks

-----------------------------------------------------------------------------
(* One lemma per block.                                                    *)

LEMMA CallKeepsInv ==
    ASSUME Inv, NEW n \in Names \cup {NoLabel}, NEW t \in SourceTasks,
           NEW p \in PolicyPacks, Call(n, t, p)
    PROVE  Inv'
<1>1. /\ pc = "idle" /\ pc' = "capture" /\ result' = None
      /\ asked' = [name |-> n, pack |-> p] /\ live' = [task |-> t, pack |-> p]
      /\ UNCHANGED <<adapters, manifests>>
      /\ snapshot' = None /\ manifest' = None /\ envelope' = None /\ evaluated' = None
  BY DEF Call, DropLocals, registry
<1>2. Properties' /\ ~ Bound'
  BY <1>1, RunningProperties DEF Blocks
<1>3. TypeOK'
  BY <1>1 DEF Inv, TypeOK, Blocks, Request, Live
<1>4. Progress'
  BY <1>1, <1>2 DEF Progress, Captured, Found, EnvelopeKept, Judged, Chained,
                    AfterCapture, AfterManifest, AfterPolicy, AfterOutput, Blocks
<1>. QED  BY <1>2, <1>3, <1>4 DEF Inv

LEMMA CapturePolicyKeepsInv ==
    ASSUME Inv, CapturePolicy
    PROVE  Inv'
<1> DEFINE fault == Snapshotted(live.pack, PolicyPackFault(live.pack))
<1>1. pc = "capture" /\ live.pack \in PolicyPacks /\ live.pack = asked.pack
  BY DEF CapturePolicy, Inv, TypeOK, Live, Progress, Captured
<1>2. /\ fault = NoError => live.pack.form \in BudgetForms
      /\ ReasonFromError(fault, "SCHEMA_VIOLATION") \in ReasonIds
  <2>1. live.pack.form \in ChoiceForms
    BY <1>1, BoundGatewayAssumption
  <2>2. "SCHEMA_VIOLATION" \in ReasonIds /\ "POLICY_DENIED" \in ReasonIds
    BY DEF ReasonIds
  <2>. QED  BY <2>1, <2>2, SnapshotVerdict, MappedReasons DEF PolicyPackFault
<1>3. CASE fault # NoError
  <2>1. Fail(ReasonFromError(fault, "SCHEMA_VIOLATION"))
    BY <1>3 DEF CapturePolicy
  <2>. QED  BY <1>1, <1>2, <2>1, FailKeepsInv DEF Blocks
<1>4. CASE fault = NoError
  <2>1. /\ pc' = "get_manifest" /\ snapshot' = live.pack
        /\ UNCHANGED <<adapters, manifests, asked, live, result>>
        /\ UNCHANGED <<manifest, envelope, output, receipt, handoff, evaluated>>
    BY <1>4 DEF CapturePolicy, Goto, registry
  <2>2. Properties' /\ ~ Bound'
    BY <2>1, RunningProperties DEF Blocks
  <2>3. TypeOK'
    BY <1>1, <2>1 DEF Inv, TypeOK, Blocks
  <2>4. Progress'
    BY <1>1, <1>2, <1>4, <2>1, <2>2
    DEF Progress, Captured, Found, EnvelopeKept, Judged, Chained,
        AfterCapture, AfterManifest, AfterPolicy, AfterOutput, Blocks
  <2>. QED  BY <2>2, <2>3, <2>4 DEF Inv
<1>. QED  BY <1>3, <1>4

(* get_manifest fails with a registered reason, or both dictionaries hold  *)
(* an entry for the name (registry.py:53-69).                              *)
LEMMA GetManifestVerdict ==
    ASSUME TypeOK, NEW n
    PROVE  /\ Registry!GetManifestFault(n) = "none" =>
                  n \in Names /\ adapters[n] # None /\ manifests[n] \in Manifests
           /\ Registry!GetManifestFault(n) # "none" => Registry!GetManifestFault(n) \in ReasonIds
BY DEF TypeOK, Registry!GetManifestFault, Registry!GetFault, Registry!Registered, ReasonIds

LEMMA GetManifestKeepsInv ==
    ASSUME Inv, GetManifest
    PROVE  Inv'
<1> DEFINE missing == Registry!GetManifestFault(asked.name)
           found   == manifests[asked.name]
<1>1. pc = "get_manifest" /\ TypeOK
  BY DEF GetManifest, Inv
<1>2. CASE missing # "none"
  <2>1. Fail(missing) /\ missing \in ReasonIds
    BY <1>1, <1>2, GetManifestVerdict DEF GetManifest
  <2>. QED  BY <1>1, <2>1, FailKeepsInv DEF Blocks
<1>3. CASE missing = "none" /\ Snapshotted(found, NoError) # NoError
  <2>1. Fail(Snapshotted(found, NoError).message)
    BY <1>3 DEF GetManifest
  <2>2. Snapshotted(found, NoError).message \in ReasonIds
    BY <1>3 DEF Snapshotted, Raise, ReasonIds
  <2>. QED  BY <1>1, <2>1, <2>2, FailKeepsInv DEF Blocks
<1>4. CASE missing = "none" /\ Snapshotted(found, NoError) = NoError
  <2>1. /\ pc' = "get_adapter" /\ manifest' = found
        /\ UNCHANGED <<adapters, manifests, asked, live, result>>
        /\ UNCHANGED <<snapshot, envelope, output, receipt, handoff, evaluated>>
    BY <1>4 DEF GetManifest, Goto, registry
  <2>2. Properties' /\ ~ Bound'
    BY <2>1, RunningProperties DEF Blocks
  <2>3. asked.name \in Names /\ adapters[asked.name] # None /\ found \in Manifests
    BY <1>1, <1>4, GetManifestVerdict
  <2>4. TypeOK'
    BY <1>1, <2>1, <2>3 DEF TypeOK, Blocks
  <2>5. Progress'
    BY <1>1, <2>1, <2>2, <2>3, BoundGatewayAssumption
    DEF Inv, Progress, Captured, Found, EnvelopeKept, Judged, Chained,
        AfterCapture, AfterManifest, AfterPolicy, AfterOutput, Blocks
  <2>. QED  BY <2>2, <2>4, <2>5 DEF Inv
<1>. QED  BY <1>2, <1>3, <1>4

LEMMA GetAdapterKeepsInv ==
    ASSUME Inv, GetAdapter
    PROVE  Inv'
<1>1. pc = "get_adapter" /\ TypeOK
  BY DEF GetAdapter, Inv
<1>2. CASE Registry!GetFault(asked.name) # "none"
  <2>1. Fail(Registry!GetFault(asked.name)) /\ Registry!GetFault(asked.name) \in ReasonIds
    BY <1>2 DEF GetAdapter, Registry!GetFault, ReasonIds
  <2>. QED  BY <1>1, <2>1, FailKeepsInv DEF Blocks
<1>3. CASE Registry!GetFault(asked.name) = "none"
  <2>1. /\ pc' = "build_envelope"
        /\ UNCHANGED <<adapters, manifests, asked, live, result>>
        /\ UNCHANGED <<snapshot, manifest, envelope, output, receipt, handoff, evaluated>>
    BY <1>3 DEF GetAdapter, Goto, registry, locals
  <2>2. Properties' /\ ~ Bound'
    BY <2>1, RunningProperties DEF Blocks
  <2>3. TypeOK'
    BY <1>1, <2>1 DEF TypeOK, Blocks
  <2>4. Progress'
    BY <1>1, <2>1, <2>2
    DEF Inv, Progress, Captured, Found, EnvelopeKept, Judged, Chained,
        AfterCapture, AfterManifest, AfterPolicy, AfterOutput, Blocks
  <2>. QED  BY <2>2, <2>3, <2>4 DEF Inv
<1>. QED  BY <1>2, <1>3

LEMMA BuildEnvelopeKeepsInv ==
    ASSUME Inv, NEW e \in RawEnvelopes, BuildEnvelopeReturns(e)
    PROVE  Inv'
<1> DEFINE fault == Snapshotted(e, EnvelopeFault(e))
<1>1. pc = "build_envelope" /\ TypeOK
  BY DEF BuildEnvelopeReturns, Inv
<1>2. CASE fault # NoError
  <2>1. Fail(ReasonOf(fault, EnvelopeClauses))
    BY <1>2 DEF BuildEnvelopeReturns
  <2>. QED  BY <1>1, <2>1, MappedReasons, FailKeepsInv DEF Blocks
<1>3. CASE fault = NoError
  <2>1. /\ pc' = "align" /\ envelope' = e
        /\ UNCHANGED <<adapters, manifests, asked, live, result>>
        /\ UNCHANGED <<snapshot, manifest, output, receipt, handoff, evaluated>>
    BY <1>3 DEF BuildEnvelopeReturns, Goto, registry
  <2>2. e.form \in BudgetForms
    <3>1. e.form \in ChoiceForms
      BY BoundGatewayAssumption DEF ChoiceForms
    <3>2. "INVALID_ENVELOPE" \in ReasonIds
      BY DEF ReasonIds
    <3>. QED  BY <1>3, <3>1, <3>2, SnapshotVerdict DEF EnvelopeFault
  <2>3. Properties' /\ ~ Bound'
    BY <2>1, RunningProperties DEF Blocks
  <2>4. TypeOK'
    BY <1>1, <2>1 DEF TypeOK, Blocks
  <2>5. Progress'
    BY <1>1, <2>1, <2>2, <2>3
    DEF Inv, Progress, Captured, Found, EnvelopeKept, Judged, Chained,
        AfterCapture, AfterManifest, AfterPolicy, AfterOutput, Blocks
  <2>. QED  BY <2>3, <2>4, <2>5 DEF Inv
<1>. QED  BY <1>2, <1>3

LEMMA AlignEnvelopeKeepsInv ==
    ASSUME Inv, AlignEnvelope
    PROVE  Inv'
<1>1. pc = "align" /\ TypeOK
  BY DEF AlignEnvelope, Inv
<1> DEFINE misnamed == envelope.adapter # asked.name \/ manifest.adapter_id # asked.name
           undeclared == \/ envelope.action = NoAction
                         \/ envelope.action \notin manifest.supported_actions
<1>2. CASE misnamed \/ undeclared
  <2>1. Fail("INVALID_ENVELOPE") \/ Fail("ADAPTER_VALIDATION_FAILED")
    BY <1>2 DEF AlignEnvelope
  <2>2. {"INVALID_ENVELOPE", "ADAPTER_VALIDATION_FAILED"} \subseteq ReasonIds
    BY DEF ReasonIds
  <2>. QED  BY <1>1, <2>1, <2>2, FailKeepsInv DEF Blocks
<1>3. CASE ~ misnamed /\ ~ undeclared
  <2>1. /\ pc' = "enforce"
        /\ UNCHANGED <<adapters, manifests, asked, live, result>>
        /\ UNCHANGED <<snapshot, manifest, envelope, output, receipt, handoff, evaluated>>
    BY <1>3 DEF AlignEnvelope, Goto, registry, locals
  <2>2. Properties' /\ ~ Bound'
    BY <2>1, RunningProperties DEF Blocks
  <2>3. TypeOK'
    BY <1>1, <2>1 DEF TypeOK, Blocks
  <2>4. Progress'
    BY <1>1, <1>3, <2>1, <2>2
    DEF Inv, Progress, Captured, Found, EnvelopeKept, Judged, Chained, Aligned,
        AfterCapture, AfterManifest, AfterPolicy, AfterOutput, Blocks
  <2>. QED  BY <2>2, <2>3, <2>4 DEF Inv
<1>. QED  BY <1>2, <1>3

(* The captured pack is valid, so evaluation either allows, or denies with *)
(* the reason that becomes the output's (gateway.py:373-391).              *)
LEMMA EnforcePolicyKeepsInv ==
    ASSUME Inv, EnforcePolicy
    PROVE  Inv'
<1> DEFINE fault == PolicyFault(snapshot, asked.name, envelope)
           verdict == PolicyReason(snapshot, asked.name, envelope)
<1>1. pc = "enforce" /\ TypeOK
  BY DEF EnforcePolicy, EnforceWith, Inv
<1>2. snapshot = asked.pack /\ snapshot.form \in BudgetForms
  BY <1>1 DEF Inv, Progress, Captured, AfterCapture, Blocks
<1>3. Aligned(envelope)
  BY <1>1 DEF Inv, Progress, EnvelopeKept
<1>4. /\ verdict = Accepted => fault = NoError
      /\ verdict # Accepted => /\ fault # NoError /\ fault.class = "Policy"
                               /\ ReasonFromError(fault, "POLICY_DENIED") = verdict
  BY <1>2, PolicyVerdict
<1>5. /\ UNCHANGED <<adapters, manifests, asked, live, result>>
      /\ UNCHANGED <<snapshot, manifest, envelope, receipt, handoff>>
      /\ evaluated' = envelope
      /\ \/ verdict = Accepted /\ pc' = "build_output"
         \/ verdict # Accepted /\ pc' = "receipt" /\ output' = RejectedOutput(envelope, verdict)
  BY <1>4 DEF EnforcePolicy, EnforceWith, Goto, registry
<1>6. Properties' /\ ~ Bound'
  BY <1>5, RunningProperties DEF Blocks
<1>7. TypeOK'
  BY <1>1, <1>5 DEF TypeOK, Blocks
<1>8. Captured' /\ Found' /\ Chained'
  BY <1>1, <1>5, <1>6
  DEF Inv, Progress, Captured, Found, Chained, AfterCapture, AfterManifest, Blocks
<1>9. EnvelopeKept'
  BY <1>3, <1>5 DEF EnvelopeKept, Aligned, AfterPolicy
<1>10. Judged'
  BY <1>2, <1>5 DEF Judged, Verdict, AfterPolicy, AfterOutput
<1>. QED  BY <1>6, <1>7, <1>8, <1>9, <1>10 DEF Inv, Progress

LEMMA BuildOutputKeepsInv ==
    ASSUME Inv, NEW o \in RawOutputs, BuildOutputReturns(o)
    PROVE  Inv'
<1> DEFINE shape == Snapshotted(o, OutputFault(o))
           fault == IF shape # NoError THEN shape
                    ELSE OutputAlignmentFault(manifest, envelope, o)
<1>1. pc = "build_output" /\ TypeOK
  BY DEF BuildOutputReturns, Inv
<1>2. CASE fault # NoError
  <2>1. Fail(ReasonOf(fault, OutputClauses))
    BY <1>2 DEF BuildOutputReturns
  <2>. QED  BY <1>1, <2>1, MappedReasons, FailKeepsInv DEF Blocks
<1>3. CASE fault = NoError
  <2>1. /\ pc' = "receipt" /\ output' = o
        /\ UNCHANGED <<adapters, manifests, asked, live, result>>
        /\ UNCHANGED <<snapshot, manifest, envelope, receipt, handoff, evaluated>>
    BY <1>3 DEF BuildOutputReturns, Goto, registry
  <2>2. shape = NoError /\ OutputAlignmentFault(manifest, envelope, o) = NoError
    BY <1>3
  <2>3. o.form \in BudgetForms
    <3>1. o.form \in ChoiceForms
      BY BoundGatewayAssumption
    <3>2. "INVALID_OUTPUT" \in ReasonIds
      BY DEF ReasonIds
    <3>. QED  BY <2>2, <3>1, <3>2, SnapshotVerdict DEF OutputFault
  <2>4. o.adapter = manifest.adapter_id /\ o.task_type = envelope.task_type
    BY <2>2 DEF OutputAlignmentFault, Raise, NoError
  <2>5. Aligned(evaluated) /\ Verdict = Accepted
    BY <1>1 DEF Inv, Progress, EnvelopeKept, Judged, AfterPolicy
  <2>6. Properties' /\ ~ Bound'
    BY <2>1, RunningProperties DEF Blocks
  <2>7. TypeOK'
    BY <1>1, <2>1 DEF TypeOK, Blocks
  <2>8. Captured' /\ Found' /\ Chained'
    BY <1>1, <2>1, <2>6
    DEF Inv, Progress, Captured, Found, Chained, AfterCapture, AfterManifest, Blocks
  <2>9. EnvelopeKept'
    BY <1>1, <2>1 DEF Inv, Progress, EnvelopeKept, Aligned, AfterPolicy
  <2>10. Judged'
    BY <2>1, <2>3, <2>4, <2>5 DEF Judged, Verdict, AfterOutput, AfterPolicy, Aligned
  <2>. QED  BY <2>6, <2>7, <2>8, <2>9, <2>10 DEF Inv, Progress
<1>. QED  BY <1>2, <1>3

LEMMA RaiseKeepsInv ==
    ASSUME Inv, NEW err, BuildEnvelopeRaises(err) \/ BuildOutputRaises(err)
    PROVE  Inv'
BY MappedReasons, FailKeepsInv DEF BuildEnvelopeRaises, BuildOutputRaises, Blocks

LEMMA BuildReceiptKeepsInv ==
    ASSUME Inv, BuildReceipt
    PROVE  Inv'
<1>1. pc = "receipt" /\ TypeOK
  BY DEF BuildReceipt, Inv
<1>2. CASE ~ ReceiptBuilds(envelope, output)
  BY <1>1, <1>2, FailKeepsInv DEF BuildReceipt, Blocks, ReasonIds
<1>3. CASE ReceiptBuilds(envelope, output)
  <2>1. /\ pc' = "handoff" /\ receipt' = ReceiptFor(manifest, envelope, output)
        /\ UNCHANGED <<adapters, manifests, asked, live, result>>
        /\ UNCHANGED <<snapshot, manifest, envelope, output, handoff, evaluated>>
    BY <1>3 DEF BuildReceipt, Goto, registry
  <2>2. Properties' /\ ~ Bound'
    BY <2>1, RunningProperties DEF Blocks
  <2>3. TypeOK'
    BY <1>1, <2>1 DEF TypeOK, Blocks
  <2>4. Captured' /\ Found' /\ Chained'
    BY <1>1, <2>1, <2>2
    DEF Inv, Progress, Captured, Found, Chained, AfterCapture, AfterManifest, Blocks
  <2>5. EnvelopeKept' /\ Judged'
    BY <1>1, <2>1 DEF Inv, Progress, EnvelopeKept, Judged, Aligned, Verdict, AfterPolicy, AfterOutput
  <2>. QED  BY <2>2, <2>3, <2>4, <2>5 DEF Inv, Progress
<1>. QED  BY <1>2, <1>3

LEMMA BuildHandoffKeepsInv ==
    ASSUME Inv, BuildHandoff
    PROVE  Inv'
<1>1. pc = "handoff" /\ TypeOK
  BY DEF BuildHandoff, Inv
<1>2. CASE ~ HandoffBuilds(envelope, output, receipt)
  BY <1>1, <1>2, FailKeepsInv DEF BuildHandoff, Blocks, ReasonIds
<1>3. CASE HandoffBuilds(envelope, output, receipt)
  <2>1. /\ pc' = "bind" /\ handoff' = HandoffFor(envelope, output)
        /\ UNCHANGED <<adapters, manifests, asked, live, result>>
        /\ UNCHANGED <<snapshot, manifest, envelope, output, receipt, evaluated>>
    BY <1>3 DEF BuildHandoff, Goto, registry
  <2>2. Properties' /\ ~ Bound'
    BY <2>1, RunningProperties DEF Blocks
  <2>3. TypeOK'
    BY <1>1, <2>1 DEF TypeOK, Blocks
  <2>4. Captured' /\ Found' /\ Chained'
    BY <1>1, <2>1, <2>2
    DEF Inv, Progress, Captured, Found, Chained, AfterCapture, AfterManifest, Blocks
  <2>5. EnvelopeKept' /\ Judged'
    BY <1>1, <2>1 DEF Inv, Progress, EnvelopeKept, Judged, Aligned, Verdict, AfterPolicy, AfterOutput
  <2>. QED  BY <2>2, <2>3, <2>4, <2>5 DEF Inv, Progress
<1>. QED  BY <1>2, <1>3

(* What the binding checks, with what the blocks before it established, is *)
(* what the properties say of the result (policy_binding.py:234-290).      *)
LEMMA BindPolicyKeepsInv ==
    ASSUME Inv, BindPolicy
    PROVE  Inv'
<1>1. pc = "bind" /\ TypeOK /\ Progress
  BY DEF BindPolicy, BindUnless, Inv
<1>2. CASE ~ BindingBuilds(envelope, output, receipt, handoff)
  BY <1>1, <1>2, FailKeepsInv DEF BindPolicy, BindUnless, Blocks, ReasonIds
<1>3. CASE BindingBuilds(envelope, output, receipt, handoff)
  <2>1. /\ pc' = "idle"
        /\ result' = [output |-> output, receipt |-> receipt, handoff |-> handoff,
                      policy_binding |-> BindingFor(snapshot, receipt, handoff)]
        /\ snapshot' = None /\ manifest' = None
        /\ UNCHANGED <<adapters, manifests, asked, live, envelope, evaluated>>
    BY <1>3 DEF BindPolicy, BindUnless, ReturnBound, registry
  <2>2. snapshot = asked.pack
    BY <1>1 DEF Progress, Captured, AfterCapture, Blocks
  <2>3. /\ asked.name \in Names /\ adapters[asked.name] # None
        /\ manifests[asked.name] # None /\ manifest = manifests[asked.name]
    BY <1>1 DEF Progress, Found, AfterManifest, AfterCapture, Blocks
  <2>4. Aligned(evaluated) /\ envelope \in RawEnvelopes
    BY <1>1 DEF Progress, EnvelopeKept, AfterPolicy
  <2>5. \/ /\ Verdict # Accepted
           /\ output = RejectedOutput(evaluated, Verdict)
        \/ /\ Verdict = Accepted
           /\ output \in RawOutputs /\ output.form \in BudgetForms
    BY <1>1 DEF Progress, Judged, AfterOutput, AfterPolicy
  <2>6. /\ receipt = ReceiptFor(manifest, envelope, output)
        /\ handoff = HandoffFor(envelope, output)
    BY <1>1 DEF Progress, Chained
  <2>7. TypeOK'
    BY <1>1, <2>1 DEF TypeOK, Blocks
  <2>8. Progress'
    BY <2>1, <2>3 DEF Progress, Captured, Found, EnvelopeKept, Judged, Chained,
                      AfterCapture, AfterManifest, AfterPolicy, AfterOutput, Blocks
  <2>9. AtomicEvidence'
    <3>1. output.context_hash = Sha256(envelope)
      BY <1>3 DEF BindingBuilds
    <3>2. receipt = ReceiptFor([adapter_id |-> asked.name], envelope, output)
      BY <2>4, <2>6 DEF Aligned, ReceiptFor
    <3>3. snapshot \in PolicyPacks
      BY <1>1, <2>2 DEF TypeOK, Request
    <3>. QED  BY <2>1, <2>6, <3>1, <3>2, <3>3 DEF AtomicEvidence
  <2>10. PolicyIdentity'
    BY <2>1, <2>2 DEF PolicyIdentity, BindingFor
  <2>11. VerdictMatchesPolicy'
    <3>1. Verdict' = Verdict
      BY <2>1 DEF Verdict
    <3>2. Verdict # Accepted => output = RejectedOutput(evaluated, Verdict) /\ ~ output.accepted
      BY <2>5 DEF RejectedOutput
    <3>. QED  BY <2>1, <2>3, <2>4, <3>1, <3>2 DEF VerdictMatchesPolicy, Aligned
  <2>12. RefusalsAreExplained'
    <3>1. output.adapter \in Labels /\ output.task_type \in Labels
      <4>1. CASE output = RejectedOutput(evaluated, Verdict)
        BY <2>4, <4>1, BoundGatewayAssumption DEF RejectedOutput, Aligned, BudgetForms
      <4>2. CASE output \in RawOutputs /\ output.form \in BudgetForms
        BY <4>2, BoundGatewayAssumption DEF BudgetForms
      <4>. QED  BY <2>5, <4>1, <4>2
    <3>2. ~ output.accepted => output.reason_id \in ReasonIds
      BY <1>3 DEF BindingBuilds, ReasonSemantics, Decision
    <3>. QED  BY <2>1, <3>1, <3>2 DEF RefusalsAreExplained
  <2>. QED  BY <2>7, <2>8, <2>9, <2>10, <2>11, <2>12 DEF Inv, Properties
<1>. QED  BY <1>2, <1>3

-----------------------------------------------------------------------------
(* Foreign steps.                                                          *)

(* Adapters rewriting what they hold a reference to reach neither the      *)
(* captured pack nor the evaluated envelope (gateway.py:193-194, 395).     *)
LEMMA RewritesKeepInv ==
    ASSUME Inv,
           \/ \E p \in PolicyPacks, t \in SourceTasks : RewriteSource(p, t)
           \/ \E e \in RawEnvelopes : RewriteEnvelope(e)
    PROVE  Inv'
<1>1. /\ pc \in Callbacks /\ pc' = pc
      /\ UNCHANGED <<adapters, manifests, asked, snapshot, manifest, output,
                     receipt, handoff, evaluated, result>>
      /\ live' \in Live \/ live' = live
      /\ \/ envelope' = envelope
         \/ pc = "build_output" /\ EnvelopeWrites /\ envelope' \in RawEnvelopes
  <2>1. CASE \E p \in PolicyPacks, t \in SourceTasks : RewriteSource(p, t)
    BY <2>1 DEF RewriteSource, registry, locals, Live
  <2>2. CASE \E e \in RawEnvelopes : RewriteEnvelope(e)
    BY <2>2 DEF RewriteEnvelope, registry, Callbacks
  <2>. QED  BY <2>1, <2>2
<1>2. Properties' /\ ~ Bound'
  BY <1>1, RunningProperties DEF Callbacks, Blocks
<1>3. TypeOK'
  BY <1>1 DEF Inv, TypeOK, Callbacks
<1>4. Captured' /\ Found' /\ Chained'
  BY <1>1, <1>2 DEF Inv, Progress, Captured, Found, Chained, Callbacks, AfterCapture,
                    AfterManifest, Blocks
<1>5. EnvelopeKept' /\ Judged'
  BY <1>1 DEF Inv, Progress, EnvelopeKept, Judged, Aligned, Verdict, AfterPolicy,
              AfterOutput, Callbacks
<1>. QED  BY <1>2, <1>3, <1>4, <1>5 DEF Inv, Progress

(* A registration inside a callback, or after the call, leaves the entry   *)
(* of the name in use alone (registry.py:35).                              *)
LEMMA RegistrationKeepsInv ==
    ASSUME Inv, NEW n \in Names, NEW a \in Adapters, NEW m \in Manifests \cup {BadManifest, None},
           CompleteRegistration(n, a, m)
    PROVE  Inv'
<1>1. /\ pc \in Callbacks \cup {"idle"} /\ adapters[n] = None
      /\ UNCHANGED <<pc, asked, live, snapshot, manifest, envelope, output, receipt,
                     handoff, evaluated, result>>
      /\ \/ UNCHANGED <<adapters, manifests>>
         \/ /\ adapters' = [adapters EXCEPT ![n] = a]
            /\ \/ manifests' = manifests
               \/ m \in Manifests /\ manifests' = [manifests EXCEPT ![n] = m]
  BY DEF CompleteRegistration, Registry!Registered, Registry!CommitOrRaise,
         Registry!WriteUnless, Registry!RaiseFrom, locals
<1>2. TypeOK'
  BY <1>1 DEF Inv, TypeOK
<1>3. /\ Bound' <=> Bound
      /\ Returned' <=> Returned
      /\ Verdict' = Verdict
  BY <1>1 DEF Bound, Returned, Verdict
<1>4. \A k \in Names : k # n =>
         adapters'[k] = adapters[k] /\ manifests'[k] = manifests[k]
  BY <1>1 DEF Inv, TypeOK
<1>5. pc \in AfterManifest \/ Bound =>
         /\ asked.name \in Names /\ asked.name # n
         /\ adapters'[asked.name] = adapters[asked.name]
         /\ manifests'[asked.name] = manifests[asked.name]
  BY <1>1, <1>4 DEF Inv, Progress, Found
<1>6. Progress'
  BY <1>1, <1>3, <1>5
  DEF Inv, Progress, Captured, Found, EnvelopeKept, Judged, Chained, Aligned
<1>7. Properties'
  BY <1>1, <1>3, <1>5
  DEF Inv, Properties, AtomicEvidence, PolicyIdentity, VerdictMatchesPolicy,
      RefusalsAreExplained
<1>. QED  BY <1>2, <1>6, <1>7 DEF Inv

-----------------------------------------------------------------------------
(* The theorems.                                                           *)

LEMMA InitInv == Init => Inv
<1> SUFFICES ASSUME Init PROVE Inv
  OBVIOUS
<1>1. ~ Returned /\ ~ Bound /\ pc = "idle"
  BY DEF Init, Returned, Bound
<1>2. TypeOK
  BY DEF Init, TypeOK
<1>. QED  BY <1>1, <1>2
  DEF Inv, Progress, Captured, Found, EnvelopeKept, Judged, Chained, Properties,
      AtomicEvidence, PolicyIdentity, VerdictMatchesPolicy, RefusalsAreExplained,
      AfterCapture, AfterManifest, AfterPolicy, AfterOutput, Blocks

LEMMA NextInv == Inv /\ [Next]_vars => Inv'
<1> SUFFICES ASSUME Inv, [Next]_vars PROVE Inv'
  OBVIOUS
<1>1. CASE CallAny
  BY <1>1, CallKeepsInv DEF CallAny
<1>2. CASE CapturePolicy
  BY <1>2, CapturePolicyKeepsInv
<1>3. CASE GetManifest
  BY <1>3, GetManifestKeepsInv
<1>4. CASE GetAdapter
  BY <1>4, GetAdapterKeepsInv
<1>5. CASE \E e \in RawEnvelopes : BuildEnvelopeReturns(e)
  BY <1>5, BuildEnvelopeKeepsInv
<1>6. CASE \E err \in CallbackErrors : BuildEnvelopeRaises(err) \/ BuildOutputRaises(err)
  BY <1>6, RaiseKeepsInv
<1>7. CASE AlignEnvelope
  BY <1>7, AlignEnvelopeKeepsInv
<1>8. CASE EnforcePolicy
  BY <1>8, EnforcePolicyKeepsInv
<1>9. CASE \E o \in RawOutputs : BuildOutputReturns(o)
  BY <1>9, BuildOutputKeepsInv
<1>10. CASE BuildReceipt
  BY <1>10, BuildReceiptKeepsInv
<1>11. CASE BuildHandoff
  BY <1>11, BuildHandoffKeepsInv
<1>12. CASE BindPolicy
  BY <1>12, BindPolicyKeepsInv
<1>13. CASE ForeignStep
  BY <1>13, RewritesKeepInv, RegistrationKeepsInv DEF ForeignStep
<1>14. CASE UNCHANGED vars
  BY <1>14
  DEF Inv, TypeOK, Progress, Captured, Found, EnvelopeKept, Judged, Chained, Aligned,
      Verdict, Properties, AtomicEvidence, PolicyIdentity, VerdictMatchesPolicy,
      RefusalsAreExplained, Bound, Returned, vars, locals, registry
<1>. QED  BY <1>1, <1>2, <1>3, <1>4, <1>5, <1>6, <1>7, <1>8, <1>9, <1>10, <1>11,
             <1>12, <1>13, <1>14 DEF Next, GatewayStep

LEMMA InvHolds == Spec => []Inv
<1>. QED  BY InitInv, NextInv, PTL DEF Spec

(* The locals of a call are well typed at each block (gateway.py:179-282). *)
THEOREM TypeCorrect == Spec => []TypeOK
<1>1. Inv => TypeOK
  BY DEF Inv
<1>. QED  BY <1>1, InvHolds, PTL

(* Every block finds what the blocks before it established, whatever       *)
(* foreign code did in between (gateway.py:192-282, 294-421).              *)
THEOREM ProgressHolds == Spec => []Progress
<1>1. Inv => Progress
  BY DEF Inv
<1>. QED  BY <1>1, InvHolds, PTL

(* A caller never receives part of an evidence chain, or a chain whose     *)
(* parts disagree (gateway.py:246-282).                                    *)
THEOREM AtomicEvidenceHolds == Spec => []AtomicEvidence
<1>1. Inv => AtomicEvidence
  BY DEF Inv, Properties
<1>. QED  BY <1>1, InvHolds, PTL

(* The bound policy is the policy the caller passed (gateway.py:192-194).  *)
THEOREM PolicyIdentityHolds == Spec => []PolicyIdentity
<1>1. Inv => PolicyIdentity
  BY DEF Inv, Properties
<1>. QED  BY <1>1, InvHolds, PTL

(* The decision of a bound result is the decision of the bound policy on   *)
(* the envelope that was evaluated (gateway.py:365-395).                   *)
THEOREM VerdictMatchesPolicyHolds == Spec => []VerdictMatchesPolicy
<1>1. Inv => VerdictMatchesPolicy
  BY DEF Inv, Properties
<1>. QED  BY <1>1, InvHolds, PTL

(* Every refusal has usable labels and a registered reason                 *)
(* (gateway.py:776-861).                                                   *)
THEOREM RefusalsAreExplainedHolds == Spec => []RefusalsAreExplained
<1>1. Inv => RefusalsAreExplained
  BY DEF Inv, Properties
<1>. QED  BY <1>1, InvHolds, PTL

-----------------------------------------------------------------------------
(* The refinement.  AtomicBinding extends GatewayArtifacts too, so its     *)
(* operators have to be identified with the ones the blocks use.           *)

LEMMA SameEvidence ==
    ASSUME NEW p, NEW a, NEW e, NEW o
    PROVE  Abstract!Evidence(p, a, e, o) =
               [output |-> o,
                receipt |-> ReceiptFor([adapter_id |-> a], e, o),
                handoff |-> HandoffFor(e, o),
                policy_binding |-> BindingFor(p, ReceiptFor([adapter_id |-> a], e, o),
                                              HandoffFor(e, o))]
<1>1. \A x : Abstract!Sha256(x) = Sha256(x)
  BY DEF Abstract!Sha256, Sha256
<1>2. Abstract!Decision(o) = Decision(o)
  BY DEF Abstract!Decision, Decision
<1>3. \A m : Abstract!ReceiptFor(m, e, o) = ReceiptFor(m, e, o)
  BY <1>1, <1>2 DEF Abstract!ReceiptFor, Abstract!DeterminismProfile, DeterminismProfile, ReceiptFor
<1>4. Abstract!HandoffFor(e, o) = HandoffFor(e, o)
  BY <1>1, <1>2 DEF Abstract!HandoffFor, HandoffFor
<1>5. \A r, h : Abstract!BindingFor(p, r, h) = BindingFor(p, r, h)
  BY <1>1 DEF Abstract!BindingFor, BindingFor
<1>. QED  BY <1>3, <1>4, <1>5 DEF Abstract!Evidence

LEMMA SameVerdict ==
    ASSUME NEW p, NEW n, NEW e
    PROVE  /\ Abstract!PolicyReason(p, n, e) = PolicyReason(p, n, e)
           /\ Abstract!Denial(e, PolicyReason(p, n, e)) =
                  RejectedOutput(e, PolicyReason(p, n, e))
BY DEF Abstract!PolicyReason, PolicyReason, Abstract!NoAction, NoAction,
       Abstract!Accepted, Accepted, Abstract!Denial, RejectedOutput,
       Abstract!Sha256, Sha256

(* A failing block is the abstract refusal (gateway.py:776-831).           *)
LEMMA FailRefuses ==
    ASSUME Inv, pc \in Blocks, NEW reason \in ReasonIds, Fail(reason)
    PROVE  Abstract!Refuse
<1> DEFINE o == FailureOutput(asked.name, live.task, reason)
<1>1. pc # "idle" /\ pc' = "idle" /\ asked # None
  BY BoundGatewayAssumption DEF Fail, Blocks, Inv, TypeOK, Request
<1>2. result' = [output |-> o, receipt |-> None, handoff |-> None, policy_binding |-> None]
  BY DEF Fail
<1>3. o.adapter \in Labels /\ o.task_type \in Labels
  BY FailureLabels
<1>4. o = Abstract!Refusal(o.adapter, o.task_type, reason)
  BY DEF FailureOutput, Abstract!Refusal, EmptyHash, Abstract!EmptyHash
<1>5. reason \in Abstract!ReasonIds
  BY DEF ReasonIds, Abstract!ReasonIds
<1>6. result' = Abstract!Unbound(Abstract!Refusal(o.adapter, o.task_type, reason))
  BY <1>2, <1>4 DEF Abstract!Unbound
<1> HIDE DEF o
<1>. QED  BY <1>1, <1>3, <1>5, <1>6 DEF Abstract!Refuse

(* A binding is the abstract denial or decision, on the envelope that was  *)
(* evaluated (policy_binding.py:234-290).                                  *)
LEMMA BindDecides ==
    ASSUME EnvelopeWrites = FALSE, Inv, BindPolicy,
           BindingBuilds(envelope, output, receipt, handoff)
    PROVE  \/ Abstract!Deny(evaluated)
           \/ output \in RawOutputs /\ Abstract!Decide(evaluated, output)
<1>1. pc = "bind" /\ TypeOK /\ Progress
  BY DEF BindPolicy, BindUnless, Inv
<1>2. /\ pc' = "idle" /\ asked # None
      /\ result' = [output |-> output, receipt |-> receipt, handoff |-> handoff,
                    policy_binding |-> BindingFor(snapshot, receipt, handoff)]
  BY <1>1, BoundGatewayAssumption
  DEF BindPolicy, BindUnless, ReturnBound, TypeOK, Request
<1>3. snapshot = asked.pack
  BY <1>1 DEF Progress, Captured, AfterCapture, Blocks
<1>4. Aligned(evaluated) /\ envelope = evaluated
  BY <1>1 DEF Progress, EnvelopeKept, AfterPolicy
<1>5. /\ receipt = ReceiptFor([adapter_id |-> asked.name], evaluated, output)
      /\ handoff = HandoffFor(evaluated, output)
  BY <1>1, <1>4 DEF Progress, Chained, Aligned, ReceiptFor
<1>6. result' = Abstract!Evidence(asked.pack, asked.name, evaluated, output)
  BY <1>2, <1>3, <1>5, SameEvidence
<1>7. Abstract!Bindable(asked.pack, evaluated) /\ output.form = "wellformed"
  <2>1. asked.pack.form \in BudgetForms
    BY <1>1, <1>3 DEF Progress, Captured, AfterCapture, Blocks
  <2>2. evaluated.form = "wellformed" /\ output.form = "wellformed"
    BY <1>4 DEF BindingBuilds
  <2>. QED  BY <2>1, <2>2
            DEF Abstract!Bindable, BudgetForms, Abstract!ValidForms, Abstract!ExactForms
<1>8. CASE Verdict # Accepted
  <2>1. output = RejectedOutput(evaluated, Verdict)
    BY <1>1, <1>8 DEF Progress, Judged, AfterOutput, AfterPolicy
  <2>2. /\ Abstract!PolicyReason(asked.pack, asked.name, evaluated) = Verdict
        /\ output = Abstract!Denial(evaluated, Verdict)
    BY <2>1, SameVerdict DEF Verdict
  <2>3. Verdict # Abstract!Accepted
    BY <1>8 DEF Accepted, Abstract!Accepted
  <2>. QED  BY <1>1, <1>2, <1>4, <1>6, <1>7, <2>2, <2>3 DEF Abstract!Deny, Aligned
<1>9. CASE Verdict = Accepted
  <2>1. /\ output \in RawOutputs /\ output.adapter = asked.name
        /\ output.task_type = evaluated.task_type
    BY <1>1, <1>4, <1>9 DEF Progress, Judged, AfterOutput, AfterPolicy
  <2>2. /\ output.context_hash = Abstract!Sha256(evaluated)
        /\ IF output.accepted THEN output.reason_id = Abstract!Accepted
           ELSE output.reason_id \in Abstract!ReasonIds
    BY <1>4 DEF BindingBuilds, ReasonSemantics, Decision, Sha256, Abstract!Sha256,
                Accepted, Abstract!Accepted, ReasonIds, Abstract!ReasonIds
  <2>3. Abstract!PolicyReason(asked.pack, asked.name, evaluated) = Abstract!Accepted
    BY <1>9, SameVerdict DEF Verdict, Accepted, Abstract!Accepted
  <2>4. evaluated.action # Abstract!NoAction
    BY <1>4 DEF Aligned, NoAction, Abstract!NoAction
  <2>. QED  BY <1>1, <1>2, <1>4, <1>6, <1>7, <2>1, <2>2, <2>3, <2>4
            DEF Abstract!Decide, Aligned
<1>. QED  BY <1>8, <1>9

(* Every step of the call but the last is invisible, or fails.             *)
LEMMA InnerStep ==
    ASSUME Inv, GatewayStep
    PROVE  \/ \E block \in Blocks : pc \in Blocks /\ Goto(block)
           \/ \E reason \in ReasonIds : pc \in Blocks /\ Fail(reason)
           \/ BindPolicy /\ BindingBuilds(envelope, output, receipt, handoff)
<1>1. pc \in Blocks
  BY DEF GatewayStep, CapturePolicy, GetManifest, GetAdapter, BuildEnvelopeReturns,
         BuildEnvelopeRaises, AlignEnvelope, EnforcePolicy, EnforceWith,
         BuildOutputReturns, BuildOutputRaises, BuildReceipt, BuildHandoff,
         BindPolicy, BindUnless, Blocks
<1>2. {"INTERNAL_ERROR", "INVALID_ENVELOPE", "ADAPTER_VALIDATION_FAILED"} \subseteq ReasonIds
  BY DEF ReasonIds
<1>3. CASE CapturePolicy
  BY <1>1, <1>3, MappedReasons DEF CapturePolicy, Blocks
<1>4. CASE GetManifest
  <2>1. Snapshotted(manifests[asked.name], NoError) # NoError =>
            Snapshotted(manifests[asked.name], NoError).message \in ReasonIds
    BY DEF Snapshotted, Raise, ReasonIds
  <2>. QED  BY <1>1, <1>4, <2>1, GetManifestVerdict DEF GetManifest, Blocks, Inv
<1>5. CASE GetAdapter
  BY <1>1, <1>5 DEF GetAdapter, Blocks, Registry!GetFault, ReasonIds
<1>6. CASE \E e \in RawEnvelopes : BuildEnvelopeReturns(e)
  BY <1>1, <1>6, MappedReasons DEF BuildEnvelopeReturns, Blocks
<1>7. CASE \E err \in CallbackErrors : BuildEnvelopeRaises(err) \/ BuildOutputRaises(err)
  BY <1>1, <1>7, MappedReasons DEF BuildEnvelopeRaises, BuildOutputRaises
<1>8. CASE AlignEnvelope
  BY <1>1, <1>2, <1>8 DEF AlignEnvelope, Blocks
<1>9. CASE EnforcePolicy
  BY <1>1, <1>2, <1>9 DEF EnforcePolicy, EnforceWith, Blocks
<1>10. CASE \E o \in RawOutputs : BuildOutputReturns(o)
  BY <1>1, <1>10, MappedReasons DEF BuildOutputReturns, Blocks
<1>11. CASE BuildReceipt \/ BuildHandoff
  BY <1>1, <1>2, <1>11 DEF BuildReceipt, BuildHandoff, Blocks
<1>12. CASE BindPolicy
  BY <1>1, <1>2, <1>12 DEF BindPolicy, BindUnless
<1>. QED  BY <1>3, <1>4, <1>5, <1>6, <1>7, <1>8, <1>9, <1>10, <1>11, <1>12 DEF GatewayStep

LEMMA StepRefines ==
    ASSUME EnvelopeWrites = FALSE, Inv, [Next]_vars
    PROVE  [Abstract!Next]_<<IF pc = "idle" THEN None ELSE asked, result>>
<1>1. CASE CallAny
  <2>1. pc = "idle" /\ pc' = "capture" /\ asked' \in Request /\ result' = None
    BY <1>1 DEF CallAny, Call, Request
  <2>. QED  BY <2>1 DEF Abstract!Next, Abstract!Ask
<1>2. CASE GatewayStep
  <2>1. CASE \E block \in Blocks : pc \in Blocks /\ Goto(block)
    BY <2>1 DEF Goto, Blocks
  <2>2. CASE \E reason \in ReasonIds : pc \in Blocks /\ Fail(reason)
    BY <2>2, FailRefuses DEF Abstract!Next
  <2>3. CASE BindPolicy /\ BindingBuilds(envelope, output, receipt, handoff)
    <3>1. evaluated \in RawEnvelopes
      BY <2>3 DEF BindPolicy, BindUnless, Inv, Progress, EnvelopeKept, AfterPolicy, Aligned
    <3>. QED  BY <2>3, <3>1, BindDecides DEF Abstract!Next
  <2>. QED  BY <1>2, <2>1, <2>2, <2>3, InnerStep
<1>3. CASE ForeignStep
  BY <1>3 DEF ForeignStep, RewriteSource, RewriteEnvelope, CompleteRegistration
<1>4. CASE UNCHANGED vars
  BY <1>4 DEF vars
<1>. QED  BY <1>1, <1>2, <1>3, <1>4 DEF Next

(* As long as build_output leaves the envelope it is handed alone, a       *)
(* policy-bound call is one atomic step to its caller: a refusal, a denial *)
(* by the captured policy, or a decision the policy allows, each with its  *)
(* complete evidence (gateway.py:185-190).                                 *)
THEOREM RefinesAtomicBinding ==
    ASSUME EnvelopeWrites = FALSE
    PROVE  Spec => ImplementsAtomicBinding
<1>1. Init => Abstract!Init
  BY DEF Init, Abstract!Init
<1>2. Inv /\ [Next]_vars =>
          [Abstract!Next]_<<IF pc = "idle" THEN None ELSE asked, result>>
  BY StepRefines
<1>. QED  BY <1>1, <1>2, InvHolds, PTL DEF Spec, Abstract!Spec, ImplementsAtomicBinding
=============================================================================
