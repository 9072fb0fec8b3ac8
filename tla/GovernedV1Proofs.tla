-------------------------- MODULE GovernedV1Proofs --------------------------
(***************************************************************************)
(* Proofs about the four V1 methods, for every set of packs, sources,      *)
(* artifacts and callback errors, with any number of foreign steps during  *)
(* the callbacks and any number of calls.                                  *)
(*                                                                         *)
(* Inv is inductive: what a call has established when it reaches a block   *)
(* (Found, Judged), a registry that files manifests under their own names  *)
(* (Filed), and the properties of the result.                              *)
(***************************************************************************)
EXTENDS GovernedV1, TLAPS

Filed == \A n \in Names : manifests[n] # None => manifests[n].adapter_id = n

Found ==
    pc \in Blocks \ {"get_manifest"} /\ method # "process" =>
        manifest \in Manifests /\ manifest.adapter_id = name

Judged ==
    /\ pc = "build_output" /\ method \in Judging => Allowed
    /\ pc = "evidence" /\ method \in Judging /\ output.accepted =>
          Allowed /\ output.adapter = name

Properties ==
    /\ EvidenceOfOutput
    /\ AcceptedHasEvidence
    /\ AcceptedWasAllowed
    /\ RaisesOnlyOnUnusableText

Inv == TypeOK /\ Filed /\ Found /\ Judged /\ Properties

-----------------------------------------------------------------------------
(* The fail-closed artifacts.                                              *)

Unusable == {BlankLabel, SurrogateLabel, NoLabel}
SaysUnusable(n, source) ==
    \/ n \notin Labels
    \/ source # None /\ {source.task, source.model} \cap {BlankLabel, SurrogateLabel} # {}

LEMMA FallbackLabels ==
    ASSUME NEW value, NEW fallback \in Labels, Usable(value, fallback) \in Unusable
    PROVE  value \in {BlankLabel, SurrogateLabel}
BY LabelsAssumption DEF Usable, Unusable

(* The text of a fail-closed artifact is unusable only if the name or the  *)
(* source says something unusable (gateway.py:730-737, 749-765).           *)
LEMMA UnusableForm ==
    ASSUME NEW n, NEW source, NEW labels \in SUBSET {n, TaskOf(n, source), ModelOf(n, source)},
           FormOf(labels) # "wellformed"
    PROVE  SaysUnusable(n, source)
<1>1. PICK label \in labels : label \in Unusable
  BY DEF FormOf, Unusable
<1>2. CASE label = n
  BY <1>1, <1>2, LabelsAssumption DEF Unusable, SaysUnusable
<1>3. CASE label = TaskOf(n, source)
  <2>1. TaskOf(n, source) \in Unusable
    BY <1>1, <1>3
  <2>2. source # None
    BY <2>1, LabelsAssumption DEF TaskOf, Unusable
  <2>3. source.task \in {BlankLabel, SurrogateLabel}
    BY <2>1, <2>2, FallbackLabels, LabelsAssumption DEF TaskOf
  <2>. QED  BY <2>2, <2>3 DEF SaysUnusable
<1>4. CASE label = ModelOf(n, source)
  <2>1. ModelOf(n, source) \in Unusable
    BY <1>1, <1>4
  <2>2. source # None
    BY <2>1, LabelsAssumption DEF ModelOf, Unusable
  <2>3. source.model \in {BlankLabel, SurrogateLabel}
    BY <2>1, <2>2, FallbackLabels, LabelsAssumption DEF ModelOf
  <2>. QED  BY <2>2, <2>3 DEF SaysUnusable
<1>. QED  BY <1>1, <1>2, <1>3, <1>4

(* _fail_closed_envelope raises only then (gateway.py:767-774).            *)
LEMMA FailsClosedUnlessUnusable ==
    ASSUME NEW n, NEW source, ~ FailsClosed(n, source)
    PROVE  SaysUnusable(n, source)
<1>1. FailClosedEnvelope(n, source).form = FormOf({n, TaskOf(n, source), ModelOf(n, source)})
  BY DEF FailClosedEnvelope
<1>2. FailClosedEnvelope(n, source).form # "wellformed"
  BY DEF FailsClosed, EnvelopeFault, Fault, ValidForms
<1>. QED  BY <1>1, <1>2, UnusableForm

(* And the fallback receipt can be built otherwise (gateway.py:89-101).    *)
LEMMA FallbackReceiptUnlessUnusable ==
    ASSUME NEW n, NEW source, NEW reason,
           ~ ReceiptBuilds(FailClosedEnvelope(n, source), FailClosed(n, source, reason))
    PROVE  SaysUnusable(n, source)
<1>1. /\ FailClosedEnvelope(n, source).form = FormOf({n, TaskOf(n, source), ModelOf(n, source)})
      /\ FailClosed(n, source, reason).form = FormOf({n, TaskOf(n, source)})
  BY DEF FailClosedEnvelope, FailClosed
<1>2. \/ FailClosedEnvelope(n, source).form # "wellformed"
      \/ FailClosed(n, source, reason).form # "wellformed"
  BY DEF ReceiptBuilds, Hashable, EncodableForms
<1>. QED  BY <1>1, <1>2, UnusableForm

LEMMA FailClosedRejects ==
    ASSUME NEW n, NEW source, NEW reason
    PROVE  FailClosed(n, source, reason).accepted = FALSE
BY DEF FailClosed

-----------------------------------------------------------------------------
(* Leaving a block.                                                        *)

(* While a call runs there is no result, so there is nothing to show about *)
(* it.                                                                     *)
LEMMA RunningProperties ==
    ASSUME pc' \in Blocks
    PROVE  Properties'
BY DEF Properties, EvidenceOfOutput, AcceptedHasEvidence, AcceptedWasAllowed,
       RaisesOnlyOnUnusableText, Returned, Blocks

(* An exception leaves the gateway only over unusable text.                *)
LEMMA EscapeKeepsInv ==
    ASSUME Inv, pc \in Blocks, Escape, SaysUnusable(name, live.source)
    PROVE  Inv'
<1>1. /\ pc' = "idle" /\ result' = Raised
      /\ UNCHANGED <<adapters, manifests, method, name, live, manifest, judged>>
  BY DEF Escape, registry, call, locals
<1>2. TypeOK' /\ Filed'
  BY <1>1 DEF Inv, TypeOK, Filed
<1>3. Found' /\ Judged'
  BY <1>1 DEF Found, Judged, Blocks
<1>4. Properties'
  BY <1>1 DEF Properties, EvidenceOfOutput, AcceptedHasEvidence, AcceptedWasAllowed,
              RaisesOnlyOnUnusableText, Returned, UnusableText, SaysUnusable
<1>. QED  BY <1>2, <1>3, <1>4 DEF Inv

(* An output returned without evidence, by a method that promises none or  *)
(* in a refusal.                                                           *)
LEMMA ReturnKeepsInv ==
    ASSUME Inv, pc \in Blocks, NEW o, Return(o, None, None),
           UNCHANGED <<manifest, judged>>,
           o.accepted => /\ method \notin Proving
                         /\ method \in Judging => Allowed /\ o.adapter = name
    PROVE  Inv'
<1>1. /\ pc' = "idle"
      /\ result' = [output |-> o, receipt |-> None, handoff |-> None]
      /\ UNCHANGED <<adapters, manifests, method, name, live, manifest, judged>>
  BY DEF Return, registry, call
<1>2. TypeOK' /\ Filed'
  BY <1>1 DEF Inv, TypeOK, Filed
<1>3. Found' /\ Judged'
  BY <1>1 DEF Found, Judged, Blocks
<1>4. result'.output = o /\ result'.receipt = None
  BY <1>1
<1>5. Allowed => Allowed'
  BY <1>1 DEF Allowed
<1>6. EvidenceOfOutput' /\ AcceptedHasEvidence' /\ AcceptedWasAllowed'
  BY <1>1, <1>4, <1>5 DEF EvidenceOfOutput, AcceptedHasEvidence, AcceptedWasAllowed
<1>7. result' # Raised
  BY <1>1 DEF Raised
<1>8. RaisesOnlyOnUnusableText'
  BY <1>7 DEF RaisesOnlyOnUnusableText
<1>. QED  BY <1>2, <1>3, <1>6, <1>8 DEF Inv, Properties

(* The components of a call are settled.                                   *)
LEMMA SettleKeepsInv ==
    ASSUME Inv, pc \in Blocks \ {"get_manifest", "evidence"}, NEW e, NEW o, Settle(e, o),
           o.accepted /\ method \in Judging => Allowed /\ o.adapter = name
    PROVE  Inv'
<1>1. CASE method \notin Proving
  <2>1. Return(o, None, None) /\ UNCHANGED <<manifest, judged>>
    BY <1>1 DEF Settle
  <2>. QED  BY <1>1, <2>1, ReturnKeepsInv
<1>2. CASE method \in Proving
  <2>1. /\ pc' = "evidence" /\ output' = o
        /\ UNCHANGED <<adapters, manifests, method, name, live, manifest, judged, result>>
    BY <1>2 DEF Settle, registry, call
  <2>2. Found
    BY DEF Inv
  <2>3. manifest \in Manifests /\ manifest.adapter_id = name
    BY <1>2, <2>2 DEF Found, Proving, Blocks
  <2>4. TypeOK'
    BY <1>2, <2>1, <2>3, GovernedV1Assumption DEF Inv, TypeOK, Blocks
  <2>5. Filed' /\ Found'
    BY <2>1, <2>3 DEF Inv, Filed, Found
  <2>6. Allowed => Allowed'
    BY <2>1 DEF Allowed
  <2>7. Judged'
    BY <2>1, <2>6 DEF Judged
  <2>8. Properties'
    BY <2>1, RunningProperties DEF Blocks
  <2>. QED  BY <2>4, <2>5, <2>7, <2>8 DEF Inv
<1>. QED  BY <1>1, <1>2

LEMMA RejectKeepsInv ==
    ASSUME Inv, pc \in Blocks \ {"get_manifest", "evidence"}, NEW reason, Reject(reason)
    PROVE  Inv'
<1>1. CASE FailsClosed(name, live.source)
  <2>1. Settle(FailClosedEnvelope(name, live.source), FailClosed(name, live.source, reason))
    BY <1>1 DEF Reject
  <2>. QED  BY <2>1, FailClosedRejects, SettleKeepsInv
<1>2. CASE ~ FailsClosed(name, live.source)
  <2>1. Escape
    BY <1>2 DEF Reject
  <2>. QED  BY <1>2, <2>1, FailsClosedUnlessUnusable, EscapeKeepsInv
<1>. QED  BY <1>1, <1>2

(* Evidence is returned.                                                   *)
LEMMA ReturnEvidenceKeepsInv ==
    ASSUME Inv, pc = "evidence", NEW e, NEW o, EvidenceBuilds(e, o), ReturnEvidence(e, o),
           o.accepted /\ method \in Judging => Allowed /\ o.adapter = name
    PROVE  Inv'
<1>1. /\ pc' = "idle" /\ envelope' = e
      /\ UNCHANGED <<adapters, manifests, method, name, live, manifest, judged>>
  BY DEF ReturnEvidence, Return, registry, call
<1>2. /\ result'.output = o
      /\ result'.receipt = ReceiptFor(manifest, e, o)
      /\ result'.handoff = IF method = "governed" THEN HandoffFor(e, o) ELSE None
  BY DEF ReturnEvidence, Return
<1>3. result' # Raised
  BY DEF ReturnEvidence, Return, Raised
<1>4. method \in Proving /\ method # "process"
  BY DEF Inv, TypeOK, Proving
<1>5. manifest.adapter_id = name
  BY <1>4 DEF Inv, Found, Blocks
<1>6. result'.receipt = ReceiptFor([adapter_id |-> name], e, o)
  BY <1>2, <1>5 DEF ReceiptFor
<1>7. TypeOK' /\ Filed'
  BY <1>1 DEF Inv, TypeOK, Filed
<1>8. Found' /\ Judged'
  BY <1>1 DEF Found, Judged, Blocks
<1>9. Hashable(e) /\ Hashable(o)
  BY DEF EvidenceBuilds, ReceiptBuilds
<1>10. EvidenceOfOutput'
  BY <1>1, <1>2, <1>4, <1>6, <1>9 DEF EvidenceOfOutput, Hashable
<1>11. AcceptedHasEvidence'
  BY <1>1, <1>2, <1>6 DEF AcceptedHasEvidence
<1>12. Allowed => Allowed'
  BY <1>1 DEF Allowed
<1>13. AcceptedWasAllowed'
  BY <1>1, <1>2, <1>12 DEF AcceptedWasAllowed
<1>14. RaisesOnlyOnUnusableText'
  BY <1>3 DEF RaisesOnlyOnUnusableText
<1>. QED  BY <1>7, <1>8, <1>10, <1>11, <1>13, <1>14 DEF Inv, Properties

-----------------------------------------------------------------------------
(* One lemma per block.                                                    *)

LEMMA CallKeepsInv ==
    ASSUME Inv, NEW m \in Methods, NEW n \in Names \cup {NoLabel}, NEW s \in Sources,
           NEW p \in PolicyPacks, Call(m, n, s, p)
    PROVE  Inv'
<1>1. /\ pc' = IF m = "process" THEN "get_adapter" ELSE "get_manifest"
      /\ method' = m /\ name' = n /\ live' = [source |-> s, pack |-> p]
      /\ manifest' = None /\ result' = None
      /\ UNCHANGED <<adapters, manifests>>
  BY DEF Call, registry
<1>2. live' \in [source : Sources, pack : PolicyPacks] /\ live' # None
  BY <1>1, GovernedV1Assumption
<1>3. TypeOK' /\ Filed'
  BY <1>1, <1>2 DEF Inv, TypeOK, Filed, Blocks
<1>4. Found' /\ Judged'
  BY <1>1 DEF Found, Judged, Blocks
<1>5. Properties'
  BY <1>1, RunningProperties DEF Blocks
<1>. QED  BY <1>3, <1>4, <1>5 DEF Inv

LEMMA GetManifestKeepsInv ==
    ASSUME Inv, GetManifest
    PROVE  Inv'
<1>. DEFINE fault == Registry!GetManifestFault(name)
<1>1. pc = "get_manifest" /\ pc \in Blocks
  BY DEF GetManifest, Blocks
<1>2. CASE fault = "none"
  <2>1. /\ manifest' = manifests[name] /\ pc' = "get_adapter"
        /\ UNCHANGED <<adapters, manifests, method, name, live, judged, result>>
    BY <1>2 DEF GetManifest, registry, call
  <2>2. name \in Names /\ manifests[name] # None
    BY <1>2 DEF Registry!GetManifestFault, Registry!GetFault
  <2>3. manifest' \in Manifests /\ manifest'.adapter_id = name
    BY <2>1, <2>2 DEF Inv, TypeOK, Filed
  <2>4. TypeOK' /\ Filed'
    BY <1>1, <2>1, <2>3 DEF Inv, TypeOK, Filed, Blocks
  <2>5. Found' /\ Judged'
    BY <2>1, <2>3 DEF Found, Judged, Blocks
  <2>6. Properties'
    BY <2>1, RunningProperties DEF Blocks
  <2>. QED  BY <2>4, <2>5, <2>6 DEF Inv
<1>3. CASE fault = "SCHEMA_VIOLATION"
  <2>1. Escape
    BY <1>3 DEF GetManifest
  <2>2. name \notin Names
    BY <1>3 DEF Registry!GetManifestFault, Registry!GetFault
  <2>3. SaysUnusable(name, live.source)
    BY <2>2, LabelsAssumption DEF Inv, TypeOK, SaysUnusable
  <2>. QED  BY <1>1, <2>1, <2>3, EscapeKeepsInv
<1>4. CASE fault \notin {"none", "SCHEMA_VIOLATION"}
  <2>1. /\ Return(FailClosed(name, live.source, fault), None, None)
        /\ UNCHANGED <<manifest, judged>>
    BY <1>4 DEF GetManifest, locals
  <2>. QED  BY <1>1, <2>1, FailClosedRejects, ReturnKeepsInv
<1>. QED  BY <1>2, <1>3, <1>4

LEMMA GetAdapterKeepsInv ==
    ASSUME Inv, GetAdapter
    PROVE  Inv'
<1>. DEFINE fault == Registry!GetFault(name)
<1>1. pc = "get_adapter" /\ pc \in Blocks
  BY DEF GetAdapter, Blocks
<1>2. CASE fault = "none"
  <2>1. /\ pc' = "build_envelope"
        /\ UNCHANGED <<adapters, manifests, method, name, live, manifest, judged, result>>
    BY <1>2 DEF GetAdapter, registry, call, locals
  <2>2. TypeOK' /\ Filed'
    BY <1>1, <2>1 DEF Inv, TypeOK, Filed, Blocks
  <2>3. Found' /\ Judged'
    BY <1>1, <2>1 DEF Inv, Found, Judged, Blocks
  <2>4. Properties'
    BY <2>1, RunningProperties DEF Blocks
  <2>. QED  BY <2>2, <2>3, <2>4 DEF Inv
<1>3. CASE fault = "SCHEMA_VIOLATION"
  <2>1. Escape
    BY <1>3 DEF GetAdapter
  <2>2. name \notin Names
    BY <1>3 DEF Registry!GetFault
  <2>3. SaysUnusable(name, live.source)
    BY <2>2, LabelsAssumption DEF Inv, TypeOK, SaysUnusable
  <2>. QED  BY <1>1, <2>1, <2>3, EscapeKeepsInv
<1>4. CASE fault \notin {"none", "SCHEMA_VIOLATION"}
  <2>1. Reject(fault)
    BY <1>4 DEF GetAdapter
  <2>. QED  BY <1>1, <2>1, RejectKeepsInv
<1>. QED  BY <1>2, <1>3, <1>4

(* An envelope that passes the checks of a policy method names this        *)
(* adapter and is allowed by a valid pack (gateway.py:603-626).            *)
LEMMA CheckedIsAllowed ==
    ASSUME NEW e, method \in Judging, EnvelopeChecks(e) = NoError
    PROVE  /\ e.adapter = name
           /\ live.pack.form \in ValidForms
           /\ PolicyReason(live.pack, name, e) = Accepted
<1>1. EnvelopeAlignmentFault(e) = NoError /\ EnforceFault(e) = NoError
  BY DEF EnvelopeChecks, Judging
<1>2. e.adapter = name
  BY <1>1 DEF EnvelopeAlignmentFault, Raise, NoError
<1>3. PolicyFault(live.pack, name, e) = NoError
  BY <1>1 DEF EnforceFault, Raise, NoError
<1>4. PolicyPackFault(live.pack) = NoError /\ PolicyReason(live.pack, name, e) = Accepted
  BY <1>3 DEF PolicyFault, Raise, NoError
<1>5. live.pack.form \in ValidForms
  BY <1>4 DEF PolicyPackFault, Fault, Raise, NoError
<1>. QED  BY <1>2, <1>4, <1>5

LEMMA BuildEnvelopeKeepsInv ==
    ASSUME Inv, NEW e \in RawEnvelopes, BuildEnvelopeReturns(e)
    PROVE  Inv'
<1>1. pc = "build_envelope" /\ pc \in Blocks
  BY DEF BuildEnvelopeReturns, Blocks
<1>2. CASE EnvelopeChecks(e) # NoError
  <2>1. Reject(ReasonOf(EnvelopeChecks(e), Clauses))
    BY <1>2 DEF BuildEnvelopeReturns
  <2>. QED  BY <1>1, <2>1, RejectKeepsInv
<1>3. CASE EnvelopeChecks(e) = NoError
  <2>1. /\ pc' = "build_output"
        /\ judged' = IF method \in Judging THEN [pack |-> live.pack, envelope |-> e] ELSE None
        /\ UNCHANGED <<adapters, manifests, method, name, live, manifest, result>>
    BY <1>3 DEF BuildEnvelopeReturns, registry, call
  <2>2. TypeOK' /\ Filed'
    BY <1>1, <2>1 DEF Inv, TypeOK, Filed, Blocks
  <2>3. Found'
    BY <1>1, <2>1 DEF Inv, Found, Blocks
  <2>4. ASSUME method \in Judging PROVE Allowed'
    <3>1. /\ e.adapter = name
          /\ live.pack.form \in ValidForms
          /\ PolicyReason(live.pack, name, e) = Accepted
      BY <1>3, <2>4, CheckedIsAllowed
    <3>2. live \in [source : Sources, pack : PolicyPacks]
      BY <1>1 DEF Inv, TypeOK
    <3>3. live.pack \in PolicyPacks
      BY <3>2
    <3>4. judged' = [pack |-> live.pack, envelope |-> e] /\ name' = name
      BY <2>1, <2>4
    <3>. QED  BY <3>1, <3>3, <3>4 DEF Allowed, PolicyReason
  <2>5. Judged'
    BY <2>1, <2>4 DEF Judged
  <2>6. Properties'
    BY <2>1, RunningProperties DEF Blocks
  <2>. QED  BY <2>2, <2>3, <2>5, <2>6 DEF Inv
<1>. QED  BY <1>2, <1>3

LEMMA BuildOutputKeepsInv ==
    ASSUME Inv, NEW o \in RawOutputs, BuildOutputReturns(o)
    PROVE  Inv'
<1>1. pc = "build_output" /\ pc \in Blocks \ {"get_manifest", "evidence"}
  BY DEF BuildOutputReturns, Blocks
<1>2. CASE OutputChecks(o) # NoError
  <2>1. Reject(ReasonOf(OutputChecks(o), Clauses))
    BY <1>2 DEF BuildOutputReturns
  <2>. QED  BY <1>1, <2>1, RejectKeepsInv
<1>3. CASE OutputChecks(o) = NoError
  <2>1. Settle(envelope, o)
    BY <1>3 DEF BuildOutputReturns
  <2>2. ASSUME method \in Judging PROVE Allowed /\ o.adapter = name
    <3>1. Allowed
      BY <1>1, <2>2 DEF Inv, Judged
    <3>2. manifest.adapter_id = name
      BY <1>1, <2>2 DEF Inv, Found, Judging
    <3>3. OutputAlignmentFault(o) = NoError
      BY <1>3, <2>2 DEF OutputChecks, Judging
    <3>4. o.adapter = manifest.adapter_id
      BY <3>3 DEF OutputAlignmentFault, Raise, NoError
    <3>. QED  BY <3>1, <3>2, <3>4
  <2>. QED  BY <1>1, <2>1, <2>2, SettleKeepsInv
<1>. QED  BY <1>2, <1>3

LEMMA RaiseKeepsInv ==
    ASSUME Inv, NEW err \in CallbackErrors, CallbackRaises(err)
    PROVE  Inv'
<1>1. pc \in Blocks \ {"get_manifest", "evidence"}
  BY DEF CallbackRaises, Callbacks, Blocks
<1>2. Reject(ReasonOf(err, Clauses))
  BY DEF CallbackRaises
<1>. QED  BY <1>1, <1>2, RejectKeepsInv

(* Whatever fails while evidence is built ends in evidence for the         *)
(* fail-closed artifacts, in a refusal, or over unusable text.             *)
LEMMA BuildEvidenceKeepsInv ==
    ASSUME Inv, BuildEvidence
    PROVE  Inv'
<1>. DEFINE fe == FailClosedEnvelope(name, live.source)
            fo == FailClosed(name, live.source, "INTERNAL_ERROR")
<1>1. pc = "evidence" /\ pc \in Blocks
  BY DEF BuildEvidence, Blocks
<1>2. CASE EvidenceBuilds(envelope, output)
  <2>1. ReturnEvidence(envelope, output)
    BY <1>2 DEF BuildEvidence
  <2>2. output.accepted /\ method \in Judging => Allowed /\ output.adapter = name
    BY <1>1 DEF Inv, Judged
  <2>. QED  BY <1>1, <1>2, <2>1, <2>2, ReturnEvidenceKeepsInv
<1>3. CASE ~ EvidenceBuilds(envelope, output) /\ ~ FailsClosed(name, live.source)
  <2>1. Escape
    BY <1>3 DEF BuildEvidence, FallBack
  <2>. QED  BY <1>1, <1>3, <2>1, FailsClosedUnlessUnusable, EscapeKeepsInv
<1>4. CASE ~ EvidenceBuilds(envelope, output) /\ FailsClosed(name, live.source)
  <2>1. CASE EvidenceBuilds(fe, fo)
    <3>1. ReturnEvidence(fe, fo)
      BY <1>4, <2>1 DEF BuildEvidence, FallBack
    <3>2. fo.accepted = FALSE
      BY FailClosedRejects
    <3>. HIDE DEF fe, fo
    <3>. QED  BY <1>1, <2>1, <3>1, <3>2, ReturnEvidenceKeepsInv
  <2>2. CASE ~ EvidenceBuilds(fe, fo) /\ method = "governed"
    <3>1. Return(fo, None, None) /\ UNCHANGED <<manifest, judged>>
      BY <1>4, <2>2 DEF BuildEvidence, FallBack, locals
    <3>2. fo.accepted = FALSE
      BY FailClosedRejects
    <3>. HIDE DEF fo
    <3>. QED  BY <1>1, <3>1, <3>2, ReturnKeepsInv
  <2>3. CASE ~ EvidenceBuilds(fe, fo) /\ method # "governed"
    <3>1. Escape
      BY <1>4, <2>3 DEF BuildEvidence, FallBack
    <3>2. ~ ReceiptBuilds(fe, fo)
      BY <2>3 DEF EvidenceBuilds
    <3>3. SaysUnusable(name, live.source)
      BY <3>2, FallbackReceiptUnlessUnusable
    <3>. QED  BY <1>1, <3>1, <3>3, EscapeKeepsInv
  <2>. QED  BY <2>1, <2>2, <2>3
<1>. QED  BY <1>2, <1>3, <1>4

(* Foreign code writes the caller's objects and the envelope; what was     *)
(* judged stays as it was.                                                 *)
LEMMA RewriteKeepsInv ==
    ASSUME Inv,
           \/ \E p \in PolicyPacks, s \in Sources : RewriteSource(p, s)
           \/ \E e \in RawEnvelopes : RewriteEnvelope(e)
    PROVE  Inv'
<1>1. /\ pc \in Callbacks /\ pc' = pc
      /\ UNCHANGED <<adapters, manifests, method, name, manifest, output, judged, result>>
      /\ live' \in [source : Sources, pack : PolicyPacks] \/ live' = live
  <2>1. CASE \E p \in PolicyPacks, s \in Sources : RewriteSource(p, s)
    BY <2>1 DEF RewriteSource, registry, call, locals
  <2>2. CASE \E e \in RawEnvelopes : RewriteEnvelope(e)
    BY <2>2 DEF RewriteEnvelope, registry, call, Callbacks
  <2>. QED  BY <2>1, <2>2
<1>2. TypeOK'
  BY <1>1, GovernedV1Assumption DEF Inv, TypeOK, Callbacks
<1>3. Filed' /\ Found'
  BY <1>1 DEF Inv, Filed, Found
<1>4. Allowed => Allowed'
  BY <1>1 DEF Allowed
<1>5. Judged'
  BY <1>1, <1>4 DEF Inv, Judged
<1>6. Properties'
  BY <1>1, RunningProperties DEF Callbacks, Blocks
<1>. QED  BY <1>2, <1>3, <1>5, <1>6 DEF Inv

(* A registration files its manifest under the manifest's own name         *)
(* (registry.py:45-51).                                                    *)
LEMMA RegistrationKeepsInv ==
    ASSUME Inv, NEW n \in Names, NEW a \in Adapters, NEW m \in Manifests \cup {BadManifest, None},
           CompleteRegistration(n, a, m)
    PROVE  Inv'
<1>1. /\ UNCHANGED <<pc, method, name, live, manifest, envelope, output, judged, result>>
      /\ \/ UNCHANGED <<adapters, manifests>>
         \/ /\ adapters' = [adapters EXCEPT ![n] = a]
            /\ \/ manifests' = manifests
               \/ /\ m \in Manifests /\ m.adapter_id = n
                  /\ manifests' = [manifests EXCEPT ![n] = m]
  BY DEF CompleteRegistration, Registry!CommitOrRaise, Registry!WriteUnless,
         Registry!RaiseFrom, call, locals
<1>2. TypeOK'
  BY <1>1 DEF Inv, TypeOK
<1>3. Filed'
  BY <1>1 DEF Inv, TypeOK, Filed
<1>4. Found'
  BY <1>1 DEF Inv, Found
<1>5. Judged'
  BY <1>1 DEF Inv, Judged, Allowed
<1>6. Properties'
  BY <1>1 DEF Inv, Properties, EvidenceOfOutput, AcceptedHasEvidence, AcceptedWasAllowed,
              Allowed, RaisesOnlyOnUnusableText, UnusableText, Returned
<1>. QED  BY <1>2, <1>3, <1>4, <1>5, <1>6 DEF Inv

-----------------------------------------------------------------------------
(* The theorems.                                                           *)

LEMMA InitInv == Init => Inv
<1> SUFFICES ASSUME Init PROVE Inv
  OBVIOUS
<1>1. TypeOK /\ Filed
  BY DEF Init, TypeOK, Filed, Methods
<1>2. RaisesOnlyOnUnusableText
  BY LabelsAssumption DEF Init, RaisesOnlyOnUnusableText, UnusableText
<1>. QED  BY <1>1, <1>2
  DEF Init, Inv, Found, Judged, Blocks, Properties, EvidenceOfOutput, AcceptedHasEvidence,
      AcceptedWasAllowed, Returned

LEMMA NextInv == Inv /\ [Next]_vars => Inv'
<1> SUFFICES ASSUME Inv, [Next]_vars PROVE Inv'
  OBVIOUS
<1>1. CASE CallAny
  BY <1>1, CallKeepsInv DEF CallAny
<1>2. CASE GetManifest
  BY <1>2, GetManifestKeepsInv
<1>3. CASE GetAdapter
  BY <1>3, GetAdapterKeepsInv
<1>4. CASE \E e \in RawEnvelopes : BuildEnvelopeReturns(e)
  BY <1>4, BuildEnvelopeKeepsInv
<1>5. CASE \E o \in RawOutputs : BuildOutputReturns(o)
  BY <1>5, BuildOutputKeepsInv
<1>6. CASE \E err \in CallbackErrors : CallbackRaises(err)
  BY <1>6, RaiseKeepsInv
<1>7. CASE BuildEvidence
  BY <1>7, BuildEvidenceKeepsInv
<1>8. CASE ForeignStep
  BY <1>8, RewriteKeepsInv, RegistrationKeepsInv DEF ForeignStep
<1>9. CASE UNCHANGED vars
  <2>1. UNCHANGED <<adapters, manifests, pc, method, name, live, manifest, envelope,
                    output, judged, result>>
    BY <1>9 DEF vars, registry, call, locals
  <2>. QED  BY <2>1
    DEF Inv, TypeOK, Filed, Found, Judged, Allowed, Properties, EvidenceOfOutput,
        AcceptedHasEvidence, AcceptedWasAllowed, RaisesOnlyOnUnusableText, UnusableText,
        Returned
<1>. QED  BY <1>1, <1>2, <1>3, <1>4, <1>5, <1>6, <1>7, <1>8, <1>9 DEF Next, GatewayStep

LEMMA InvHolds == Spec => []Inv
<1>. QED  BY InitInv, NextInv, PTL DEF Spec

(* Every reachable state of a V1 call is well typed: its locals hold what  *)
(* their blocks may leave there (gateway.py:29-177).                       *)
THEOREM TypeCorrect == Spec => []TypeOK
<1>1. Inv => TypeOK
  BY DEF Inv
<1>. QED  BY InvHolds, <1>1, PTL

(* Receipt and handoff of a V1 result are those of the output they are     *)
(* returned with, and of one envelope, the adapter's or the fallback's     *)
(* (gateway.py:82-101, 132-177).                                           *)
THEOREM EvidenceOfOutputHolds == Spec => []EvidenceOfOutput
<1>1. Inv => EvidenceOfOutput
  BY DEF Inv, Properties
<1>. QED  BY InvHolds, <1>1, PTL

(* process_with_receipt and process_governed accept nothing without a      *)
(* receipt for it (gateway.py:82-101, 132-177).                            *)
THEOREM AcceptedHasEvidenceHolds == Spec => []AcceptedHasEvidence
<1>1. Inv => AcceptedHasEvidence
  BY DEF Inv, Properties
<1>. QED  BY InvHolds, <1>1, PTL

(* process_with_policy and process_governed accept only what a valid pack  *)
(* allowed when it was evaluated, whatever foreign code writes afterwards  *)
(* (gateway.py:603-626).                                                   *)
THEOREM AcceptedWasAllowedHolds == Spec => []AcceptedWasAllowed
<1>1. Inv => AcceptedWasAllowed
  BY DEF Inv, Properties
<1>. QED  BY InvHolds, <1>1, PTL

(* A V1 call raises only for an unusable name or unusable text in the      *)
(* source, whatever the adapter returns or raises                          *)
(* (gateway.py:423-679, 749-774).                                          *)
THEOREM RaisesOnlyOnUnusableTextHolds == Spec => []RaisesOnlyOnUnusableText
<1>1. Inv => RaisesOnlyOnUnusableText
  BY DEF Inv, Properties
<1>. QED  BY InvHolds, <1>1, PTL
=============================================================================
