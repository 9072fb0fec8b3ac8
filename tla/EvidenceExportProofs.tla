------------------------ MODULE EvidenceExportProofs ------------------------
(***************************************************************************)
(* Proofs about EvidenceExport, for every set of requests, envelopes,      *)
(* outputs, slots and edits, and whatever artifacts weigh.                 *)
(*                                                                         *)
(* The invariant is TypeOK, which says that what the caller keeps is the   *)
(* evidence of one output for one envelope.  The three properties of       *)
(* exported evidence follow in the state an export leads to, and stay,     *)
(* because nothing but Discard happens before the next one.                *)
(***************************************************************************)
EXTENDS EvidenceExport, TLAPS

(* Hashes are equal only if what they are of is.                           *)
LEMMA HashesAreInjective ==
    ASSUME NEW x, NEW y, Sha256(x) = Sha256(y)
    PROVE  x = y
BY DEF Sha256

(* The evidence of an output for an envelope is determined by the two      *)
(* hashes in it, but for the adapter id of the receipt.                    *)
LEMMA HashesDetermineHandoff ==
    ASSUME NEW e1, NEW o1, NEW e2, NEW o2,
           ReceiptFor([adapter_id |-> o1.adapter], e1, o1).envelope_hash
              = HandoffFor(e2, o2).envelope_hash,
           ReceiptFor([adapter_id |-> o1.adapter], e1, o1).output_hash
              = HandoffFor(e2, o2).output_hash
    PROVE  HandoffFor(e1, o1) = HandoffFor(e2, o2)
<1>1. Sha256(e1) = Sha256(e2) /\ Sha256(o1) = Sha256(o2)
  BY DEF ReceiptFor, HandoffFor
<1>2. e1 = e2 /\ o1 = o2
  BY <1>1, HashesAreInjective
<1>. QED  BY <1>2

-----------------------------------------------------------------------------
(* What the caller keeps.                                                  *)

IsEvidence(r) ==
    \/ /\ r.receipt = None /\ r.handoff = None
       /\ r.policy_binding \in {None, Absent}
    \/ \E e \in Envelopes :
          \E o \in Outputs \cup {Gateway!Denial(e, r.receipt.reason_id)} : EvidenceOf(r, e, o)

(* The artifacts of the abstract gateway are those of this module.         *)
LEMMA EvidenceFields ==
    ASSUME NEW p, NEW a, NEW e, NEW o
    PROVE  /\ Gateway!Evidence(p, a, e, o).output = o
           /\ Gateway!Evidence(p, a, e, o).receipt = ReceiptFor([adapter_id |-> a], e, o)
           /\ Gateway!Evidence(p, a, e, o).handoff = HandoffFor(e, o)
           /\ Gateway!Evidence(p, a, e, o).policy_binding.receipt_hash
                 = Sha256(ReceiptFor([adapter_id |-> a], e, o))
           /\ Gateway!Evidence(p, a, e, o).policy_binding.handoff_hash
                 = Sha256(HandoffFor(e, o))
<1>1. Gateway!ReceiptFor([adapter_id |-> a], e, o) = ReceiptFor([adapter_id |-> a], e, o)
  BY DEF Gateway!ReceiptFor, ReceiptFor, Gateway!Sha256, Sha256, Gateway!Decision, Decision,
         Gateway!DeterminismProfile, DeterminismProfile
<1>2. Gateway!HandoffFor(e, o) = HandoffFor(e, o)
  BY DEF Gateway!HandoffFor, HandoffFor, Gateway!Sha256, Sha256, Gateway!Decision, Decision
<1>. QED  BY <1>1, <1>2 DEF Gateway!Evidence, Gateway!BindingFor, Gateway!Sha256, Sha256

LEMMA AnswersAreEvidence ==
    ASSUME NEW s \in Slots, BoundCallReturns(s)
    PROVE  IsEvidence(answer')
<1>1. CASE Gateway!Refuse
  BY <1>1 DEF Gateway!Refuse, Gateway!Unbound, IsEvidence
<1>2. ASSUME NEW e \in Envelopes, Gateway!Deny(e)
      PROVE  IsEvidence(answer')
  <2> DEFINE reason == Gateway!PolicyReason(request.pack, request.name, e)
             o      == Gateway!Denial(e, reason)
  <2>1. answer' = Gateway!Evidence(request.pack, o.adapter, e, o)
    BY <1>2 DEF Gateway!Deny, Gateway!Denial
  <2> HIDE DEF reason
  <2>2. o.reason_id = reason
    BY DEF Gateway!Denial
  <2>3. EvidenceOf(answer', e, o) /\ answer'.receipt.reason_id = o.reason_id
    <3> HIDE DEF o
    <3>1. answer'.receipt = ReceiptFor([adapter_id |-> o.adapter], e, o)
      BY <2>1, EvidenceFields
    <3>2. answer'.receipt.reason_id = o.reason_id
      BY <3>1 DEF ReceiptFor
    <3>. QED  BY <2>1, <3>2, EvidenceFields DEF EvidenceOf
  <2>. QED  BY <2>2, <2>3 DEF IsEvidence
<1>3. ASSUME NEW e \in Envelopes, NEW o \in Outputs, Gateway!Decide(e, o)
      PROVE  IsEvidence(answer')
  <2>1. answer' = Gateway!Evidence(request.pack, o.adapter, e, o)
    BY <1>3 DEF Gateway!Decide
  <2>2. EvidenceOf(answer', e, o)
    BY <2>1, EvidenceFields DEF EvidenceOf
  <2>. QED  BY <2>2 DEF IsEvidence
<1>. QED  BY <1>1, <1>2, <1>3 DEF BoundCallReturns

LEMMA V1ResultsAreEvidence ==
    ASSUME NEW e \in Envelopes, NEW o \in Outputs \cup Refusals, NEW proved \in BOOLEAN,
           proved => o \in Outputs
    PROVE  IsEvidence(V1Result(e, o, proved))
<1>1. CASE proved
  <2>1. EvidenceOf(V1Result(e, o, proved), e, o)
    BY <1>1 DEF V1Result, EvidenceOf
  <2>. QED  BY <2>1, <1>1 DEF IsEvidence
<1>2. CASE ~ proved
  BY <1>2 DEF V1Result, IsEvidence
<1>. QED  BY <1>1, <1>2

(* The steps that change what is kept file one result that is evidence.    *)
LEMMA KeptIsEvidence ==
    ASSUME NEW s \in Slots, NEW r, IsEvidence(r), DOMAIN held = Slots,
           \A k \in Kept : IsEvidence(k), held' = [held EXCEPT ![s] = r]
    PROVE  DOMAIN held' = Slots /\ \A k \in Kept' : IsEvidence(k)
<1>1. DOMAIN held' = Slots
  OBVIOUS
<1>2. ASSUME NEW x \in Slots PROVE held'[x] \in {r, held[x]}
  OBVIOUS
<1>. QED  BY <1>1, <1>2 DEF Kept

-----------------------------------------------------------------------------
(* What every step does, as far as the proofs need it.                     *)

LEMMA StepKinds ==
    ASSUME TypeOK, Next
    PROVE  \/ /\ export = None /\ export' = None
              /\ request' \in Requests \cup {None}
              /\ \/ held' = held
                 \/ \E s \in Slots : \E r : IsEvidence(r) /\ held' = [held EXCEPT ![s] = r]
           \/ /\ export # None /\ export' = None
              /\ request' = request /\ held' = held
           \/ /\ export = None /\ request = None /\ request' = None /\ held' = held
              /\ \E exporter \in Exporters, expected \in Contexts :
                    \/ \E from \in [Takes(exporter) -> Slots] : ExportParts(exporter, from, expected)
                    \/ \E s \in Slots, edit \in Edits : ExportAltered(exporter, s, edit, expected)
<1> USE DEF caller
<1>1. CASE Ask
  BY <1>1 DEF Ask, Gateway!Ask
<1>2. ASSUME NEW s \in Slots, BoundCallReturns(s)
      PROVE  /\ export = None /\ export' = None
             /\ request' = None
             /\ \E r : IsEvidence(r) /\ held' = [held EXCEPT ![s] = r]
  <2>1. request # None /\ request' = None
    BY <1>2 DEF BoundCallReturns, Gateway!Refuse, Gateway!Deny, Gateway!Decide
  <2>2. export = None /\ export' = None
    BY <1>2, <2>1 DEF TypeOK, BoundCallReturns
  <2>3. IsEvidence(answer')
    BY <1>2, AnswersAreEvidence
  <2>. QED  BY <1>2, <2>1, <2>2, <2>3 DEF BoundCallReturns
<1>3. ASSUME NEW s \in Slots, NEW e \in Envelopes, NEW o \in Outputs \cup Refusals,
             NEW proved \in BOOLEAN, V1CallReturns(s, e, o, proved)
      PROVE  /\ export = None /\ export' = None
             /\ request' \in Requests \cup {None}
             /\ \E r : IsEvidence(r) /\ held' = [held EXCEPT ![s] = r]
  BY <1>3, V1ResultsAreEvidence DEF V1CallReturns
<1>4. ASSUME NEW s \in Slots, NEW o \in Outputs, RewriteReturnedOutput(s, o)
      PROVE  /\ export = None /\ export' = None
             /\ request' \in Requests \cup {None}
             /\ \E r : IsEvidence(r) /\ held' = [held EXCEPT ![s] = r]
  <2> DEFINE r == [held[s] EXCEPT !.output = o]
  <2>1. held[s] # None /\ held[s].policy_binding = Absent /\ held' = [held EXCEPT ![s] = r]
    BY <1>4 DEF RewriteReturnedOutput
  <2>2. IsEvidence(held[s])
    BY <2>1 DEF TypeOK, Kept, IsEvidence
  <2>3. /\ r.receipt = held[s].receipt /\ r.handoff = held[s].handoff
        /\ r.policy_binding = held[s].policy_binding
    OBVIOUS
  <2>4. IsEvidence(r)
    BY <2>1, <2>2, <2>3 DEF IsEvidence, EvidenceOf
  <2>. QED  BY <1>4, <2>1, <2>4 DEF RewriteReturnedOutput, TypeOK
<1>5. ASSUME NEW exporter \in Exporters, NEW expected \in Contexts,
             \/ \E from \in [Takes(exporter) -> Slots] : ExportParts(exporter, from, expected)
             \/ \E s \in Slots, edit \in Edits : ExportAltered(exporter, s, edit, expected)
      PROVE  export = None /\ request = None /\ request' = None /\ held' = held
  BY <1>5 DEF ExportParts, ExportAltered, Export
<1>6. CASE Discard
  BY <1>6 DEF Discard
<1>. QED  BY <1>1, <1>2, <1>3, <1>4, <1>5, <1>6 DEF Next

LEMMA TypeStep ==
    ASSUME TypeOK, [Next]_vars
    PROVE  TypeOK'
<1>1. CASE UNCHANGED vars
  BY <1>1, ZenonT(60) DEF vars, caller, TypeOK, Kept, EvidenceOf
<1>2. CASE Next
  <2>1. \A k \in Kept : IsEvidence(k)
    BY DEF TypeOK, IsEvidence
  <2>2. /\ request' \in Requests \cup {None}
        /\ request' # None => export' = None
    BY <1>2, StepKinds DEF TypeOK
  <2>3. DOMAIN held' = Slots /\ \A k \in Kept' : IsEvidence(k)
    <3>1. CASE held' = held
      BY <3>1, <2>1 DEF TypeOK, Kept
    <3>2. CASE \E s \in Slots : \E r : IsEvidence(r) /\ held' = [held EXCEPT ![s] = r]
      BY <3>2, <2>1, KeptIsEvidence DEF TypeOK
    <3>. QED  BY <1>2, <3>1, <3>2, StepKinds
  <2>. QED  BY <2>2, <2>3 DEF TypeOK, IsEvidence, EvidenceOf
<1>. QED  BY <1>1, <1>2

(* TypeOK (gateway.py:132-177, 253-282).                                   *)
THEOREM TypeCorrect == Spec => []TypeOK
<1>1. Init => TypeOK
  BY DEF Init, Gateway!Init, TypeOK, Kept
<1>. QED  BY <1>1, TypeStep, PTL DEF Spec

-----------------------------------------------------------------------------
(* What an exporter that refuses nothing has found.                        *)

LEMMA V2Finds ==
    ASSUME NEW b, NEW x, V2Fault(b, x) = "none"
    PROVE  /\ ~ Missing(b.receipt) /\ ~ Missing(b.handoff) /\ ~ Missing(b.policy_binding)
           /\ b.handoff.context_hash = x
           /\ b.handoff.context_hash = b.handoff.envelope_hash
           /\ ReceiptMatchesHandoff(b.handoff, b.receipt)
           /\ b.policy_binding.receipt_hash = Sha256(b.receipt)
           /\ b.policy_binding.handoff_hash = Sha256(b.handoff)
BY DEF V2Fault

LEMMA OutputFaultsAreNamed ==
    ASSUME NEW o, OutputFault(o) # NoError
    PROVE  OutputFault(o).message # "none"
BY DEF OutputFault, Fault, NoError, Raise, Opaque

LEMMA ResultV2Finds ==
    ASSUME NEW b, NEW x, ResultV2Fault(b, x) = "none"
    PROVE  V2Fault(b, x) = "none" /\ OutputMatchesEvidence(b.output, b.handoff, b.receipt)
BY OutputFaultsAreNamed DEF ResultV2Fault

LEMMA V1Finds ==
    ASSUME NEW b, NEW x, V1Fault(b, x) = "none"
    PROVE  /\ ~ Missing(b.receipt) /\ ~ Missing(b.handoff)
           /\ ReceiptMatchesHandoff(b.handoff, b.receipt)
BY DEF V1Fault

LEMMA ResultV1Finds ==
    ASSUME NEW b, NEW x, ResultV1Fault(b, x) = "none"
    PROVE  V1Fault(b, x) = "none"
BY DEF ResultV1Fault

-----------------------------------------------------------------------------
(* Exports.                                                                *)

(* What the last exporter said is its verdict on what it was handed.       *)
SaidOfBundle ==
    export # None =>
        /\ export.by \in Exporters
        /\ export.fault = FaultOf(export.by, bundle, export.expected)

Handed ==
    \E exporter \in Exporters, expected \in Contexts :
        \/ \E from \in [Takes(exporter) -> Slots] : ExportParts(exporter, from, expected)
        \/ \E s \in Slots, edit \in Edits : ExportAltered(exporter, s, edit, expected)

LEMMA HandedBundle ==
    ASSUME Handed
    PROVE  \E exporter \in Exporters : \E b, expected :
              /\ bundle' = b
              /\ export' = [by |-> exporter, expected |-> expected,
                            fault |-> FaultOf(exporter, b, expected)]
<1>1. PICK exporter \in Exporters, expected \in Contexts :
        \/ \E from \in [Takes(exporter) -> Slots] : ExportParts(exporter, from, expected)
        \/ \E s \in Slots, edit \in Edits : ExportAltered(exporter, s, edit, expected)
  BY DEF Handed
<1>2. \E b : Export(exporter, b, expected)
  BY <1>1 DEF ExportParts, ExportAltered
<1>3. PICK b : Export(exporter, b, expected)
  BY <1>2
<1>4. /\ bundle' = b
      /\ export' = [by |-> exporter, expected |-> expected,
                    fault |-> FaultOf(exporter, b, expected)]
  BY <1>3 DEF Export
<1>. QED  BY <1>4

LEMMA HandedSaid ==
    ASSUME Handed
    PROVE  SaidOfBundle'
<1>0. PICK exporter \in Exporters :
        \E b, expected :
          /\ bundle' = b
          /\ export' = [by |-> exporter, expected |-> expected,
                        fault |-> FaultOf(exporter, b, expected)]
  BY HandedBundle
<1>1. PICK b, expected :
        /\ bundle' = b
        /\ export' = [by |-> exporter, expected |-> expected,
                      fault |-> FaultOf(exporter, b, expected)]
  BY <1>0
<1>2. export'.by = exporter /\ export'.expected = expected
      /\ export'.fault = FaultOf(exporter, b, expected)
  BY <1>1
<1>. QED  BY <1>1, <1>2 DEF SaidOfBundle

LEMMA V2Said ==
    ASSUME SaidOfBundle, Exported({"v2", "result_v2"})
    PROVE  V2Fault(bundle, export.expected) = "none"
BY ResultV2Finds DEF SaidOfBundle, Exported, FaultOf

LEMMA V1Said ==
    ASSUME SaidOfBundle, Exported({"v1", "result_v1"})
    PROVE  V1Fault(bundle, export.expected) = "none"
BY ResultV1Finds DEF SaidOfBundle, Exported, FaultOf

(* A kept result with a binding that names the receipt and the handoff of  *)
(* the bundle is where these come from.                                    *)
LEMMA BindingNamesResult ==
    ASSUME TypeOK, SaidOfBundle, Exported({"v2", "result_v2"}),
           NEW k \in Kept, k.policy_binding \notin {None, Absent},
           k.policy_binding.receipt_hash = Sha256(bundle.receipt),
           k.policy_binding.handoff_hash = Sha256(bundle.handoff)
    PROVE  /\ <<k.receipt, k.handoff>> = <<bundle.receipt, bundle.handoff>>
           /\ export.expected = k.receipt.envelope_hash
           /\ k.policy_binding.receipt_hash = bundle.policy_binding.receipt_hash
           /\ k.policy_binding.handoff_hash = bundle.policy_binding.handoff_hash
<1>1. PICK e \in Envelopes : \E o : EvidenceOf(k, e, o)
  BY DEF TypeOK
<1>2. /\ k.policy_binding.receipt_hash = Sha256(k.receipt)
      /\ k.policy_binding.handoff_hash = Sha256(k.handoff)
  BY <1>1 DEF EvidenceOf
<1>3. k.receipt = bundle.receipt /\ k.handoff = bundle.handoff
  BY <1>2, HashesAreInjective
<1>4. /\ bundle.handoff.context_hash = export.expected
      /\ bundle.handoff.context_hash = bundle.handoff.envelope_hash
      /\ ReceiptMatchesHandoff(bundle.handoff, bundle.receipt)
      /\ bundle.policy_binding.receipt_hash = Sha256(bundle.receipt)
      /\ bundle.policy_binding.handoff_hash = Sha256(bundle.handoff)
  BY V2Said, V2Finds
<1>. QED  BY <1>3, <1>4 DEF ReceiptMatchesHandoff

(* If the binding of the bundle is one that is kept, that is the result.   *)
LEMMA KeptBindingSuffices ==
    ASSUME TypeOK, SaidOfBundle, Exported({"v2", "result_v2"}),
           NEW k \in Kept, k.policy_binding = bundle.policy_binding
    PROVE  WholeEvidence
<1>1. /\ ~ Missing(bundle.policy_binding)
      /\ bundle.policy_binding.receipt_hash = Sha256(bundle.receipt)
      /\ bundle.policy_binding.handoff_hash = Sha256(bundle.handoff)
  BY V2Said, V2Finds
<1>2. k.policy_binding \notin {None, Absent}
  BY <1>1 DEF Missing
<1>. QED  BY <1>1, <1>2, BindingNamesResult DEF WholeEvidence

(* Where the parts that go with a binding come from: the binding is kept,  *)
(* or it is the altered one of a result that is kept.                      *)
BundleComesFrom(b) ==
    \/ \E k \in Kept : k.policy_binding = b.policy_binding
    \/ \E k \in Kept :
          /\ k.policy_binding \notin {None, Absent}
          /\ k.receipt = b.receipt /\ k.handoff = b.handoff

BundleOrigin ==
    export # None /\ export.by \in {"v2", "result_v2"} => BundleComesFrom(bundle)

LEMMA OriginSuffices ==
    ASSUME TypeOK, SaidOfBundle, BundleOrigin
    PROVE  WholeEvidence
<1>1. SUFFICES ASSUME Exported({"v2", "result_v2"})
               PROVE  WholeEvidence
  BY DEF WholeEvidence
<1>2. BundleComesFrom(bundle)
  BY <1>1 DEF BundleOrigin, Exported
<1>3. CASE \E k \in Kept : k.policy_binding = bundle.policy_binding
  BY <1>1, <1>3, KeptBindingSuffices
<1>4. ASSUME NEW k \in Kept, k.policy_binding \notin {None, Absent},
             k.receipt = bundle.receipt, k.handoff = bundle.handoff,
             ~ \E r \in Kept : r.policy_binding = bundle.policy_binding
      PROVE  WholeEvidence
  <2>1. /\ k.policy_binding.receipt_hash = Sha256(k.receipt)
        /\ k.policy_binding.handoff_hash = Sha256(k.handoff)
    BY <1>4 DEF TypeOK, EvidenceOf
  <2>. QED  BY <1>1, <1>4, <2>1, BindingNamesResult DEF WholeEvidence
<1>. QED  BY <1>2, <1>3, <1>4 DEF BundleComesFrom

LEMMA PartsComeFrom ==
    ASSUME NEW exporter \in {"v2", "result_v2"}, NEW expected \in Contexts,
           NEW from \in [Takes(exporter) -> Slots], ExportParts(exporter, from, expected)
    PROVE  BundleComesFrom(bundle')
<1>1. "policy_binding" \in Takes(exporter)
  BY DEF Takes, Parts
<1>2. held[from["policy_binding"]] \in Kept
  BY <1>1 DEF ExportParts, Kept
<1>3. bundle'["policy_binding"] = held[from["policy_binding"]]["policy_binding"]
  BY <1>1 DEF ExportParts, Export, PutTogether, Parts
<1>. QED  BY <1>2, <1>3 DEF BundleComesFrom

LEMMA AlteredComesFrom ==
    ASSUME NEW exporter \in {"v2", "result_v2"}, NEW expected \in Contexts,
           NEW s \in Slots, NEW edit \in Edits, ExportAltered(exporter, s, edit, expected)
    PROVE  BundleComesFrom(bundle')
<1>1. held[s] \in Kept
  BY DEF ExportAltered, Kept
<1>2. \A part \in {"receipt", "handoff", "policy_binding"} :
        part # edit.part => bundle'[part] = held[s][part]
  BY DEF ExportAltered, Export, PutTogether, Takes, Parts
<1>3. CASE edit.part = "policy_binding"
  <2>1. held[s]["policy_binding"] \notin {None, Absent}
    BY <1>3 DEF ExportAltered, Missing
  <2>. QED  BY <1>1, <1>2, <1>3, <2>1 DEF BundleComesFrom
<1>4. CASE edit.part # "policy_binding"
  BY <1>1, <1>2, <1>4 DEF BundleComesFrom
<1>. QED  BY <1>3, <1>4

LEMMA HandedOrigin ==
    ASSUME Handed, held' = held
    PROVE  BundleOrigin'
<1>1. PICK exporter \in Exporters, expected \in Contexts :
        \/ \E from \in [Takes(exporter) -> Slots] : ExportParts(exporter, from, expected)
        \/ \E s \in Slots, edit \in Edits : ExportAltered(exporter, s, edit, expected)
  BY DEF Handed
<1>2. export'.by = exporter
  <2>1. \E b : Export(exporter, b, expected)
    <3>1. ASSUME NEW from \in [Takes(exporter) -> Slots], ExportParts(exporter, from, expected)
          PROVE  \E b : Export(exporter, b, expected)
      BY <3>1 DEF ExportParts
    <3>2. ASSUME NEW s \in Slots, NEW edit \in Edits,
                 ExportAltered(exporter, s, edit, expected)
          PROVE  \E b : Export(exporter, b, expected)
      BY <3>2 DEF ExportAltered
    <3>. QED  BY <1>1, <3>1, <3>2
  <2>. QED  BY <2>1 DEF Export
<1>3. SUFFICES ASSUME exporter \in {"v2", "result_v2"}
               PROVE  BundleComesFrom(bundle)'
  BY <1>2 DEF BundleOrigin
<1>4. BundleComesFrom(bundle')
  BY <1>1, <1>3, PartsComeFrom, AlteredComesFrom
<1>. QED  BY <1>4 DEF BundleComesFrom, Kept

Inv == TypeOK /\ SaidOfBundle /\ BundleOrigin

LEMMA InvHolds == Spec => []Inv
<1>1. Init => Inv
  BY DEF Init, Gateway!Init, TypeOK, Kept, Inv, SaidOfBundle, BundleOrigin
<1>2. ASSUME Inv, [Next]_vars
      PROVE  Inv'
  <2>1. TypeOK'
    BY <1>2, TypeStep DEF Inv
  <2>2. CASE UNCHANGED vars
    BY <1>2, <2>1, <2>2
       DEF vars, caller, Inv, SaidOfBundle, BundleOrigin, BundleComesFrom, Kept
  <2>3. CASE Next
    <3>1. CASE export' = None
      BY <2>1, <3>1 DEF Inv, SaidOfBundle, BundleOrigin
    <3>2. CASE export' # None
      <4>1. Handed /\ held' = held
        BY <1>2, <2>3, <3>2, StepKinds DEF Inv, Handed
      <4>. QED  BY <2>1, <4>1, HandedSaid, HandedOrigin DEF Inv
    <3>. QED  BY <3>1, <3>2
  <2>. QED  BY <1>2, <2>2, <2>3
<1>. QED  BY <1>1, <1>2, PTL DEF Spec

(* WholeEvidence (adamantine.py:165-220).                                  *)
THEOREM WholeEvidenceHolds == Spec => []WholeEvidence
<1>1. Inv => WholeEvidence
  BY OriginSuffices DEF Inv
<1>. QED  BY <1>1, InvHolds, PTL

(* OutputBelongsToEvidence (adamantine.py:77-95, 259-267).                 *)
THEOREM OutputBelongsHolds == Spec => []OutputBelongsToEvidence
<1>1. ASSUME Inv, Exported({"result_v2"})
      PROVE  \E r \in Kept : <<r.output, r.receipt>> = <<bundle.output, bundle.receipt>>
  <2>1. Exported({"v2", "result_v2"}) /\ WholeEvidence
    BY <1>1, OriginSuffices DEF Inv, Exported
  <2>2. PICK r \in Kept : r.receipt = bundle.receipt /\ r.policy_binding \notin {None, Absent}
    BY <2>1 DEF WholeEvidence
  <2>3. PICK e \in Envelopes : \E o : EvidenceOf(r, e, o)
    BY <1>1, <2>2 DEF Inv, TypeOK
  <2>4. r.receipt.output_hash = Sha256(r.output)
    BY <2>2, <2>3 DEF EvidenceOf, ReceiptFor
  <2>5. bundle.receipt.output_hash = Sha256(bundle.output)
    <3>1. ResultV2Fault(bundle, export.expected) = "none"
      BY <1>1 DEF Inv, SaidOfBundle, Exported, FaultOf
    <3>. QED  BY <3>1, ResultV2Finds DEF OutputMatchesEvidence
  <2>. QED  BY <2>2, <2>4, <2>5, HashesAreInjective
<1>2. Inv => OutputBelongsToEvidence
  BY <1>1 DEF OutputBelongsToEvidence
<1>. QED  BY <1>2, InvHolds, PTL

(* V1PartsBelongTogether (adamantine.py:55-62, 98-126).                    *)
THEOREM V1PartsBelongHolds == Spec => []V1PartsBelongTogether
<1>1. ASSUME Inv, Exported({"v1", "result_v1"}),
             NEW r1 \in Kept, r1.receipt = bundle.receipt,
             NEW r2 \in Kept, r2.handoff = bundle.handoff
      PROVE  r1.handoff = bundle.handoff
  <2>1. /\ r1.receipt # None /\ r2.handoff # None
        /\ ReceiptMatchesHandoff(r2.handoff, r1.receipt)
    BY <1>1, V1Said, V1Finds DEF Inv, Missing
  <2>2. PICK e1 \in Envelopes : \E o : EvidenceOf(r1, e1, o)
    BY <1>1, <2>1 DEF Inv, TypeOK
  <2>3. PICK e2 \in Envelopes : \E o : EvidenceOf(r2, e2, o)
    BY <1>1, <2>1 DEF Inv, TypeOK
  <2>4. PICK o1 : EvidenceOf(r1, e1, o1)
    BY <2>2
  <2>5. PICK o2 : EvidenceOf(r2, e2, o2)
    BY <2>3
  <2>6. HandoffFor(e1, o1) = HandoffFor(e2, o2)
    BY <2>1, <2>4, <2>5, HashesDetermineHandoff DEF ReceiptMatchesHandoff, EvidenceOf
  <2>. QED  BY <1>1, <2>4, <2>5, <2>6 DEF EvidenceOf
<1>2. Inv => V1PartsBelongTogether
  BY <1>1 DEF V1PartsBelongTogether
<1>. QED  BY <1>2, InvHolds, PTL
-----------------------------------------------------------------------------
(* What a policy-bound result is made of, while the caller keeps it.       *)

Agreed(pack, e, o) ==
    /\ {pack.id, o.adapter, o.task_type} \subseteq Labels
    /\ o.form = "wellformed"
    /\ o.context_hash = Sha256(e)
    /\ ReasonSemantics(Decision(o), o.reason_id)

BoundResult(r) ==
    \E q \in Requests, e \in Envelopes : \E o \in Outputs \cup Denials(e) :
        /\ r = Gateway!Evidence(q.pack, o.adapter, e, o)
        /\ Agreed(q.pack, e, o)
        /\ BindingFits(r)

LEMMA DenialsAgree ==
    ASSUME TypeOK, NEW e \in Envelopes, Gateway!Deny(e)
    PROVE  \E o \in Denials(e) :
              /\ answer' = Gateway!Evidence(request.pack, o.adapter, e, o)
              /\ Agreed(request.pack, e, o)
<1> DEFINE reason == Gateway!PolicyReason(request.pack, request.name, e)
           o      == Gateway!Denial(e, reason)
<1>1. reason \in ReasonIds
  BY DEF Gateway!Deny, Gateway!PolicyReason, Gateway!Accepted, ReasonIds
<1>2. /\ request \in Requests /\ request.pack.form \in ValidForms \cap ExactForms
      /\ e.adapter = request.name
      /\ answer' = Gateway!Evidence(request.pack, request.name, e, o)
  BY DEF Gateway!Deny, Gateway!Bindable, TypeOK, ValidForms, ExactForms,
         Gateway!ValidForms, Gateway!ExactForms
<1> HIDE DEF reason
<1>3. /\ o.form = "wellformed" /\ o.adapter = e.adapter /\ o.task_type = e.task_type
      /\ o.context_hash = Sha256(e) /\ o.reason_id = reason /\ o.accepted = FALSE
  BY DEF Gateway!Denial, Gateway!Sha256, Sha256
<1>4. o \in Denials(e)
  BY <1>1 DEF Denials
<1> HIDE DEF o
<1>5. Agreed(request.pack, e, o)
  BY <1>1, <1>2, <1>3, EvidenceExportAssumption DEF Agreed, ReasonSemantics, Decision
<1>. QED  BY <1>2, <1>3, <1>4, <1>5

LEMMA DecisionsAgree ==
    ASSUME TypeOK, NEW e \in Envelopes, NEW o \in Outputs, Gateway!Decide(e, o)
    PROVE  /\ answer' = Gateway!Evidence(request.pack, o.adapter, e, o)
           /\ Agreed(request.pack, e, o)
<1>1. /\ request \in Requests /\ request.pack.form \in ValidForms \cap ExactForms
      /\ o.adapter = e.adapter /\ o.task_type = e.task_type /\ o.form = "wellformed"
      /\ o.context_hash = Sha256(e)
      /\ answer' = Gateway!Evidence(request.pack, o.adapter, e, o)
  BY DEF Gateway!Decide, Gateway!Bindable, TypeOK, ValidForms, ExactForms,
         Gateway!ValidForms, Gateway!ExactForms, Gateway!Sha256, Sha256
<1>2. ReasonSemantics(Decision(o), o.reason_id)
  BY DEF Gateway!Decide, ReasonSemantics, Decision, Accepted, Gateway!Accepted,
         ReasonIds, Gateway!ReasonIds
<1>. QED  BY <1>1, <1>2, EvidenceExportAssumption DEF Agreed

LEMMA AnswersAreBound ==
    ASSUME TypeOK, NEW s \in Slots, BoundCallReturns(s)
    PROVE  answer'.policy_binding = None \/ BoundResult(answer')
<1>1. CASE Gateway!Refuse
  BY <1>1 DEF Gateway!Refuse, Gateway!Unbound
<1>2. CASE ~ Gateway!Refuse
  <2>1. BindingFits(answer') /\ request \in Requests
    BY <1>2 DEF BoundCallReturns, TypeOK, Gateway!Deny, Gateway!Decide
  <2>2. \E e \in Envelopes : \E o \in Outputs \cup Denials(e) :
           /\ answer' = Gateway!Evidence(request.pack, o.adapter, e, o)
           /\ Agreed(request.pack, e, o)
    BY <1>2, DenialsAgree, DecisionsAgree DEF BoundCallReturns
  <2>. QED  BY <2>1, <2>2 DEF BoundResult
<1>. QED  BY <1>1, <1>2

LEMMA BuiltFields ==
    ASSUME NEW p, NEW e, NEW o, NEW b, b = Gateway!Evidence(p, o.adapter, e, o)
    PROVE  /\ b.output = o
           /\ b.receipt = ReceiptFor([adapter_id |-> o.adapter], e, o)
           /\ b.handoff = HandoffFor(e, o)
           /\ b.policy_binding = BindingFor(p, b.receipt, b.handoff)
<1>1. /\ b.output = o
      /\ b.receipt = ReceiptFor([adapter_id |-> o.adapter], e, o)
      /\ b.handoff = HandoffFor(e, o)
  BY EvidenceFields
<1>2. b.policy_binding = BindingFor(p, b.receipt, b.handoff)
  BY <1>1, EvidenceFields
     DEF Gateway!Evidence, Gateway!BindingFor, BindingFor, Gateway!Sha256, Sha256
<1>. QED  BY <1>1, <1>2

LEMMA EvidenceEnvelope ==
    ASSUME NEW p, NEW a, NEW e, NEW o, NEW b, b = Gateway!Evidence(p, a, e, o)
    PROVE  b.output = o /\ Envelope(b) = e
<1>1. b.output = o /\ b.receipt = Gateway!ReceiptFor([adapter_id |-> a], e, o)
  BY DEF Gateway!Evidence
<1>. QED  BY <1>1 DEF Gateway!ReceiptFor, Envelope, Gateway!Sha256

LEMMA HashesAreHashes ==
    ASSUME NEW x
    PROVE  IsHash(Sha256(x)) /\ Sha256(x) # EmptyHash /\ Sha256(x) # MalformedHash
BY DEF IsHash, Sha256, EmptyHash, MalformedHash

(* No validator, and no comparison of the exporters, objects to evidence   *)
(* as it was built (adamantine.py:165-220, 259-267).                       *)
LEMMA BuiltEvidencePasses ==
    ASSUME NEW p, NEW e, NEW o, NEW b, b = Gateway!Evidence(p, o.adapter, e, o),
           Agreed(p, e, o),
           Absent \notin {b.output, b.receipt, b.handoff, b.policy_binding},
           None \notin {b.receipt, b.handoff, b.policy_binding},
           ResultFits(b), Fits(Weight(b.handoff) + Weight(b.receipt) + Weight(b.policy_binding))
    PROVE  ResultV2Fault(b, b.receipt.envelope_hash) = "none"
<1> DEFINE r == b.receipt
           h == b.handoff
           k == b.policy_binding
<1>1. /\ b.output = o /\ r = ReceiptFor([adapter_id |-> o.adapter], e, o)
      /\ h = HandoffFor(e, o) /\ k = BindingFor(p, r, h)
  BY BuiltFields
<1>2. /\ r.adapter_id = o.adapter /\ h.adapter = o.adapter /\ h.task_type = o.task_type
      /\ r.reason_id = o.reason_id /\ h.reason_id = o.reason_id
      /\ r.policy_decision = Decision(o) /\ h.policy_decision = Decision(o)
      /\ r.envelope_hash = Sha256(e) /\ h.envelope_hash = Sha256(e)
      /\ r.output_hash = Sha256(o) /\ h.output_hash = Sha256(o)
      /\ h.context_hash = Sha256(e)
      /\ r.determinism_profile = DeterminismProfile
  BY <1>1 DEF ReceiptFor, HandoffFor, Agreed
<1>3. /\ k.policy_pack_id = p.id /\ k.policy_pack_hash = Sha256(p)
      /\ k.receipt_hash = Sha256(r) /\ k.handoff_hash = Sha256(h)
  BY <1>1 DEF BindingFor
<1> HIDE DEF r, h, k
<1>4. /\ o.reason_id \in ReasonIds \cup {Accepted} /\ Decision(o) \in {"accepted", "rejected"}
      /\ {p.id, o.adapter, o.task_type} \subseteq Labels
      /\ ReasonSemantics(Decision(o), o.reason_id)
  BY DEF Agreed, ReasonSemantics, Decision
<1>5. \A x \in {p.id, o.adapter, o.task_type, o.reason_id, DeterminismProfile} :
         x # NoLabel /\ x # BlankLabel
  BY <1>4, LabelsAssumption
     DEF ReasonIds, Accepted, DeterminismProfile, NoLabel, BlankLabel
<1>6. OutputFault(b.output) = NoError
  BY <1>1 DEF Agreed, OutputFault, Fault, ValidForms
<1>7. ReceiptFault(r) = "none"
  BY <1>2, <1>4, <1>5, HashesAreHashes DEF ReceiptFault, ChainFault, TextFault, HashFault
<1>8. HandoffFault(h) = "none"
  BY <1>2, <1>4, <1>5, HashesAreHashes
     DEF HandoffFault, ChainFault, TextFault, HashFault, HandoffValid
<1>9. BindingFault(k) = "none"
  BY <1>3, <1>5, HashesAreHashes DEF BindingFault, TextFault
<1>10. OutputMatchesEvidence(b.output, h, r) /\ ReceiptMatchesHandoff(h, r)
  BY <1>1, <1>2, <1>4 DEF OutputMatchesEvidence, ReceiptMatchesHandoff, Agreed
<1>11. V2Fault(b, r.envelope_hash) = "none"
  <2>1. IsHash(r.envelope_hash) /\ h.context_hash = r.envelope_hash
        /\ h.context_hash = h.envelope_hash
    BY <1>2, HashesAreHashes
  <2>2. ~ Missing(h) /\ ~ Missing(r) /\ ~ Missing(k)
        /\ Fits(Weight(h) + Weight(r) + Weight(k))
    BY DEF Missing, r, h, k
  <2>3. /\ ReasonSemantics(h.policy_decision, h.reason_id)
        /\ r.determinism_profile = DeterminismProfile
        /\ k.receipt_hash = Sha256(r) /\ k.handoff_hash = Sha256(h)
    BY <1>2, <1>3, <1>4
  <2>. QED  BY <1>7, <1>8, <1>9, <1>10, <2>1, <2>2, <2>3 DEF V2Fault, r, h, k
<1>. QED  BY <1>6, <1>7, <1>8, <1>10, <1>11 DEF ResultV2Fault, r, h, k

(* The snapshot of the whole result replaces the envelope in the one the   *)
(* binding was built from by the binding (policy_binding.py:242,           *)
(* adamantine.py:242).                                                     *)
LEMMA BoundResultPasses ==
    ASSUME NEW b, BoundResult(b)
    PROVE  \/ ResultV2Fault(b, b.receipt.envelope_hash) = "none"
           \/ /\ ResultV2Fault(b, b.receipt.envelope_hash) = "SCHEMA_VIOLATION"
              /\ Weight(Envelope(b)) < Weight(b.policy_binding)
<1>1. PICK q \in Requests, e \in Envelopes :
        \E o \in Outputs \cup Denials(e) :
           /\ b = Gateway!Evidence(q.pack, o.adapter, e, o)
           /\ Agreed(q.pack, e, o)
           /\ BindingFits(b)
  BY DEF BoundResult
<1>2. PICK o \in Outputs \cup Denials(e) :
           /\ b = Gateway!Evidence(q.pack, o.adapter, e, o)
           /\ Agreed(q.pack, e, o)
           /\ BindingFits(b)
  BY <1>1
<1>3. Envelope(b) = e /\ b.output = o
  BY <1>2, EvidenceEnvelope
<1>4. \A part \in Parts : b[part] \notin {None, Absent} /\ Weight(b[part]) \in Nat
  BY <1>2, EvidenceExportAssumption
<1> DEFINE wo == Weight(b.output)
           wr == Weight(b.receipt)
           wh == Weight(b.handoff)
           wk == Weight(b.policy_binding)
           we == Weight(Envelope(b))
<1>5. /\ {b.output, b.receipt, b.handoff, b.policy_binding} \cap {None, Absent} = {}
      /\ wo \in Nat /\ wr \in Nat /\ wh \in Nat /\ wk \in Nat /\ we \in Nat /\ Budget \in Nat
  BY <1>3, <1>4, EvidenceExportAssumption DEF Parts
<1>6. we + wo + wr + wh + 1 <= Budget
  BY <1>2 DEF BindingFits, Fits
<1>7. b.output.form \in ExactForms
  BY <1>2, <1>3 DEF Agreed, ExactForms
<1>8. ResultFits(b) <=> wo + wr + wh + wk + 1 <= Budget
  BY <1>5, <1>7 DEF ResultFits, Fits, WeightOf, Missing
<1> HIDE DEF wo, wr, wh, wk, we
<1>9. CASE ResultFits(b)
  <2>1. wh + wr + wk + 1 <= Budget
    BY <1>5, <1>8, <1>9
  <2>2. Fits(Weight(b.handoff) + Weight(b.receipt) + Weight(b.policy_binding))
    BY <2>1 DEF Fits, wr, wh, wk
  <2>. QED  BY <1>2, <1>5, <1>9, <2>2, BuiltEvidencePasses
<1>10. CASE ~ ResultFits(b)
  <2>1. we < wk
    BY <1>5, <1>6, <1>8, <1>10
  <2>. QED  BY <1>10, <2>1 DEF ResultV2Fault, we, wk
<1>. QED  BY <1>9, <1>10

KeptIsBound ==
    \A k \in Kept : k.policy_binding \notin {None, Absent} => BoundResult(k)

LEMMA FiledIsBound ==
    ASSUME NEW s \in Slots, NEW r, r.policy_binding \in {None, Absent} \/ BoundResult(r),
           DOMAIN held = Slots, KeptIsBound, held' = [held EXCEPT ![s] = r]
    PROVE  \A k \in Kept' : k.policy_binding \notin {None, Absent} => BoundResult(k)
<1>1. ASSUME NEW x \in Slots PROVE held'[x] \in {r, held[x]}
  OBVIOUS
<1>. QED  BY <1>1 DEF Kept, KeptIsBound

LEMMA KeptStaysBound ==
    ASSUME TypeOK, KeptIsBound, [Next]_vars
    PROVE  KeptIsBound'
<1>1. CASE held' = held
  BY <1>1 DEF KeptIsBound, Kept
<1>2. ASSUME NEW s \in Slots, BoundCallReturns(s)
      PROVE  KeptIsBound'
  <2>1. held' = [held EXCEPT ![s] = answer']
    BY <1>2 DEF BoundCallReturns
  <2>2. answer'.policy_binding \in {None, Absent} \/ BoundResult(answer')
    BY <1>2, AnswersAreBound
  <2> DEFINE r == answer'
  <2>3. held' = [held EXCEPT ![s] = r] /\ (r.policy_binding \in {None, Absent} \/ BoundResult(r))
    BY <2>1, <2>2
  <2> HIDE DEF r
  <2>. QED  BY <2>3, FiledIsBound DEF TypeOK, KeptIsBound
<1>3. ASSUME NEW s \in Slots, NEW e \in Envelopes, NEW o \in Outputs \cup Refusals,
             NEW proved \in BOOLEAN, V1CallReturns(s, e, o, proved)
      PROVE  KeptIsBound'
  <2>1. V1Result(e, o, proved).policy_binding \in {None, Absent}
    BY DEF V1Result
  <2>. QED  BY <1>3, <2>1, FiledIsBound DEF V1CallReturns, TypeOK, KeptIsBound
<1>4. ASSUME NEW s \in Slots, NEW o \in Outputs, RewriteReturnedOutput(s, o)
      PROVE  KeptIsBound'
  <2> DEFINE r == [held[s] EXCEPT !.output = o]
  <2>1. r.policy_binding = Absent /\ held' = [held EXCEPT ![s] = r]
    BY <1>4 DEF RewriteReturnedOutput
  <2>. QED  BY <2>1, FiledIsBound DEF TypeOK, KeptIsBound
<1>5. CASE Next
  BY <1>1, <1>2, <1>3, <1>4, <1>5, ZenonT(60)
     DEF Next, Ask, caller, ExportParts, ExportAltered, Export, Discard
<1>. QED  BY <1>1, <1>5 DEF vars, caller

(* BoundResultExports: what the binding was built from, within its budget, *)
(* is what the exporter finds, and the sums differ by the envelope and the *)
(* binding (policy_binding.py:242, adamantine.py:242).                     *)
THEOREM BoundResultHolds == Spec => []BoundResultExports
<1>1. Init => KeptIsBound
  BY DEF Init, KeptIsBound, Kept
<1>2. Inv /\ KeptIsBound => BoundResultExports
  <2>1. SUFFICES ASSUME Inv, KeptIsBound, export # None, export.by = "result_v2",
                        bundle \in Kept, ~ Missing(bundle.policy_binding),
                        export.expected = bundle.receipt.envelope_hash
                 PROVE  \/ export.fault = "none"
                        \/ /\ export.fault = "SCHEMA_VIOLATION"
                           /\ Weight(Envelope(bundle)) < Weight(bundle.policy_binding)
    BY DEF BoundResultExports
  <2>2. BoundResult(bundle)
    BY <2>1 DEF KeptIsBound, Missing
  <2>3. export.fault = ResultV2Fault(bundle, bundle.receipt.envelope_hash)
    BY <2>1 DEF Inv, SaidOfBundle, FaultOf
  <2>. QED  BY <2>2, <2>3, BoundResultPasses
<1>3. Inv /\ KeptIsBound /\ [Next]_vars => KeptIsBound'
  BY KeptStaysBound DEF Inv
<1>. QED  BY <1>1, <1>2, <1>3, InvHolds, PTL DEF Spec

=============================================================================
