----------------------- MODULE BuiltinAdaptersProofs ------------------------
(***************************************************************************)
(* Proofs about the gateway run with the two built-in adapters, for every  *)
(* set of sources and packs: the two paths that decide one request do not  *)
(* contradict each other.                                                  *)
(*                                                                         *)
(* The two paths run the same checks in different blocks and catch their   *)
(* errors in different clauses.  CommonReason is the reason those checks   *)
(* give, as a function of the request alone; Inv says of either path that  *)
(* what it has come to so far, and what it answers, is that reason, unless *)
(* the request is one the path judges by more than these checks.           *)
(***************************************************************************)
EXTENDS BuiltinAdapters, TLAPS

(* The request, and what the checks both paths share make of it.           *)
Registers   == adapters[asked.name] # None
Env         == EnvelopeOf(asked.name, source)
EnvFault    == BuildEnvelopeFault(asked.name, source)
Own         == OutputOf(asked.name, Env)
Verdict     == PolicyReason(asked.pack, asked.name, Env)
Declared    == ManifestOf(asked.name).supported_actions
UsableForms == {"wellformed", "boundary"}

CommonReason ==
    IF ~ Registers THEN "ADAPTER_NOT_REGISTERED"
    ELSE IF EnvFault # NoError THEN ReasonOf(EnvFault, V1!Clauses)
    ELSE IF source.action \notin Declared THEN "ADAPTER_VALIDATION_FAILED"
    ELSE IF Verdict # Accepted THEN Verdict
    ELSE Own.reason_id

RegistryInv ==
    \A n \in Names : \/ adapters[n] = None /\ manifests[n] = None
                     \/ adapters[n] = AdapterOf(n) /\ manifests[n] = ManifestOf(n)

RequestInv ==
    \/ source = None /\ bpc = "idle" /\ pc = "idle" /\ bresult = None /\ result = None
    \/ /\ source \in Sources /\ asked \in [name : Names, pack : PolicyPacks]
       /\ method \in V1!Methods /\ name = asked.name
       /\ live = [source |-> LiveText(source), pack |-> asked.pack]

-----------------------------------------------------------------------------
(* The bound path.  Its budgets and its exact snapshots refuse more than   *)
(* the shared checks do: only then may its reason be another one.          *)

BoundOutput ==
    IF Verdict # Accepted THEN Bound!RejectedOutput(Env, Verdict) ELSE Own

Built ==
    /\ Registers /\ EnvFault = NoError
    /\ asked.pack.form \in UsableForms

(* A reason the bound path may refuse this request for.                    *)
BoundRefuses(reason) ==
    /\ reason \in ReasonIds
    /\ Registers => reason \in CommonReasons
    /\ Exact /\ (EnvFault = NoError => Env.form = "wellformed") => reason = CommonReason

(* The bound path answers with a refusal, or with the evidence of its      *)
(* decision on the envelope the adapter built.                             *)
BoundAnswer ==
    \/ /\ bresult.policy_binding = None /\ bresult.output.accepted = FALSE
       /\ BoundRefuses(bresult.output.reason_id)
    \/ /\ Built /\ Env.form = "wellformed" /\ source.action \in Declared
       /\ bresult = [output |-> BoundOutput,
                     receipt |-> ReceiptFor(ManifestOf(asked.name), Env, BoundOutput),
                     handoff |-> HandoffFor(Env, BoundOutput),
                     policy_binding |->
                        BindingFor(asked.pack, ReceiptFor(ManifestOf(asked.name), Env, BoundOutput),
                                   HandoffFor(Env, BoundOutput))]

AfterBuild == {"align", "enforce", "build_output", "receipt", "handoff", "bind"}

(* What the bound path has established when it reaches a block.            *)
BoundInv ==
    /\ bpc \in Bound!Blocks \cup {"idle"}
    /\ bpc # "idle" => source # None /\ bresult = None
    /\ bpc = "capture" => blive.pack = asked.pack
    /\ bpc \in Bound!AfterCapture =>
          snapshot = asked.pack /\ asked.pack.form \in UsableForms
    /\ bpc \in Bound!AfterManifest => Registers /\ bmanifest = ManifestOf(asked.name)
    /\ bpc \in AfterBuild =>
          EnvFault = NoError /\ benvelope = Env /\ Env.form \in UsableForms
    /\ bpc \in AfterBuild \ {"align"} => source.action \in Declared
    /\ bpc = "build_output" => Verdict = Accepted
    /\ bpc \in {"receipt", "handoff", "bind"} => boutput = BoundOutput
    /\ bpc \in {"handoff", "bind"} =>
          receipt = ReceiptFor(ManifestOf(asked.name), Env, BoundOutput)
    /\ bpc = "bind" => handoff = HandoffFor(Env, BoundOutput)
    /\ bresult # None => BoundAnswer

-----------------------------------------------------------------------------
(* The V1 path.  It takes inexact artifacts and envelopes without an       *)
(* action, and rejects with an envelope that quotes the source, which may  *)
(* be impossible to validate (the call raises) or to hash.                 *)

(* The checks the called method makes found nothing.                       *)
Passed ==
    /\ Registers /\ EnvFault = NoError
    /\ method # "process" => source.action \in Declared \cup {NoAction}
    /\ method \in V1!Judging => asked.pack.form \in ValidForms /\ Verdict = Accepted

(* A request the bound path would judge by the same checks.                *)
Comparable ==
    /\ method \in V1!Judging
    /\ asked.pack.form \in UsableForms /\ source.action # NoAction
    /\ EnvFault = NoError => Hashable(Env)

(* A rejection, and a reason for it, that the shared checks bear out.      *)
Justified == Comparable => CommonReason # Accepted
RejectedFor(reason) ==
    /\ reason \in ReasonIds
    /\ Registers => reason \in CommonReasons
    /\ Comparable => reason = CommonReason

(* The call returns the adapter's output with its evidence, or a rejection.*)
V1Answer ==
    \/ /\ Passed /\ Hashable(Env) /\ result.output = Own
       /\ method = "governed" =>
             /\ result.receipt = ReceiptFor(ManifestOf(asked.name), Env, Own)
             /\ result.handoff = HandoffFor(Env, Own)
    \/ /\ result.output.accepted = FALSE /\ result.output.reason_id \in ReasonIds
       /\ Registers => result.output.reason_id \in CommonReasons
       /\ Justified
       /\ SurrogateLabel \notin {source.task, source.model} =>
             RejectedFor(result.output.reason_id)

(* The artifacts the evidence block starts from.                           *)
V1Components ==
    \/ envelope = Env /\ output = Own /\ Passed /\ Hashable(Env)
    \/ /\ V1!FailsClosed(name, live.source)
       /\ envelope = V1!FailClosedEnvelope(name, live.source)
       /\ \E reason \in CommonReasons :
             /\ output = V1!FailClosed(name, live.source, reason)
             /\ RejectedFor(reason)

(* What the V1 path has established when it reaches a block.               *)
V1Inv ==
    /\ pc \in V1!Blocks \cup {"idle"}
    /\ pc # "idle" => source # None /\ result = None
    /\ pc = "get_manifest" => method # "process"
    /\ pc \in V1!Blocks \ {"get_manifest"} /\ method # "process" =>
          Registers /\ manifest = ManifestOf(asked.name)
    /\ pc \in V1!Callbacks => Registers
    /\ pc = "build_output" => envelope = Env /\ Passed
    /\ pc = "evidence" => method \in V1!Proving /\ V1Components
    /\ result # None /\ result = V1!Raised => Justified
    /\ result \notin {None, V1!Raised} => V1Answer

Inv == RegistryInv /\ RequestInv /\ BoundInv /\ V1Inv

-----------------------------------------------------------------------------
(* The operators the two paths share are those of this module.             *)

LEMMA BoundErrors ==
    /\ Bound!NoError = NoError
    /\ Bound!Accepted = Accepted
    /\ Bound!ReasonIds = ReasonIds
    /\ \A err, default : Bound!ReasonFromError(err, default) = ReasonFromError(err, default)
    /\ \A err, defaults : Bound!ReasonOf(err, defaults) = ReasonOf(err, defaults)
    /\ \A x, fault : Bound!Snapshotted(x, fault) = Snapshotted(x, fault)
<1> USE DEF Raise, Bound!Raise, Opaque, Bound!Opaque
<1>1. Bound!NoError = NoError
  BY DEF Bound!NoError, NoError
<1>2. Bound!Accepted = Accepted /\ Bound!ReasonIds = ReasonIds
  BY DEF Bound!Accepted, Accepted, Bound!ReasonIds, ReasonIds
<1>3. \A err, default : Bound!ReasonFromError(err, default) = ReasonFromError(err, default)
  BY <1>2 DEF Bound!ReasonFromError, ReasonFromError
<1>4. \A err, defaults : Bound!ReasonOf(err, defaults) = ReasonOf(err, defaults)
  BY <1>3 DEF Bound!ReasonOf, ReasonOf
<1>5. \A x, fault : Bound!Snapshotted(x, fault) = Snapshotted(x, fault)
  BY DEF Bound!Snapshotted, Snapshotted, Bound!ExactForms, ExactForms
<1>. QED  BY <1>1, <1>2, <1>3, <1>4, <1>5

LEMMA BoundValidators ==
    /\ \A x : Bound!PolicyPackFault(x) = PolicyPackFault(x)
    /\ \A x : Bound!EnvelopeFault(x) = EnvelopeFault(x)
    /\ \A x : Bound!OutputFault(x) = OutputFault(x)
<1>1. \A form, v, d : Bound!Fault(form, v, d) = Fault(form, v, d)
  BY DEF Bound!Fault, Fault, Bound!ValidForms, ValidForms, Bound!Raise, Raise,
         Bound!NoError, NoError, Bound!Opaque, Opaque
<1>. QED  BY <1>1 DEF Bound!PolicyPackFault, PolicyPackFault, Bound!EnvelopeFault, EnvelopeFault,
                     Bound!OutputFault, OutputFault

LEMMA BoundPolicy ==
    /\ Bound!NoAction = NoAction
    /\ \A pack, n, e : Bound!PolicyFault(pack, n, e) = PolicyFault(pack, n, e)
<1>1. \A pack, n, e : Bound!PolicyReason(pack, n, e) = PolicyReason(pack, n, e)
  BY DEF Bound!PolicyReason, PolicyReason, Bound!NoAction, NoAction, Bound!Accepted, Accepted
<1>2. Bound!NoAction = NoAction
  BY DEF Bound!NoAction, NoAction
<1>. QED  BY <1>1, <1>2, BoundErrors, BoundValidators
         DEF Bound!PolicyFault, PolicyFault, Bound!Raise, Raise

LEMMA BoundBuilders ==
    /\ \A m, e, o : Bound!ReceiptFor(m, e, o) = ReceiptFor(m, e, o)
    /\ \A e, o : Bound!HandoffFor(e, o) = HandoffFor(e, o)
    /\ \A p, r, h : Bound!BindingFor(p, r, h) = BindingFor(p, r, h)
    /\ \A e, o : Bound!ReceiptBuilds(e, o) <=> ReceiptBuilds(e, o)
    /\ \A e, o, r : Bound!HandoffBuilds(e, o, r) <=> HandoffBuilds(e, o, r)
    /\ \A e, o, r, h : Bound!BindingBuilds(e, o, r, h) <=> BindingBuilds(e, o, r, h)
<1> USE DEF Bound!Sha256, Sha256, Bound!Decision, Decision,
            Bound!DeterminismProfile, DeterminismProfile
<1>1. \A m, e, o : Bound!ReceiptFor(m, e, o) = ReceiptFor(m, e, o)
  BY DEF Bound!ReceiptFor, ReceiptFor
<1>2. \A e, o : Bound!HandoffFor(e, o) = HandoffFor(e, o)
  BY DEF Bound!HandoffFor, HandoffFor
<1>3. \A p, r, h : Bound!BindingFor(p, r, h) = BindingFor(p, r, h)
  BY DEF Bound!BindingFor, BindingFor
<1>4. \A x : Bound!Hashable(x) <=> Hashable(x)
  BY DEF Bound!Hashable, Hashable, Bound!EncodableForms, EncodableForms
<1>5. \A e, o : Bound!ReceiptBuilds(e, o) <=> ReceiptBuilds(e, o)
  BY <1>4 DEF Bound!ReceiptBuilds, ReceiptBuilds
<1>6. \A e, o, r : Bound!HandoffBuilds(e, o, r) <=> HandoffBuilds(e, o, r)
  BY <1>4 DEF Bound!HandoffBuilds, HandoffBuilds
<1>7. \A h : Bound!HandoffValid(h) <=> HandoffValid(h)
  BY DEF Bound!HandoffValid, HandoffValid, Bound!MalformedHash, MalformedHash
<1>8. \A d, r : Bound!ReasonSemantics(d, r) <=> ReasonSemantics(d, r)
  BY BoundErrors DEF Bound!ReasonSemantics, ReasonSemantics
<1>9. \A e, o, r, h : Bound!BindingBuilds(e, o, r, h) <=> BindingBuilds(e, o, r, h)
  BY <1>7, <1>8 DEF Bound!BindingBuilds, BindingBuilds
<1>. QED  BY <1>1, <1>2, <1>3, <1>5, <1>6, <1>9

(* And so are those of the V1 path.                                        *)
LEMMA V1Errors ==
    /\ V1!NoError = NoError
    /\ V1!NoAction = NoAction
    /\ V1!Accepted = Accepted
    /\ \A c, m : V1!Raise(c, m) = Raise(c, m)
    /\ \A err, defaults : V1!ReasonOf(err, defaults) = ReasonOf(err, defaults)
    /\ \A x : V1!EnvelopeFault(x) = EnvelopeFault(x)
    /\ \A pack, n, e : V1!PolicyFault(pack, n, e) = PolicyFault(pack, n, e)
<1> USE DEF Raise, V1!Raise, Opaque, V1!Opaque
<1>1. V1!NoError = NoError /\ V1!NoAction = NoAction /\ V1!Accepted = Accepted
  BY DEF V1!NoError, NoError, V1!NoAction, NoAction, V1!Accepted, Accepted
<1>2. \A err, default : V1!ReasonFromError(err, default) = ReasonFromError(err, default)
  BY DEF V1!ReasonFromError, ReasonFromError, V1!ReasonIds, ReasonIds
<1>3. \A err, defaults : V1!ReasonOf(err, defaults) = ReasonOf(err, defaults)
  BY <1>2 DEF V1!ReasonOf, ReasonOf
<1>4. \A form, v, d : V1!Fault(form, v, d) = Fault(form, v, d)
  BY DEF V1!Fault, Fault, V1!ValidForms, ValidForms, V1!NoError, NoError
<1>5. \A x : V1!EnvelopeFault(x) = EnvelopeFault(x) /\ V1!PolicyPackFault(x) = PolicyPackFault(x)
  BY <1>4 DEF V1!PolicyPackFault, PolicyPackFault, V1!EnvelopeFault, EnvelopeFault
<1>6. \A pack, n, e : V1!PolicyReason(pack, n, e) = PolicyReason(pack, n, e)
  BY DEF V1!PolicyReason, PolicyReason, V1!NoAction, NoAction, V1!Accepted, Accepted
<1>7. \A pack, n, e : V1!PolicyFault(pack, n, e) = PolicyFault(pack, n, e)
  BY <1>1, <1>5, <1>6 DEF V1!PolicyFault, PolicyFault
<1>. QED  BY <1>1, <1>3, <1>5, <1>7

LEMMA V1Builders ==
    /\ \A m, e, o : V1!ReceiptFor(m, e, o) = ReceiptFor(m, e, o)
    /\ \A e, o : V1!HandoffFor(e, o) = HandoffFor(e, o)
    /\ \A e, o : V1!ReceiptBuilds(e, o) <=> Hashable(e) /\ Hashable(o)
    /\ \A m, e, o : V1!HandoffBuilds(e, o, ReceiptFor(m, e, o)) <=> Hashable(e) /\ Hashable(o)
<1> USE DEF V1!Sha256, Sha256, V1!Decision, Decision,
            V1!DeterminismProfile, DeterminismProfile
<1>1. \A m, e, o : V1!ReceiptFor(m, e, o) = ReceiptFor(m, e, o)
  BY DEF V1!ReceiptFor, ReceiptFor
<1>2. \A e, o : V1!HandoffFor(e, o) = HandoffFor(e, o)
  BY DEF V1!HandoffFor, HandoffFor
<1>3. \A x : V1!Hashable(x) <=> Hashable(x)
  BY DEF V1!Hashable, Hashable, V1!EncodableForms, EncodableForms
<1>4. \A e, o : V1!ReceiptBuilds(e, o) <=> Hashable(e) /\ Hashable(o)
  BY <1>3 DEF V1!ReceiptBuilds
<1>5. \A m, e, o : V1!HandoffBuilds(e, o, ReceiptFor(m, e, o)) <=> Hashable(e) /\ Hashable(o)
  BY <1>3 DEF V1!HandoffBuilds, ReceiptFor
<1>. QED  BY <1>1, <1>2, <1>4, <1>5

-----------------------------------------------------------------------------
(* Packs, envelopes and outputs.                                           *)

(* What the policy says of an envelope.                                    *)
LEMMA Verdicts ==
    ASSUME NEW pack, NEW n, NEW e
    PROVE  PolicyReason(pack, n, e) \in
              {"POLICY_DENIED", "UNSUPPORTED_TASK", "UNSUPPORTED_MODEL", Accepted}
BY DEF PolicyReason

(* What is wrong with a pack is a declared reason.                         *)
LEMMA PackFaults ==
    ASSUME NEW p \in PolicyPacks
    PROVE  /\ PolicyPackFault(p) = NoError <=> p.form \in ValidForms
           /\ Snapshotted(p, PolicyPackFault(p)) = NoError <=> p.form \in UsableForms
           /\ PolicyPackFault(p) # NoError =>
                 ReasonOf(PolicyPackFault(p), V1!Clauses) \in ReasonIds \cap CommonReasons
           /\ ReasonFromError(Snapshotted(p, PolicyPackFault(p)), "SCHEMA_VIOLATION")
                 \in ReasonIds \cap CommonReasons
<1>1. p.form \in ChoiceForms
  BY BuiltinAssumption
<1> DEFINE form == p.form
<1>2. form \in ChoiceForms
  BY <1>1
<1>3. /\ Fault(form, "SCHEMA_VIOLATION", "POLICY_DENIED") \in
            {NoError, Raise("Contract", "SCHEMA_VIOLATION"), Raise("Contract", "POLICY_DENIED"),
             Raise("Validation", "MISSING_REQUIRED_FIELD"),
             Raise("Validation", "SCHEMA_VIOLATION")}
      /\ Fault(form, "SCHEMA_VIOLATION", "POLICY_DENIED") = NoError <=> form \in ValidForms
  <2> HIDE DEF form
  <2>. QED  BY <1>2 DEF Fault, ChoiceForms, EnvelopeForms, ValidForms, NoError, Raise
<1> DEFINE fault == PolicyPackFault(p)
<1>4. /\ fault \in
            {NoError, Raise("Contract", "SCHEMA_VIOLATION"), Raise("Contract", "POLICY_DENIED"),
             Raise("Validation", "MISSING_REQUIRED_FIELD"),
             Raise("Validation", "SCHEMA_VIOLATION")}
      /\ fault = NoError <=> form \in ValidForms
  BY <1>3 DEF PolicyPackFault
<1> HIDE DEF fault
<1>5. fault # NoError => ReasonOf(fault, V1!Clauses) \in ReasonIds \cap CommonReasons
  BY <1>4 DEF ReasonOf, ReasonFromError, V1!Clauses, Raise, ReasonIds, CommonReasons
<1>6. Snapshotted(p, fault) = NoError <=> form \in UsableForms
  BY <1>2, <1>4 DEF Snapshotted, UsableForms, ExactForms, ValidForms, ChoiceForms,
                    EnvelopeForms, NoError, Raise
<1>7. ReasonFromError(fault, "SCHEMA_VIOLATION") \in ReasonIds \cap CommonReasons
  <2>1. fault.message \in {Opaque, "SCHEMA_VIOLATION", "POLICY_DENIED", "MISSING_REQUIRED_FIELD"}
    BY <1>4 DEF Raise, NoError
  <2>. QED  BY <2>1 DEF ReasonFromError, Opaque, ReasonIds, CommonReasons
<1>8. ReasonFromError(Snapshotted(p, fault), "SCHEMA_VIOLATION") \in ReasonIds \cap CommonReasons
  BY <1>7 DEF Snapshotted, ReasonFromError, Raise, ReasonIds, CommonReasons
<1>. QED  BY <1>4, <1>5, <1>6, <1>8 DEF fault, form

LEMMA EnvelopeFaults ==
    ASSUME NEW e
    PROVE  /\ EnvelopeFault(e) = NoError <=> e.form \in ValidForms
           /\ EnvelopeFault(e) \in
                 {NoError, Raise("Contract", "INVALID_ENVELOPE"),
                  Raise("Validation", "MISSING_REQUIRED_FIELD"),
                  Raise("Validation", "SCHEMA_VIOLATION")}
<1> DEFINE form == e.form
<1>1. /\ Fault(form, "INVALID_ENVELOPE", "INVALID_ENVELOPE") = NoError <=> form \in ValidForms
      /\ Fault(form, "INVALID_ENVELOPE", "INVALID_ENVELOPE") \in
            {NoError, Raise("Contract", "INVALID_ENVELOPE"),
             Raise("Validation", "MISSING_REQUIRED_FIELD"),
             Raise("Validation", "SCHEMA_VIOLATION")}
  <2> HIDE DEF form
  <2>. QED  BY DEF Fault, ValidForms, NoError, Raise
<1>. QED  BY <1>1 DEF EnvelopeFault

LEMMA SourceFields ==
    ASSUME NEW s \in Sources
    PROVE  /\ s.fields \in {"complete", "lacking", "not_dict"}
           /\ s.payload \in PayloadForms
           /\ s.action \in Actions \cup {NoAction}
           /\ s.task \in AnyLabel /\ s.model \in AnyLabel
BY BuiltinAssumption

(* An envelope an adapter built is its own and valid, for the wallet with  *)
(* an action it supports.                                                  *)
LEMMA BuiltEnvelopes ==
    ASSUME NEW n \in Names, NEW s \in Sources
    PROVE  /\ EnvelopeOf(n, s).adapter = n
           /\ EnvelopeOf(n, s).action = s.action
           /\ BuildEnvelopeFault(n, s) = NoError =>
                 /\ EnvelopeOf(n, s).form \in ValidForms
                 /\ n = "wallet" => s.action \in SUPPORTED_WALLET_ACTIONS
<1>1. CASE n = "poi"
  <2>1. EnvelopeOf(n, s) = PoIEnvelope(s) /\ BuildEnvelopeFault(n, s) = PoIFault(s)
    BY <1>1 DEF EnvelopeOf, BuildEnvelopeFault
  <2>2. PoIFault(s) = NoError => EnvelopeFault(PoIEnvelope(s)) = NoError
    BY DEF PoIFault, NoError, Raise
  <2>3. PoIEnvelope(s).adapter = "poi" /\ PoIEnvelope(s).action = s.action
    BY DEF PoIEnvelope
  <2>. QED  BY <1>1, <2>1, <2>2, <2>3, EnvelopeFaults
<1>2. CASE n = "wallet"
  <2>1. EnvelopeOf(n, s) = WalletEnvelope(s) /\ BuildEnvelopeFault(n, s) = WalletFault(s)
    BY <1>2 DEF EnvelopeOf, BuildEnvelopeFault
  <2>2. WalletFault(s) = NoError =>
           s.action \in SUPPORTED_WALLET_ACTIONS /\ EnvelopeFault(WalletEnvelope(s)) = NoError
    BY DEF WalletFault, NoError, Raise
  <2>3. WalletEnvelope(s).adapter = "wallet" /\ WalletEnvelope(s).action = s.action
    BY DEF WalletEnvelope
  <2>. QED  BY <1>2, <2>1, <2>2, <2>3, EnvelopeFaults
<1>. QED  BY <1>1, <1>2 DEF Names

(* From a source without inexact or unencodable text, at no limit of a     *)
(* budget, an adapter builds a well-formed envelope or none.               *)
LEMMA WellFormedEnvelopes ==
    ASSUME NEW n \in Names, NEW s \in Sources,
           BuildEnvelopeFault(n, s) = NoError,
           s.payload \notin {"boundary", "inexact", "unencodable"},
           SurrogateLabel \notin {s.task, s.model}
    PROVE  EnvelopeOf(n, s).form = "wellformed"
<1>1. EnvelopeOf(n, s).form \in ValidForms
  BY BuiltEnvelopes
<1>2. EnvelopeOf(n, s).form \in {"incomplete", "misshapen", s.payload}
  BY DEF EnvelopeOf, PoIEnvelope, PoIForm, WalletEnvelope
<1>. QED  BY <1>1, <1>2 DEF ValidForms

(* What an adapter raises ends in the same reason on both paths, and in    *)
(* one it declares.                                                        *)
LEMMA BuildFaults ==
    ASSUME NEW n \in Names, NEW s \in Sources, BuildEnvelopeFault(n, s) # NoError
    PROVE  /\ ReasonOf(BuildEnvelopeFault(n, s), V1!Clauses) \in ReasonIds \cap CommonReasons
           /\ ReasonOf(BuildEnvelopeFault(n, s), Bound!EnvelopeClauses) =
                 ReasonOf(BuildEnvelopeFault(n, s), V1!Clauses)
<1> DEFINE fault == BuildEnvelopeFault(n, s)
<1>1. fault \in {NoError, Raise("Other", Opaque), Raise("Contract", "INVALID_ENVELOPE"),
                 Raise("Validation", "MISSING_REQUIRED_FIELD"),
                 Raise("Validation", "SCHEMA_VIOLATION"),
                 Raise("Adapter", "ADAPTER_VALIDATION_FAILED")}
  BY EnvelopeFaults DEF BuildEnvelopeFault, PoIFault, WalletFault
<1> HIDE DEF fault
<1>2. fault # NoError
  BY DEF fault
<1>3. /\ fault.class \in {"Other", "Contract", "Validation", "Adapter"}
      /\ fault.class = "Other" \/ fault.message \in ReasonIds \cap CommonReasons
  BY <1>1, <1>2 DEF Raise, ReasonIds, CommonReasons
<1>4. /\ DOMAIN V1!Clauses = {"Validation", "Contract", "Policy", "Adapter"}
      /\ DOMAIN Bound!EnvelopeClauses = {"Validation", "Contract", "Adapter"}
  BY DEF V1!Clauses, Bound!EnvelopeClauses
<1>5. CASE fault.class = "Other"
  <2>1. /\ ReasonOf(fault, V1!Clauses) = "INTERNAL_ERROR"
        /\ ReasonOf(fault, Bound!EnvelopeClauses) = "INTERNAL_ERROR"
    BY <1>4, <1>5 DEF ReasonOf
  <2>. QED  BY <2>1 DEF fault, ReasonIds, CommonReasons
<1>6. CASE fault.class # "Other"
  <2>1. /\ ReasonOf(fault, V1!Clauses) = fault.message
        /\ ReasonOf(fault, Bound!EnvelopeClauses) = fault.message
    BY <1>3, <1>4, <1>6 DEF ReasonOf, ReasonFromError
  <2>. QED  BY <1>3, <1>6, <2>1 DEF fault
<1>. QED  BY <1>5, <1>6

(* What an adapter decides.                                                *)
LEMMA OwnOutputs ==
    ASSUME NEW n \in Names, NEW e
    PROVE  /\ OutputOf(n, e).adapter = n
           /\ OutputOf(n, e).task_type = e.task_type
           /\ OutputOf(n, e).context_hash = Sha256(e)
           /\ OutputOf(n, e).form \in {"wellformed", e.form}
           /\ OutputOf(n, e).accepted \in BOOLEAN
           /\ OutputOf(n, e).accepted <=> OutputOf(n, e).reason_id = Accepted
           /\ OutputOf(n, e).reason_id \in CommonReasons \cap (ReasonIds \cup {Accepted})
<1> DEFINE reason == IF n = "poi" THEN ReasonFor(e) ELSE Accepted
<1>1. reason \in {"UNSUPPORTED_TASK", "UNSUPPORTED_MODEL", Accepted}
  BY DEF ReasonFor
<1>2. reason \in CommonReasons \cap (ReasonIds \cup {Accepted})
  BY <1>1 DEF CommonReasons, ReasonIds, Accepted
<1> DEFINE accepted == reason = Accepted
           own      == OutputOf(n, e)
<1>3. own = [form |-> IF n = "poi" THEN "wellformed" ELSE e.form, adapter |-> n,
             task_type |-> e.task_type, accepted |-> accepted, reason_id |-> reason,
             context_hash |-> Sha256(e)]
  BY DEF OutputOf, ContextHash
<1>0. accepted \in BOOLEAN /\ (accepted <=> reason = Accepted)
  OBVIOUS
<1> HIDE DEF reason, accepted
<1>4. /\ own.adapter = n /\ own.task_type = e.task_type /\ own.context_hash = Sha256(e)
      /\ own.form = (IF n = "poi" THEN "wellformed" ELSE e.form)
      /\ own.reason_id = reason
  BY <1>3
<1>5. own.accepted = accepted
  BY <1>3
<1>6. own.accepted \in BOOLEAN /\ (own.accepted <=> reason = Accepted)
  BY <1>0, <1>5
<1> HIDE DEF own
<1>7. own.form \in {"wellformed", e.form}
  BY <1>4
<1>8. own.reason_id \in CommonReasons \cap (ReasonIds \cup {Accepted})
  BY <1>2, <1>4
<1>9. own.accepted <=> own.reason_id = Accepted
  BY <1>4, <1>6
<1>. QED  BY <1>4, <1>6, <1>7, <1>8, <1>9 DEF own

-----------------------------------------------------------------------------
(* The bound call.                                                         *)

LEMMA Requested ==
    ASSUME Inv, source # None
    PROVE  /\ source \in Sources
           /\ asked.name \in Names /\ asked.pack \in PolicyPacks
           /\ method \in V1!Methods /\ name = asked.name
           /\ live.source = LiveText(source) /\ live.pack = asked.pack
BY DEF Inv, RequestInv

(* What only depends on the request stays while the request does.          *)
LEMMA SameRequest ==
    ASSUME UNCHANGED <<adapters, asked, source>>
    PROVE  /\ Registers' <=> Registers
           /\ Env' = Env /\ EnvFault' = EnvFault /\ Own' = Own /\ Verdict' = Verdict
           /\ Declared' = Declared /\ CommonReason' = CommonReason
           /\ BoundOutput' = BoundOutput
           /\ \A reason : BoundRefuses(reason)' <=> BoundRefuses(reason)
<1> USE DEF Registers, Env, EnvFault, Own, Verdict, Declared
<1>1. /\ Registers' <=> Registers
      /\ Env' = Env /\ EnvFault' = EnvFault /\ Own' = Own /\ Verdict' = Verdict
      /\ Declared' = Declared
  OBVIOUS
<1>2. CommonReason' = CommonReason /\ BoundOutput' = BoundOutput /\ (Exact' <=> Exact)
  BY DEF CommonReason, BoundOutput, Exact
<1>3. ASSUME NEW reason PROVE BoundRefuses(reason)' <=> BoundRefuses(reason)
  BY <1>2 DEF BoundRefuses
<1>. QED  BY <1>1, <1>2, <1>3

(* A failure exit.                                                         *)
LEMMA BoundFails ==
    ASSUME NEW reason, BoundRefuses(reason), Bound!Fail(reason), UNCHANGED source
    PROVE  BoundInv'
<1>1. UNCHANGED <<adapters, asked, source>> /\ bpc' = "idle"
  BY DEF Bound!Fail, Bound!registry
<1>2. /\ bresult'.policy_binding = None
      /\ bresult'.output = Bound!FailureOutput(asked.name, blive.task, reason)
  BY DEF Bound!Fail
<1>3. /\ Bound!FailureOutput(asked.name, blive.task, reason).accepted = FALSE
      /\ Bound!FailureOutput(asked.name, blive.task, reason).reason_id = reason
  BY DEF Bound!FailureOutput
<1>4. bresult'.output.accepted = FALSE /\ bresult'.output.reason_id = reason
  BY <1>2, <1>3
<1>5. BoundRefuses(reason)'
  BY <1>1, SameRequest
<1>6. BoundAnswer'
  BY <1>2, <1>4, <1>5 DEF BoundAnswer
<1>. QED  BY <1>1, <1>6 DEF BoundInv, Bound!Blocks, Bound!AfterCapture, Bound!AfterManifest,
                          AfterBuild

LEMMA CapturePolicyKeeps ==
    ASSUME Inv, Bound!CapturePolicy, UNCHANGED source
    PROVE  BoundInv'
<1> DEFINE fault == Snapshotted(asked.pack, PolicyPackFault(asked.pack))
<1>1. bpc = "capture" /\ source # None /\ blive.pack = asked.pack /\ bresult = None
  BY DEF Inv, BoundInv, Bound!CapturePolicy
<1>2. asked.pack \in PolicyPacks
  BY <1>1, Requested
<1>3. fault = Bound!Snapshotted(blive.pack, Bound!PolicyPackFault(blive.pack))
  BY <1>1, BoundErrors, BoundValidators
<1>4. CASE fault = NoError
  <2>1. snapshot' = asked.pack /\ Bound!Goto("get_manifest")
    BY <1>1, <1>3, <1>4, BoundErrors DEF Bound!CapturePolicy
  <2>2. asked.pack.form \in UsableForms
    BY <1>2, <1>4, PackFaults
  <2>. QED  BY <1>1, <2>1, <2>2 DEF BoundInv, Bound!Goto, Bound!Blocks, Bound!AfterCapture,
                                   Bound!AfterManifest, AfterBuild
<1>5. CASE fault # NoError
  <2> DEFINE reason == ReasonFromError(fault, "SCHEMA_VIOLATION")
  <2>1. Bound!Fail(reason)
    BY <1>1, <1>3, <1>5, BoundErrors DEF Bound!CapturePolicy
  <2>2. reason \in ReasonIds \cap CommonReasons
    BY <1>2, PackFaults
  <2>3. asked.pack.form \notin UsableForms
    BY <1>2, <1>5, PackFaults
  <2>4. BoundRefuses(reason)
    BY <2>2, <2>3 DEF BoundRefuses, Exact, UsableForms
  <2> HIDE DEF reason
  <2>. QED  BY <2>1, <2>4, BoundFails
<1>. QED  BY <1>4, <1>5

(* A name that is filed is filed with its own adapter and manifest.        *)
LEMMA Filed ==
    ASSUME Inv, NEW n \in Names
    PROVE  /\ adapters[n] # None => manifests[n] = ManifestOf(n)
           /\ ManifestOf(n) # None
           /\ ManifestOf(n).form = "wellformed" /\ ManifestOf(n).adapter_id = n
           /\ Bound!Registry!GetFault(n) =
                 (IF adapters[n] = None THEN "ADAPTER_NOT_REGISTERED" ELSE "none")
           /\ Bound!Registry!GetManifestFault(n) = Bound!Registry!GetFault(n)
           /\ V1!Registry!GetFault(n) = Bound!Registry!GetFault(n)
           /\ V1!Registry!GetManifestFault(n) = Bound!Registry!GetFault(n)
<1>1. adapters[n] # None => manifests[n] = ManifestOf(n)
  BY DEF Inv, RegistryInv
<1>2. ManifestOf(n) # None
  BY BuiltinNoneAssumption DEF Manifests
<1>3. ManifestOf(n).form = "wellformed" /\ ManifestOf(n).adapter_id = n
  BY DEF ManifestOf, Names, PoIManifest, WalletManifest
<1>4. Bound!Registry!GetFault(n) =
         (IF adapters[n] = None THEN "ADAPTER_NOT_REGISTERED" ELSE "none")
  BY DEF Bound!Registry!GetFault, Bound!Registry!Registered
<1>5. V1!Registry!GetFault(n) = Bound!Registry!GetFault(n)
  BY <1>4 DEF V1!Registry!GetFault, V1!Registry!Registered
<1>6. /\ Bound!Registry!GetManifestFault(n) = Bound!Registry!GetFault(n)
      /\ V1!Registry!GetManifestFault(n) = V1!Registry!GetFault(n)
  BY <1>1, <1>2, <1>4, <1>5
     DEF Bound!Registry!GetManifestFault, V1!Registry!GetManifestFault
<1>. QED  BY <1>1, <1>2, <1>3, <1>4, <1>5, <1>6

LEMMA NotRegistered ==
    ASSUME ~ Registers
    PROVE  /\ BoundRefuses("ADAPTER_NOT_REGISTERED")
           /\ CommonReason = "ADAPTER_NOT_REGISTERED"
BY DEF BoundRefuses, CommonReason, ReasonIds

LEMMA GetManifestKeeps ==
    ASSUME Inv, Bound!GetManifest, UNCHANGED source
    PROVE  BoundInv'
<1>1. /\ bpc = "get_manifest" /\ source # None /\ bresult = None
      /\ snapshot = asked.pack /\ asked.pack.form \in UsableForms
  BY DEF Inv, BoundInv, Bound!GetManifest, Bound!AfterCapture, Bound!Blocks
<1>2. asked.name \in Names
  BY <1>1, Requested
<1>3. CASE ~ Registers
  <2>1. Bound!Registry!GetManifestFault(asked.name) = "ADAPTER_NOT_REGISTERED"
    BY <1>2, <1>3, Filed DEF Registers
  <2>2. Bound!Fail("ADAPTER_NOT_REGISTERED")
    BY <2>1 DEF Bound!GetManifest
  <2>. QED  BY <1>3, <2>2, NotRegistered, BoundFails
<1>4. CASE Registers
  <2>1. /\ Bound!Registry!GetManifestFault(asked.name) = "none"
        /\ manifests[asked.name] = ManifestOf(asked.name)
    BY <1>2, <1>4, Filed DEF Registers
  <2>2. Bound!Snapshotted(manifests[asked.name], Bound!NoError) = Bound!NoError
    BY <1>2, <2>1, Filed DEF Bound!Snapshotted, Bound!ExactForms
  <2>3. bmanifest' = ManifestOf(asked.name) /\ Bound!Goto("get_adapter") /\ UNCHANGED snapshot
    BY <2>1, <2>2 DEF Bound!GetManifest
  <2>4. UNCHANGED <<adapters, asked, source>> /\ bpc' = "get_adapter" /\ bresult' = bresult
    BY <2>3 DEF Bound!Goto, Bound!registry
  <2>5. Registers'
    BY <1>4, <2>4, SameRequest
  <2>. QED  BY <1>1, <2>3, <2>4, <2>5 DEF BoundInv, Bound!Blocks, Bound!AfterCapture,
                                   Bound!AfterManifest, AfterBuild
<1>. QED  BY <1>3, <1>4

LEMMA GetAdapterKeeps ==
    ASSUME Inv, Bound!GetAdapter, UNCHANGED source
    PROVE  BoundInv'
<1>1. /\ bpc = "get_adapter" /\ source # None /\ bresult = None
      /\ snapshot = asked.pack /\ asked.pack.form \in UsableForms
      /\ Registers /\ bmanifest = ManifestOf(asked.name)
  BY DEF Inv, BoundInv, Bound!GetAdapter, Bound!AfterCapture, Bound!AfterManifest, Bound!Blocks
<1>2. asked.name \in Names
  BY <1>1, Requested
<1>3. Bound!Registry!GetFault(asked.name) = "none"
  BY <1>1, <1>2, Filed DEF Registers
<1>4. Bound!Goto("build_envelope") /\ UNCHANGED Bound!locals
  BY <1>3 DEF Bound!GetAdapter
<1>5. /\ UNCHANGED <<adapters, asked, source, snapshot, bmanifest, bresult>>
      /\ bpc' = "build_envelope"
  BY <1>4 DEF Bound!Goto, Bound!registry, Bound!locals
<1>6. Registers'
  BY <1>1, <1>5, SameRequest
<1>. QED  BY <1>1, <1>5, <1>6 DEF BoundInv, Bound!Blocks, Bound!AfterCapture,
                                 Bound!AfterManifest, AfterBuild

(* Facts of the call once its envelope is built.                           *)
LEMMA EnvelopeFacts ==
    ASSUME Inv, source # None, EnvFault = NoError
    PROVE  /\ Env.adapter = asked.name /\ Env.action = source.action
           /\ Env.form \in ValidForms /\ EnvelopeFault(Env) = NoError
           /\ asked.name = "wallet" => source.action \in SUPPORTED_WALLET_ACTIONS
           /\ NoAction \notin Declared
<1>1. asked.name \in Names /\ source \in Sources
  BY Requested
<1>2. NoAction \notin Declared
  BY <1>1 DEF Declared, ManifestOf, PoIManifest, WalletManifest, SUPPORTED_WALLET_ACTIONS, NoAction
<1>3. /\ Env.adapter = asked.name /\ Env.action = source.action
      /\ Env.form \in ValidForms
      /\ asked.name = "wallet" => source.action \in SUPPORTED_WALLET_ACTIONS
  BY <1>1, BuiltEnvelopes DEF Env, EnvFault
<1>. QED  BY <1>2, <1>3, EnvelopeFaults

LEMMA BoundBuildsEnvelopeKeeps ==
    ASSUME Inv, bpc = "build_envelope", BoundBuildsEnvelope, UNCHANGED source
    PROVE  BoundInv'
<1>1. /\ source # None /\ bresult = None
      /\ snapshot = asked.pack /\ asked.pack.form \in UsableForms
      /\ Registers /\ bmanifest = ManifestOf(asked.name)
  BY DEF Inv, BoundInv, Bound!AfterCapture, Bound!AfterManifest, Bound!Blocks
<1>2. asked.name \in Names /\ source \in Sources
  BY <1>1, Requested
<1>3. CASE EnvFault # NoError
  <2> DEFINE reason == ReasonOf(EnvFault, V1!Clauses)
  <2>1. /\ reason \in ReasonIds \cap CommonReasons
        /\ ReasonOf(EnvFault, Bound!EnvelopeClauses) = reason
    BY <1>2, <1>3, BuildFaults DEF EnvFault
  <2>2. Bound!BuildEnvelopeRaises(EnvFault)
    BY <1>3 DEF BoundBuildsEnvelope, EnvFault
  <2>3. Bound!Fail(reason)
    BY <2>1, <2>2, BoundErrors DEF Bound!BuildEnvelopeRaises
  <2>4. CommonReason = reason
    BY <1>1, <1>3 DEF CommonReason
  <2> HIDE DEF reason
  <2>5. BoundRefuses(reason)
    BY <2>1, <2>4 DEF BoundRefuses
  <2>. QED  BY <2>3, <2>5, BoundFails
<1>4. CASE EnvFault = NoError
  <2>1. Bound!BuildEnvelopeReturns(Env)
    BY <1>4 DEF BoundBuildsEnvelope, EnvFault, Env
  <2>2. Env.form \in ValidForms /\ EnvelopeFault(Env) = NoError
    BY <1>1, <1>4, EnvelopeFacts
  <2>3. Bound!Snapshotted(Env, Bound!EnvelopeFault(Env)) = Snapshotted(Env, NoError)
    BY <2>2, BoundErrors, BoundValidators
  <2>4. CASE Env.form \in UsableForms
    <3>1. Snapshotted(Env, NoError) = NoError
      BY <2>4 DEF Snapshotted, ExactForms, UsableForms
    <3>2. benvelope' = Env /\ Bound!Goto("align") /\ UNCHANGED <<snapshot, bmanifest>>
      BY <2>1, <2>3, <3>1, BoundErrors DEF Bound!BuildEnvelopeReturns
    <3>3. UNCHANGED <<adapters, asked, source>> /\ bpc' = "align" /\ bresult' = bresult
      BY <3>2 DEF Bound!Goto, Bound!registry
    <3>4. Registers' /\ EnvFault' = NoError /\ Env' = Env
      BY <1>1, <1>4, <3>3, SameRequest
    <3>. QED  BY <1>1, <2>4, <3>2, <3>3, <3>4 DEF BoundInv, Bound!Blocks, Bound!AfterCapture,
                                     Bound!AfterManifest, AfterBuild
  <2>5. CASE Env.form \notin UsableForms
    <3> DEFINE fault == Raise("Validation", "SCHEMA_VIOLATION")
    <3>1. Snapshotted(Env, NoError) = fault
      BY <2>2, <2>5 DEF Snapshotted, ExactForms, UsableForms, ValidForms
    <3>2. fault # NoError
      BY DEF Raise, NoError
    <3>3. ReasonOf(fault, Bound!EnvelopeClauses) = "SCHEMA_VIOLATION"
      BY DEF ReasonOf, ReasonFromError, Raise, Bound!EnvelopeClauses
    <3> HIDE DEF fault
    <3>4. Bound!Fail("SCHEMA_VIOLATION")
      BY <2>1, <2>3, <3>1, <3>2, <3>3, BoundErrors DEF Bound!BuildEnvelopeReturns
    <3>5. BoundRefuses("SCHEMA_VIOLATION")
      BY <1>4, <2>5 DEF BoundRefuses, ReasonIds, CommonReasons, UsableForms
    <3>. QED  BY <3>4, <3>5, BoundFails
  <2>. QED  BY <2>4, <2>5
<1>. QED  BY <1>3, <1>4

LEMMA AlignEnvelopeKeeps ==
    ASSUME Inv, Bound!AlignEnvelope, UNCHANGED source
    PROVE  BoundInv'
<1>1. /\ bpc = "align" /\ source # None /\ bresult = None
      /\ snapshot = asked.pack /\ asked.pack.form \in UsableForms
      /\ Registers /\ bmanifest = ManifestOf(asked.name)
      /\ EnvFault = NoError /\ benvelope = Env /\ Env.form \in UsableForms
  BY DEF Inv, BoundInv, Bound!AlignEnvelope, Bound!AfterCapture, Bound!AfterManifest,
         Bound!Blocks, AfterBuild
<1>2. asked.name \in Names /\ ManifestOf(asked.name).adapter_id = asked.name
  BY <1>1, Requested, Filed
<1>3. /\ Env.adapter = asked.name /\ Env.action = source.action
      /\ NoAction \notin Declared
  BY <1>1, EnvelopeFacts
<1>4. CASE source.action \in Declared
  <2>1. Bound!Goto("enforce") /\ UNCHANGED Bound!locals
    BY <1>1, <1>2, <1>3, <1>4, BoundPolicy DEF Bound!AlignEnvelope, Declared
  <2>2. /\ UNCHANGED <<adapters, asked, source, snapshot, bmanifest, benvelope, bresult>>
        /\ bpc' = "enforce"
    BY <2>1 DEF Bound!Goto, Bound!registry, Bound!locals
  <2>3. Registers' /\ EnvFault' = NoError /\ Env' = Env /\ Declared' = Declared
    BY <1>1, <2>2, SameRequest
  <2>. QED  BY <1>1, <1>4, <2>2, <2>3 DEF BoundInv, Bound!Blocks, Bound!AfterCapture,
                                   Bound!AfterManifest, AfterBuild
<1>5. CASE source.action \notin Declared
  <2>1. Bound!Fail("ADAPTER_VALIDATION_FAILED")
    BY <1>1, <1>2, <1>3, <1>5, BoundPolicy DEF Bound!AlignEnvelope, Declared
  <2>2. CommonReason = "ADAPTER_VALIDATION_FAILED"
    BY <1>1, <1>5 DEF CommonReason
  <2>3. BoundRefuses("ADAPTER_VALIDATION_FAILED")
    BY <2>2 DEF BoundRefuses, ReasonIds, CommonReasons
  <2>. QED  BY <2>1, <2>3, BoundFails
<1>. QED  BY <1>4, <1>5

(* What the blocks after align share.                                      *)
LEMMA BoundSoFar ==
    ASSUME Inv, bpc \in AfterBuild \ {"align"}
    PROVE  /\ source # None /\ bresult = None
           /\ snapshot = asked.pack /\ asked.pack.form \in UsableForms
           /\ Registers /\ bmanifest = ManifestOf(asked.name)
           /\ EnvFault = NoError /\ benvelope = Env /\ Env.form \in UsableForms
           /\ source.action \in Declared
BY DEF Inv, BoundInv, Bound!AfterCapture, Bound!AfterManifest, Bound!Blocks, AfterBuild

(* A step from one of these blocks to a later one.                         *)
LEMMA BoundGoesOn ==
    ASSUME Inv, bpc \in AfterBuild \ {"align"}, UNCHANGED source,
           NEW block \in AfterBuild \ {"align", "enforce"}, Bound!Goto(block),
           UNCHANGED <<snapshot, bmanifest, benvelope>>,
           block = "build_output" => Verdict = Accepted,
           block \in {"receipt", "handoff", "bind"} => boutput' = BoundOutput,
           block \in {"handoff", "bind"} =>
              receipt' = ReceiptFor(ManifestOf(asked.name), Env, BoundOutput),
           block = "bind" => handoff' = HandoffFor(Env, BoundOutput)
    PROVE  BoundInv'
<1>1. UNCHANGED <<adapters, asked, source>> /\ bpc' = block /\ bresult' = bresult
  BY DEF Bound!Goto, Bound!registry
<1>2. /\ Registers' <=> Registers
      /\ Env' = Env /\ EnvFault' = EnvFault /\ Verdict' = Verdict
      /\ Declared' = Declared /\ BoundOutput' = BoundOutput
  BY <1>1, SameRequest
<1>. QED  BY <1>1, <1>2, BoundSoFar
         DEF BoundInv, Bound!Blocks, Bound!AfterCapture, Bound!AfterManifest, AfterBuild

LEMMA EnforcePolicyKeeps ==
    ASSUME Inv, Bound!EnforcePolicy, UNCHANGED source
    PROVE  BoundInv'
<1>1. bpc = "enforce" /\ bpc \in AfterBuild \ {"align"}
  BY DEF Bound!EnforcePolicy, Bound!EnforceWith, AfterBuild
<1>2. /\ snapshot = asked.pack /\ asked.pack.form \in UsableForms /\ benvelope = Env
      /\ asked.pack \in PolicyPacks
  BY <1>1, BoundSoFar, Requested
<1>3. PolicyPackFault(asked.pack) = NoError
  BY <1>2, PackFaults DEF UsableForms, ValidForms
<1> DEFINE fault == Bound!PolicyFault(snapshot, asked.name, benvelope)
<1>4. fault = IF Verdict # Accepted THEN Raise("Policy", Verdict) ELSE NoError
  BY <1>2, <1>3, BoundPolicy DEF PolicyFault, Verdict
<1>5. CASE Verdict = Accepted
  <2>1. fault = Bound!NoError
    BY <1>4, <1>5, BoundErrors
  <2>2. /\ Bound!Goto("build_output")
        /\ UNCHANGED <<snapshot, bmanifest, benvelope>>
    BY <2>1 DEF Bound!EnforcePolicy, Bound!EnforceWith
  <2>3. "build_output" \in AfterBuild \ {"align", "enforce"}
    BY DEF AfterBuild
  <2>. QED  BY <1>1, <1>5, <2>2, <2>3, BoundGoesOn
<1>6. CASE Verdict # Accepted
  <2> DEFINE reason == Bound!ReasonFromError(fault, "POLICY_DENIED")
  <2>1. fault = Raise("Policy", Verdict)
    BY <1>4, <1>6
  <2>2. fault # Bound!NoError /\ fault.class = "Policy" /\ fault.message = Verdict
    BY <2>1, BoundErrors DEF NoError, Raise
  <2>3. Verdict \in ReasonIds
    BY <1>6, Verdicts DEF Verdict, ReasonIds
  <2>4. reason = Verdict
    BY <2>2, <2>3, BoundErrors DEF ReasonFromError
  <2> HIDE DEF fault, reason
  <2>5. /\ Bound!Goto("receipt")
        /\ boutput' = Bound!RejectedOutput(benvelope, reason)
        /\ UNCHANGED <<snapshot, bmanifest, benvelope>>
    BY <2>2 DEF Bound!EnforcePolicy, Bound!EnforceWith, fault, reason
  <2>6. boutput' = BoundOutput
    BY <1>2, <1>6, <2>4, <2>5 DEF BoundOutput
  <2>7. "receipt" \in AfterBuild \ {"align", "enforce"}
    BY DEF AfterBuild
  <2>. QED  BY <1>1, <2>5, <2>6, <2>7, BoundGoesOn
<1>. QED  BY <1>5, <1>6

(* The output of the bound path, which is the adapter's or a denial.       *)
LEMMA BoundOutputs ==
    ASSUME Inv, source # None, EnvFault = NoError, Env.form \in UsableForms
    PROVE  /\ BoundOutput.form \in {"wellformed", Env.form}
           /\ BoundOutput.adapter = asked.name
           /\ BoundOutput.task_type = Env.task_type
           /\ BoundOutput.context_hash = Sha256(Env)
           /\ BoundOutput.accepted \in BOOLEAN
           /\ BoundOutput.accepted <=> BoundOutput.reason_id = Accepted
           /\ BoundOutput.reason_id \in CommonReasons \cap (ReasonIds \cup {Accepted})
           /\ Hashable(Env) /\ Hashable(BoundOutput)
<1>1. Env.adapter = asked.name /\ asked.name \in Names
  BY EnvelopeFacts, Requested
<1>2. CASE Verdict = Accepted
  <2>1. BoundOutput = OutputOf(asked.name, Env)
    BY <1>2 DEF BoundOutput, Own
  <2> DEFINE own == OutputOf(asked.name, Env)
  <2>2. /\ own.form \in {"wellformed", Env.form} /\ own.adapter = asked.name
        /\ own.task_type = Env.task_type /\ own.context_hash = Sha256(Env)
        /\ own.accepted \in BOOLEAN /\ (own.accepted <=> own.reason_id = Accepted)
        /\ own.reason_id \in CommonReasons \cap (ReasonIds \cup {Accepted})
    BY <1>1, OwnOutputs
  <2> HIDE DEF own
  <2>3. Hashable(Env) /\ Hashable(own)
    BY <2>2 DEF Hashable, EncodableForms, UsableForms
  <2>. QED  BY <2>1, <2>2, <2>3 DEF own
<1>3. CASE Verdict # Accepted
  <2> DEFINE denied == Bound!RejectedOutput(Env, Verdict)
  <2>1. BoundOutput = denied
    BY <1>3 DEF BoundOutput
  <2>2. /\ denied.form = "wellformed" /\ denied.adapter = asked.name
        /\ denied.task_type = Env.task_type /\ denied.context_hash = Sha256(Env)
        /\ denied.accepted = FALSE /\ denied.reason_id = Verdict
    BY <1>1 DEF Bound!RejectedOutput, Bound!Sha256, Sha256
  <2>3. Verdict \in CommonReasons \cap ReasonIds
    BY <1>3, Verdicts DEF Verdict, ReasonIds, CommonReasons
  <2> HIDE DEF denied
  <2>4. Hashable(Env) /\ Hashable(denied)
    BY <2>2 DEF Hashable, EncodableForms, UsableForms
  <2>. QED  BY <1>3, <2>1, <2>2, <2>3, <2>4
<1>. QED  BY <1>2, <1>3

LEMMA BoundBuildsOutputKeeps ==
    ASSUME Inv, bpc = "build_output", BoundBuildsOutput, UNCHANGED source
    PROVE  BoundInv'
<1>1. bpc \in AfterBuild \ {"align"} /\ Verdict = Accepted
  BY DEF Inv, BoundInv, AfterBuild
<1>2. /\ source # None /\ EnvFault = NoError /\ benvelope = Env /\ Env.form \in UsableForms
      /\ bmanifest = ManifestOf(asked.name) /\ asked.name \in Names
  BY <1>1, BoundSoFar, Requested
<1>3. BoundOutput = Own /\ ManifestOf(asked.name).adapter_id = asked.name
  BY <1>1, <1>2, Filed DEF BoundOutput
<1>4. /\ Own.form \in UsableForms
      /\ Own.adapter = asked.name /\ Own.task_type = Env.task_type
      /\ Hashable(Env)
  BY <1>2, <1>3, BoundOutputs DEF UsableForms
<1>5. Bound!BuildOutputReturns(Own)
  BY <1>2, <1>4 DEF BoundBuildsOutput, HashFault, Own
<1>6. Bound!Snapshotted(Own, Bound!OutputFault(Own)) = NoError
  <2>1. OutputFault(Own) = NoError
    BY <1>4 DEF OutputFault, Fault, UsableForms, ValidForms
  <2>2. Snapshotted(Own, NoError) = NoError
    BY <1>4 DEF Snapshotted, ExactForms, UsableForms
  <2>. QED  BY <2>1, <2>2, BoundErrors, BoundValidators
<1>7. Bound!OutputAlignmentFault(bmanifest, benvelope, Own) = NoError
  <2>1. Bound!Subscripts(Env, Env.task_type)
    BY <1>2 DEF Bound!Subscripts, UsableForms
  <2>. QED  BY <1>2, <1>3, <1>4, <2>1, BoundErrors DEF Bound!OutputAlignmentFault
<1>8. /\ boutput' = BoundOutput /\ Bound!Goto("receipt")
      /\ UNCHANGED <<snapshot, bmanifest, benvelope>>
  BY <1>3, <1>5, <1>6, <1>7, BoundErrors DEF Bound!BuildOutputReturns
<1>9. "receipt" \in AfterBuild \ {"align", "enforce"}
  BY DEF AfterBuild
<1>. QED  BY <1>1, <1>8, <1>9, BoundGoesOn

LEMMA BuildReceiptKeeps ==
    ASSUME Inv, Bound!BuildReceipt, UNCHANGED source
    PROVE  BoundInv'
<1>1. bpc = "receipt" /\ bpc \in AfterBuild \ {"align"} /\ boutput = BoundOutput
  BY DEF Inv, BoundInv, Bound!BuildReceipt, AfterBuild
<1>2. /\ source # None /\ EnvFault = NoError /\ benvelope = Env /\ Env.form \in UsableForms
      /\ bmanifest = ManifestOf(asked.name)
  BY <1>1, BoundSoFar
<1>3. Bound!ReceiptBuilds(benvelope, boutput)
  BY <1>1, <1>2, BoundOutputs, BoundBuilders DEF ReceiptBuilds
<1>4. /\ receipt' = Bound!ReceiptFor(bmanifest, benvelope, boutput) /\ Bound!Goto("handoff")
      /\ UNCHANGED <<snapshot, bmanifest, benvelope, boutput>>
  BY <1>3 DEF Bound!BuildReceipt
<1>5. receipt' = ReceiptFor(ManifestOf(asked.name), Env, BoundOutput) /\ boutput' = BoundOutput
  BY <1>1, <1>2, <1>4, BoundBuilders
<1>6. "handoff" \in AfterBuild \ {"align", "enforce"}
  BY DEF AfterBuild
<1>. QED  BY <1>1, <1>4, <1>5, <1>6, BoundGoesOn

LEMMA BuildHandoffKeeps ==
    ASSUME Inv, Bound!BuildHandoff, UNCHANGED source
    PROVE  BoundInv'
<1>1. /\ bpc = "handoff" /\ bpc \in AfterBuild \ {"align"} /\ boutput = BoundOutput
      /\ receipt = ReceiptFor(ManifestOf(asked.name), Env, BoundOutput)
  BY DEF Inv, BoundInv, Bound!BuildHandoff, AfterBuild
<1>2. source # None /\ EnvFault = NoError /\ benvelope = Env /\ Env.form \in UsableForms
  BY <1>1, BoundSoFar
<1>3. HandoffBuilds(Env, BoundOutput, ReceiptFor(ManifestOf(asked.name), Env, BoundOutput))
  BY <1>2, BoundOutputs DEF HandoffBuilds, ReceiptFor
<1>4. Bound!HandoffBuilds(benvelope, boutput, receipt)
  BY <1>1, <1>2, <1>3, BoundBuilders
<1>5. /\ handoff' = Bound!HandoffFor(benvelope, boutput) /\ Bound!Goto("bind")
      /\ UNCHANGED <<snapshot, bmanifest, benvelope, boutput, receipt>>
  BY <1>4 DEF Bound!BuildHandoff
<1>6. handoff' = HandoffFor(Env, BoundOutput)
  BY <1>1, <1>2, <1>5, BoundBuilders
<1>7. "bind" \in AfterBuild \ {"align", "enforce"}
  BY DEF AfterBuild
<1>. QED  BY <1>1, <1>5, <1>6, <1>7, BoundGoesOn

(* Binding fails only for an envelope at the limit of the budgets.         *)
LEMMA Binds ==
    ASSUME Inv, source # None, EnvFault = NoError, Env.form = "wellformed"
    PROVE  BindingBuilds(Env, BoundOutput,
                         ReceiptFor(ManifestOf(asked.name), Env, BoundOutput),
                         HandoffFor(Env, BoundOutput))
<1> DEFINE o == BoundOutput
           r == ReceiptFor(ManifestOf(asked.name), Env, o)
           h == HandoffFor(Env, o)
<1>1. /\ o.form = "wellformed" /\ o.adapter = asked.name /\ o.task_type = Env.task_type
      /\ o.context_hash = Sha256(Env) /\ o.accepted \in BOOLEAN
      /\ o.accepted <=> o.reason_id = Accepted
      /\ o.reason_id \in ReasonIds \cup {Accepted}
  BY BoundOutputs DEF UsableForms
<1>2. Env.adapter = asked.name /\ ManifestOf(asked.name).adapter_id = asked.name
  BY EnvelopeFacts, Requested, Filed
<1> HIDE DEF o
<1>3. /\ r.adapter_id = asked.name /\ r.envelope_hash = Sha256(Env)
      /\ r.output_hash = Sha256(o) /\ r.policy_decision = Decision(o)
      /\ r.reason_id = o.reason_id /\ r.determinism_profile = DeterminismProfile
  BY <1>2 DEF ReceiptFor
<1>4. /\ h.adapter = o.adapter /\ h.task_type = o.task_type
      /\ h.policy_decision = Decision(o) /\ h.reason_id = o.reason_id
      /\ h.envelope_hash = Sha256(Env) /\ h.output_hash = Sha256(o)
      /\ h.context_hash = o.context_hash
  BY DEF HandoffFor
<1> HIDE DEF r, h
<1>5. HandoffValid(h)
  <2>1. Sha256(Env) # MalformedHash
    BY DEF Sha256, MalformedHash
  <2>. QED  BY <1>1, <1>4, <2>1 DEF HandoffValid
<1>6. ReasonSemantics(Decision(o), o.reason_id)
  <2>1. CASE o.accepted
    BY <1>1, <2>1 DEF ReasonSemantics, Decision
  <2>2. CASE ~ o.accepted
    <3>1. Decision(o) = "rejected"
      BY <2>2 DEF Decision
    <3>2. o.reason_id \in ReasonIds
      BY <1>1, <2>2
    <3>. QED  BY <3>1, <3>2 DEF ReasonSemantics
  <2>. QED  BY <2>1, <2>2
<1>7. BindingBuilds(Env, o, r, h)
  BY <1>1, <1>2, <1>3, <1>4, <1>5, <1>6 DEF BindingBuilds
<1>. QED  BY <1>7 DEF o, r, h

LEMMA BindPolicyKeeps ==
    ASSUME Inv, Bound!BindPolicy, UNCHANGED source
    PROVE  BoundInv'
<1> DEFINE r == ReceiptFor(ManifestOf(asked.name), Env, BoundOutput)
           h == HandoffFor(Env, BoundOutput)
<1>1. /\ bpc = "bind" /\ bpc \in AfterBuild \ {"align"} /\ boutput = BoundOutput
      /\ receipt = r /\ handoff = h
  BY DEF Inv, BoundInv, Bound!BindPolicy, Bound!BindUnless, AfterBuild
<1>2. /\ source # None /\ EnvFault = NoError /\ benvelope = Env /\ Env.form \in UsableForms
      /\ Registers /\ snapshot = asked.pack /\ asked.pack.form \in UsableForms
      /\ source.action \in Declared
  BY <1>1, BoundSoFar
<1>3. Bound!BindingBuilds(benvelope, boutput, receipt, handoff)
         <=> BindingBuilds(Env, BoundOutput, r, h)
  BY <1>1, <1>2, BoundBuilders
<1>4. CASE Env.form = "wellformed"
  <2>1. BindingBuilds(Env, BoundOutput, r, h)
    BY <1>2, <1>4, Binds
  <2>2. Bound!ReturnBound(Bound!BindingFor(snapshot, receipt, handoff))
    BY <1>3, <2>1 DEF Bound!BindPolicy, Bound!BindUnless
  <2>3. /\ bpc' = "idle" /\ UNCHANGED <<adapters, asked, source>>
        /\ bresult' = [output |-> BoundOutput, receipt |-> r, handoff |-> h,
                       policy_binding |-> BindingFor(asked.pack, r, h)]
    BY <1>1, <1>2, <2>2, BoundBuilders DEF Bound!ReturnBound, Bound!registry
  <2>4. /\ Registers' <=> Registers
        /\ Env' = Env /\ EnvFault' = EnvFault
        /\ Declared' = Declared /\ BoundOutput' = BoundOutput
    BY <2>3, SameRequest
  <2>5. r' = r /\ h' = h
    BY <2>3, <2>4
  <2>6. BoundAnswer'
    BY <1>2, <1>4, <2>3, <2>4, <2>5 DEF BoundAnswer, Built
  <2>. QED  BY <2>3, <2>6 DEF BoundInv, Bound!Blocks, Bound!AfterCapture, Bound!AfterManifest,
                              AfterBuild
<1>5. CASE Env.form # "wellformed"
  <2>1. ~ BindingBuilds(Env, BoundOutput, r, h)
    BY <1>5 DEF BindingBuilds
  <2>2. Bound!Fail("INTERNAL_ERROR")
    BY <1>3, <2>1 DEF Bound!BindPolicy, Bound!BindUnless
  <2>3. BoundRefuses("INTERNAL_ERROR")
    BY <1>2, <1>5 DEF BoundRefuses, ReasonIds, CommonReasons
  <2>. QED  BY <2>2, <2>3, BoundFails
<1>. QED  BY <1>4, <1>5

-----------------------------------------------------------------------------
(* The V1 call.                                                            *)

(* What only depends on the request and the method.                        *)
LEMMA SameCall ==
    ASSUME UNCHANGED <<adapters, asked, source, method, name, live>>
    PROVE  /\ Registers' <=> Registers
           /\ Env' = Env /\ EnvFault' = EnvFault /\ Own' = Own /\ CommonReason' = CommonReason
           /\ Passed' <=> Passed
           /\ Justified' <=> Justified
           /\ \A reason : RejectedFor(reason)' <=> RejectedFor(reason)
<1>1. /\ Registers' <=> Registers
      /\ Env' = Env /\ EnvFault' = EnvFault /\ Own' = Own /\ Verdict' = Verdict
      /\ Declared' = Declared /\ CommonReason' = CommonReason
  BY SameRequest
<1>2. Passed' <=> Passed
  BY <1>1 DEF Passed
<1>3. Comparable' <=> Comparable
  BY <1>1 DEF Comparable
<1>4. Justified' <=> Justified
  BY <1>1, <1>3 DEF Justified
<1>5. ASSUME NEW reason PROVE RejectedFor(reason)' <=> RejectedFor(reason)
  BY <1>1, <1>3 DEF RejectedFor
<1>. QED  BY <1>1, <1>2, <1>4, <1>5

LEMMA Rejections ==
    ASSUME NEW reason, RejectedFor(reason)
    PROVE  /\ Justified
           /\ reason \in ReasonIds
           /\ Registers => reason \in CommonReasons
BY DEF RejectedFor, Justified, ReasonIds, Accepted

(* A returned result is no exception.                                      *)
LEMMA ReturnedResult ==
    ASSUME NEW o, NEW r, NEW h, V1!Return(o, r, h)
    PROVE  /\ UNCHANGED <<adapters, manifests, method, name, live>>
           /\ pc' = "idle"
           /\ result' # V1!Raised
           /\ result'.output = o /\ result'.receipt = r /\ result'.handoff = h
<1>1. /\ UNCHANGED <<adapters, manifests, method, name, live>>
      /\ pc' = "idle"
      /\ result' = [output |-> o, receipt |-> r, handoff |-> h]
  BY DEF V1!Return, V1!registry, V1!call
<1>2. "raised" \in DOMAIN V1!Raised /\ "raised" \notin DOMAIN result'
  BY <1>1 DEF V1!Raised
<1>. QED  BY <1>1, <1>2

(* The artifacts of a rejection.                                           *)
LEMMA FailClosedArtifacts ==
    ASSUME NEW n, NEW s, NEW reason
    PROVE  /\ V1!FailClosed(n, s, reason).accepted = FALSE
           /\ V1!FailClosed(n, s, reason).reason_id = reason
BY DEF V1!FailClosed

(* A call returns a rejection.                                             *)
LEMMA ReturnsRejection ==
    ASSUME Inv, source # None, UNCHANGED <<source, boundVars>>,
           NEW reason, RejectedFor(reason), NEW o, NEW r, NEW h, V1!Return(o, r, h),
           o.accepted = FALSE, o.reason_id = reason
    PROVE  V1Inv'
<1>1. /\ UNCHANGED <<adapters, asked, source, method, name, live>>
      /\ pc' = "idle" /\ result'.output = o
  BY ReturnedResult DEF boundVars
<1>2. Justified /\ reason \in ReasonIds /\ (Registers => reason \in CommonReasons)
  BY Rejections
<1>3. /\ Justified' /\ RejectedFor(reason)' /\ (Registers' => reason \in CommonReasons)
  BY <1>1, <1>2, SameCall
<1>4. V1Answer'
  BY <1>1, <1>2, <1>3 DEF V1Answer
<1>. QED  BY <1>1, <1>3, <1>4 DEF V1Inv, V1!Blocks, V1!Callbacks

(* An exception leaves the gateway.                                        *)
LEMMA Escapes ==
    ASSUME Inv, UNCHANGED <<source, boundVars>>, V1!Escape, Justified
    PROVE  V1Inv'
<1>1. /\ UNCHANGED <<adapters, asked, source, method, name, live>>
      /\ pc' = "idle" /\ result' = V1!Raised
  BY DEF V1!Escape, V1!registry, V1!call, boundVars
<1>2. Justified'
  BY <1>1, SameCall
<1>. QED  BY <1>1, <1>2 DEF V1Inv, V1!Blocks, V1!Callbacks

(* What an except clause does.                                             *)
LEMMA RejectKeeps ==
    ASSUME Inv, UNCHANGED <<source, boundVars>>,
           pc \in V1!Blocks \ {"get_manifest"},
           NEW reason, RejectedFor(reason), V1!Reject(reason)
    PROVE  V1Inv'
<1> DEFINE e == V1!FailClosedEnvelope(name, live.source)
           o == V1!FailClosed(name, live.source, reason)
<1>1. /\ source # None /\ result = None
      /\ method # "process" => Registers /\ manifest = ManifestOf(asked.name)
  BY DEF Inv, V1Inv, V1!Blocks
<1>2. CASE ~ V1!FailsClosed(name, live.source)
  <2>1. V1!Escape
    BY <1>2 DEF V1!Reject
  <2>. QED  BY <2>1, Rejections, Escapes
<1>3. CASE V1!FailsClosed(name, live.source)
  <2>1. V1!Settle(e, o)
    BY <1>3 DEF V1!Reject
  <2>2. o.accepted = FALSE /\ o.reason_id = reason
    BY FailClosedArtifacts, ZenonT(60)
  <2>3. CASE method \notin V1!Proving
    <3>1. V1!Return(o, None, None)
      BY <2>1, <2>3 DEF V1!Settle
    <3> HIDE DEF o
    <3>. QED  BY <1>1, <2>2, <3>1, ReturnsRejection
  <2>4. CASE method \in V1!Proving
    <3>1. /\ UNCHANGED <<adapters, asked, source, method, name, live, manifest>>
          /\ pc' = "evidence" /\ envelope' = e /\ output' = o /\ result' = None
      BY <1>1, <2>1, <2>4 DEF V1!Settle, V1!registry, V1!call, boundVars
    <3>2. Registers /\ method # "process" /\ method \in V1!Proving
      BY <1>1, <2>4 DEF V1!Proving
    <3>3. reason \in CommonReasons /\ Justified
      BY <3>2, Rejections
    <3>4. Registers' /\ RejectedFor(reason)' /\ Justified'
      BY <3>1, <3>2, <3>3, SameCall
    <3>5. V1Components'
      BY <1>3, <3>1, <3>3, <3>4 DEF V1Components
    <3>. QED  BY <1>1, <3>1, <3>2, <3>4, <3>5 DEF V1Inv, V1!Blocks, V1!Callbacks
  <2>. QED  BY <2>3, <2>4
<1>. QED  BY <1>2, <1>3

LEMMA NotRegisteredV1 ==
    ASSUME ~ Registers
    PROVE  RejectedFor("ADAPTER_NOT_REGISTERED")
BY NotRegistered DEF RejectedFor, ReasonIds

LEMMA V1GetManifestKeeps ==
    ASSUME Inv, V1!GetManifest, UNCHANGED <<source, boundVars>>
    PROVE  V1Inv'
<1>1. pc = "get_manifest" /\ source # None /\ result = None /\ method # "process"
  BY DEF Inv, V1Inv, V1!GetManifest
<1>2. name = asked.name /\ asked.name \in Names
  BY <1>1, Requested
<1>3. CASE Registers
  <2>1. V1!Registry!GetManifestFault(name) = "none" /\ manifests[name] = ManifestOf(asked.name)
    BY <1>2, <1>3, Filed DEF Registers
  <2>2. /\ UNCHANGED <<adapters, asked, source, method, name, live, result>>
        /\ pc' = "get_adapter" /\ manifest' = ManifestOf(asked.name)
    BY <2>1 DEF V1!GetManifest, V1!registry, V1!call, boundVars
  <2>3. Registers'
    BY <1>3, <2>2, SameCall
  <2>. QED  BY <1>1, <2>2, <2>3 DEF V1Inv, V1!Blocks, V1!Callbacks
<1>4. CASE ~ Registers
  <2> DEFINE o == V1!FailClosed(name, live.source, "ADAPTER_NOT_REGISTERED")
  <2>1. V1!Registry!GetManifestFault(name) = "ADAPTER_NOT_REGISTERED"
    BY <1>2, <1>4, Filed DEF Registers
  <2>2. V1!Return(o, None, None)
    BY <2>1 DEF V1!GetManifest
  <2>3. o.accepted = FALSE /\ o.reason_id = "ADAPTER_NOT_REGISTERED"
    BY FailClosedArtifacts, ZenonT(60)
  <2> HIDE DEF o
  <2>. QED  BY <1>1, <1>4, <2>2, <2>3, NotRegisteredV1, ReturnsRejection
<1>. QED  BY <1>3, <1>4

LEMMA V1GetAdapterKeeps ==
    ASSUME Inv, V1!GetAdapter, UNCHANGED <<source, boundVars>>
    PROVE  V1Inv'
<1>1. /\ pc = "get_adapter" /\ source # None /\ result = None
      /\ pc \in V1!Blocks \ {"get_manifest"}
      /\ method # "process" => Registers /\ manifest = ManifestOf(asked.name)
  BY DEF Inv, V1Inv, V1!GetAdapter, V1!Blocks
<1>2. name = asked.name /\ asked.name \in Names
  BY <1>1, Requested
<1>3. CASE Registers
  <2>1. V1!Registry!GetFault(name) = "none"
    BY <1>2, <1>3, Filed DEF Registers
  <2>2. /\ UNCHANGED <<adapters, asked, source, method, name, live, manifest, result>>
        /\ pc' = "build_envelope"
    BY <2>1 DEF V1!GetAdapter, V1!registry, V1!call, V1!locals, boundVars
  <2>3. Registers'
    BY <1>3, <2>2, SameCall
  <2>. QED  BY <1>1, <2>2, <2>3 DEF V1Inv, V1!Blocks, V1!Callbacks
<1>4. CASE ~ Registers
  <2>1. V1!Registry!GetFault(name) = "ADAPTER_NOT_REGISTERED"
    BY <1>2, <1>4, Filed DEF Registers
  <2>2. V1!Reject("ADAPTER_NOT_REGISTERED")
    BY <2>1 DEF V1!GetAdapter
  <2>. QED  BY <1>1, <1>4, <2>2, NotRegisteredV1, RejectKeeps
<1>. QED  BY <1>3, <1>4

(* What the gateway finds wrong with an envelope an adapter has built is   *)
(* what both paths would.                                                  *)
LEMMA V1Checks ==
    ASSUME Inv, pc = "build_envelope", EnvFault = NoError
    PROVE  /\ V1!EnvelopeChecks(Env) = NoError => Passed
           /\ V1!EnvelopeChecks(Env) # NoError =>
                 RejectedFor(ReasonOf(V1!EnvelopeChecks(Env), V1!Clauses))
<1>1. /\ source # None /\ Registers
      /\ method # "process" => manifest = ManifestOf(asked.name)
  BY DEF Inv, V1Inv, V1!Callbacks, V1!Blocks
<1>2. /\ name = asked.name /\ asked.name \in Names /\ live.pack = asked.pack
      /\ asked.pack \in PolicyPacks /\ ManifestOf(asked.name).adapter_id = asked.name
  BY <1>1, Requested, Filed
<1>3. /\ Env.adapter = asked.name /\ Env.action = source.action
      /\ Env.form \in ValidForms
  BY <1>1, EnvelopeFacts
<1>4. \A value : V1!Subscripts(Env, value)
  BY <1>3 DEF V1!Subscripts, ValidForms
<1>5. CASE method = "process"
  BY <1>1, <1>5, V1Errors DEF V1!EnvelopeChecks, Passed, V1!Judging
<1>6. CASE method # "process" /\ source.action \notin Declared \cup {NoAction}
  <2> DEFINE fault == Raise("Adapter", "ADAPTER_VALIDATION_FAILED")
  <2>1. V1!EnvelopeAlignmentFault(Env) = fault
    BY <1>1, <1>2, <1>3, <1>4, <1>6, V1Errors DEF V1!EnvelopeAlignmentFault, Declared
  <2>2. fault # NoError
    BY DEF Raise, NoError
  <2>3. ReasonOf(fault, V1!Clauses) = "ADAPTER_VALIDATION_FAILED"
    BY DEF ReasonOf, ReasonFromError, Raise, V1!Clauses, ReasonIds
  <2> HIDE DEF fault
  <2>4. V1!EnvelopeChecks(Env) = fault
    BY <1>6, <2>1, <2>2, V1Errors DEF V1!EnvelopeChecks
  <2>5. CommonReason = "ADAPTER_VALIDATION_FAILED"
    BY <1>1, <1>6 DEF CommonReason
  <2>6. RejectedFor("ADAPTER_VALIDATION_FAILED")
    BY <2>5 DEF RejectedFor, ReasonIds, CommonReasons
  <2>. QED  BY <2>2, <2>3, <2>4, <2>6
<1>7. CASE method # "process" /\ source.action \in Declared \cup {NoAction}
  <2> DEFINE fault == V1!EnforceFault(Env)
  <2>1. V1!EnvelopeAlignmentFault(Env) = NoError
    BY <1>1, <1>2, <1>3, <1>4, <1>7, V1Errors DEF V1!EnvelopeAlignmentFault, Declared
  <2>2. V1!EnvelopeChecks(Env) = fault
    BY <1>7, <2>1, V1Errors DEF V1!EnvelopeChecks
  <2>3. fault = IF method \notin V1!Judging THEN NoError
                ELSE IF PolicyPackFault(asked.pack) # NoError THEN PolicyPackFault(asked.pack)
                ELSE IF Verdict # Accepted THEN Raise("Policy", Verdict)
                ELSE NoError
    BY <1>2, <1>4, V1Errors DEF V1!EnforceFault, PolicyFault, Verdict
  <2> HIDE DEF fault
  <2>4. CASE method \notin V1!Judging
    BY <1>1, <1>7, <2>2, <2>3, <2>4 DEF Passed
  <2>5. CASE method \in V1!Judging /\ PolicyPackFault(asked.pack) # NoError
    <3> DEFINE reason == ReasonOf(PolicyPackFault(asked.pack), V1!Clauses)
    <3>1. reason \in ReasonIds \cap CommonReasons /\ asked.pack.form \notin ValidForms
      BY <1>2, <2>5, PackFaults
    <3> HIDE DEF reason
    <3>2. RejectedFor(reason)
      BY <3>1 DEF RejectedFor, Comparable, UsableForms, ValidForms
    <3>. QED  BY <2>2, <2>3, <2>5, <3>2 DEF reason
  <2>6. CASE method \in V1!Judging /\ PolicyPackFault(asked.pack) = NoError /\ Verdict # Accepted
    <3>1. fault = Raise("Policy", Verdict)
      BY <2>3, <2>6
    <3>2. Verdict \in ReasonIds \cap CommonReasons
      BY <2>6, Verdicts DEF Verdict, ReasonIds, CommonReasons
    <3>3. fault # NoError /\ ReasonOf(fault, V1!Clauses) = Verdict
      BY <3>1, <3>2 DEF ReasonOf, ReasonFromError, Raise, NoError, V1!Clauses
    <3>4. source.action # NoAction => CommonReason = Verdict
      BY <1>1, <1>7, <2>6 DEF CommonReason
    <3>5. RejectedFor(Verdict)
      BY <3>2, <3>4 DEF RejectedFor, Comparable
    <3>. QED  BY <2>2, <3>3, <3>5
  <2>7. CASE method \in V1!Judging /\ PolicyPackFault(asked.pack) = NoError /\ Verdict = Accepted
    <3>1. fault = NoError
      BY <2>3, <2>7
    <3>2. asked.pack.form \in ValidForms
      BY <1>2, <2>7, PackFaults
    <3>. QED  BY <1>1, <1>7, <2>2, <2>7, <3>1, <3>2 DEF Passed
  <2>. QED  BY <2>4, <2>5, <2>6, <2>7
<1>. QED  BY <1>5, <1>6, <1>7

LEMMA V1BuildsEnvelopeKeeps ==
    ASSUME Inv, pc = "build_envelope", V1BuildsEnvelope, UNCHANGED <<source, boundVars>>
    PROVE  V1Inv'
<1>1. /\ source # None /\ result = None /\ Registers
      /\ pc \in V1!Blocks \ {"get_manifest"}
      /\ method # "process" => manifest = ManifestOf(asked.name)
  BY DEF Inv, V1Inv, V1!Callbacks, V1!Blocks
<1>2. name = asked.name /\ asked.name \in Names /\ source \in Sources
  BY <1>1, Requested
<1>3. CASE EnvFault # NoError
  <2> DEFINE reason == ReasonOf(EnvFault, V1!Clauses)
  <2>1. reason \in ReasonIds \cap CommonReasons
    BY <1>2, <1>3, BuildFaults DEF EnvFault
  <2>2. CommonReason = reason
    BY <1>1, <1>3 DEF CommonReason
  <2>3. V1!CallbackRaises(EnvFault)
    BY <1>2, <1>3 DEF V1BuildsEnvelope, EnvFault
  <2>4. V1!Reject(reason)
    BY <2>3, V1Errors DEF V1!CallbackRaises
  <2> HIDE DEF reason
  <2>5. RejectedFor(reason)
    BY <2>1, <2>2 DEF RejectedFor
  <2>. QED  BY <1>1, <2>4, <2>5, RejectKeeps
<1>4. CASE EnvFault = NoError
  <2>1. V1!BuildEnvelopeReturns(Env)
    BY <1>2, <1>4 DEF V1BuildsEnvelope, EnvFault, Env
  <2>2. CASE V1!EnvelopeChecks(Env) = NoError
    <3>1. /\ UNCHANGED <<adapters, asked, source, method, name, live, manifest, result>>
          /\ pc' = "build_output" /\ envelope' = Env
      BY <2>1, <2>2, V1Errors DEF V1!BuildEnvelopeReturns, V1!registry, V1!call, boundVars
    <3>2. Passed
      BY <1>4, <2>2, V1Checks
    <3>3. Registers' /\ Passed' /\ Env' = Env
      BY <1>1, <3>1, <3>2, SameCall
    <3>. QED  BY <1>1, <3>1, <3>3 DEF V1Inv, V1!Blocks, V1!Callbacks
  <2>3. CASE V1!EnvelopeChecks(Env) # NoError
    <3> DEFINE reason == ReasonOf(V1!EnvelopeChecks(Env), V1!Clauses)
    <3>1. V1!Reject(reason)
      BY <2>1, <2>3, V1Errors DEF V1!BuildEnvelopeReturns
    <3>2. RejectedFor(reason)
      BY <1>4, <2>3, V1Checks
    <3> HIDE DEF reason
    <3>. QED  BY <1>1, <3>1, <3>2, RejectKeeps
  <2>. QED  BY <2>2, <2>3
<1>. QED  BY <1>3, <1>4

(* The adapter's own output passes every check.                            *)
LEMMA OwnFacts ==
    ASSUME Inv, source # None, EnvFault = NoError
    PROVE  /\ Own.adapter = asked.name /\ Own.task_type = Env.task_type
           /\ Own.form \in ValidForms
           /\ Hashable(Env) => Hashable(Own)
           /\ Own.accepted <=> Own.reason_id = Accepted
           /\ Own.reason_id \in CommonReasons \cap (ReasonIds \cup {Accepted})
<1>1. asked.name \in Names /\ Env.form \in ValidForms
  BY Requested, EnvelopeFacts
<1> DEFINE own == OutputOf(asked.name, Env)
<1>2. /\ own.adapter = asked.name /\ own.task_type = Env.task_type
      /\ own.form \in {"wellformed", Env.form}
      /\ own.accepted <=> own.reason_id = Accepted
      /\ own.reason_id \in CommonReasons \cap (ReasonIds \cup {Accepted})
  BY <1>1, OwnOutputs
<1>3. Own = own
  BY DEF Own
<1> HIDE DEF own
<1>4. own.form \in ValidForms /\ (Hashable(Env) => Hashable(own))
  BY <1>1, <1>2 DEF ValidForms, Hashable, EncodableForms
<1>. QED  BY <1>2, <1>3, <1>4

LEMMA V1BuildsOutputKeeps ==
    ASSUME Inv, pc = "build_output", V1BuildsOutput, UNCHANGED <<source, boundVars>>
    PROVE  V1Inv'
<1>1. /\ source # None /\ result = None /\ Registers
      /\ pc \in V1!Blocks \ {"get_manifest"} /\ pc \in V1!Callbacks
      /\ method # "process" => manifest = ManifestOf(asked.name)
      /\ envelope = Env /\ Passed
  BY DEF Inv, V1Inv, V1!Callbacks, V1!Blocks
<1>2. /\ name = asked.name /\ asked.name \in Names /\ EnvFault = NoError
      /\ ManifestOf(asked.name).adapter_id = asked.name
  BY <1>1, Requested, Filed DEF Passed
<1>3. CASE ~ Hashable(Env)
  <2> DEFINE fault == Raise("Other", Opaque)
  <2>1. HashFault(envelope) = fault
    BY <1>1, <1>3 DEF HashFault
  <2>2. fault # NoError
    BY DEF Raise, NoError
  <2>3. ReasonOf(fault, V1!Clauses) = "INTERNAL_ERROR"
    BY DEF ReasonOf, Raise, V1!Clauses
  <2> HIDE DEF fault
  <2>4. V1!Reject("INTERNAL_ERROR")
    BY <2>1, <2>2, <2>3, V1Errors DEF V1BuildsOutput, V1!CallbackRaises
  <2>5. RejectedFor("INTERNAL_ERROR")
    BY <1>2, <1>3 DEF RejectedFor, Comparable, ReasonIds, CommonReasons
  <2>. QED  BY <1>1, <2>4, <2>5, RejectKeeps
<1>4. CASE Hashable(Env)
  <2>1. /\ Own.adapter = asked.name /\ Own.task_type = Env.task_type
        /\ Own.form \in ValidForms /\ Env.form \in ValidForms
    BY <1>1, <1>2, OwnFacts, EnvelopeFacts
  <2>2. V1!BuildOutputReturns(Own)
    BY <1>1, <1>2, <1>4 DEF V1BuildsOutput, HashFault, Own
  <2>3. /\ \A value : V1!Subscripts(Own, value) /\ V1!Subscripts(Env, value)
        /\ Own.form # "misversioned"
    BY <2>1 DEF V1!Subscripts, ValidForms
  <2>4. V1!OutputChecks(Own) = NoError
    BY <1>1, <1>2, <2>1, <2>3, V1Errors DEF V1!OutputChecks, V1!OutputAlignmentFault
  <2>5. V1!Settle(Env, Own)
    BY <1>1, <2>2, <2>4, V1Errors DEF V1!BuildOutputReturns
  <2>6. CASE method \in V1!Proving
    <3>1. /\ UNCHANGED <<adapters, asked, source, method, name, live, manifest, result>>
          /\ pc' = "evidence" /\ envelope' = Env /\ output' = Own
      BY <2>5, <2>6 DEF V1!Settle, V1!registry, V1!call, boundVars
    <3>2. Registers' /\ Passed' /\ Env' = Env /\ Own' = Own
      BY <1>1, <3>1, SameCall
    <3>3. V1Components'
      BY <1>4, <3>1, <3>2 DEF V1Components
    <3>. QED  BY <1>1, <2>6, <3>1, <3>2, <3>3 DEF V1Inv, V1!Blocks, V1!Callbacks
  <2>7. CASE method \notin V1!Proving
    <3>1. V1!Return(Own, None, None)
      BY <2>5, <2>7 DEF V1!Settle
    <3>2. /\ UNCHANGED <<adapters, asked, source, method, name, live>>
          /\ pc' = "idle" /\ result' # V1!Raised /\ result'.output = Own
      BY <3>1, ReturnedResult DEF boundVars
    <3>3. Registers' /\ Passed' /\ Env' = Env /\ Own' = Own
      BY <1>1, <3>2, SameCall
    <3>4. method' # "governed"
      BY <2>7, <3>2 DEF V1!Proving
    <3>5. V1Answer'
      BY <1>4, <3>2, <3>3, <3>4 DEF V1Answer
    <3>. QED  BY <1>1, <3>2, <3>3, <3>5 DEF V1Inv, V1!Blocks, V1!Callbacks
  <2>. QED  BY <2>6, <2>7
<1>. QED  BY <1>3, <1>4

(* The artifacts of a rejection can be hashed unless they quote a lone     *)
(* surrogate of the source.                                                *)
LEMMA FailClosedHashable ==
    ASSUME Inv, source # None, SurrogateLabel \notin {source.task, source.model},
           V1!FailsClosed(name, live.source), NEW reason
    PROVE  /\ Hashable(V1!FailClosedEnvelope(name, live.source))
           /\ Hashable(V1!FailClosed(name, live.source, reason))
<1> DEFINE s == live.source
           task == V1!TaskOf(name, s)
           model == V1!ModelOf(name, s)
<1>1. /\ name \in {"poi", "wallet"} /\ live.source = LiveText(source)
      /\ source \in Sources
  BY Requested DEF Names
<1>2. /\ SurrogateLabel \notin Labels /\ name \in Labels
      /\ {"unknown", "wallet_operation", "fail_closed_v1", "wallet-v1"} \subseteq Labels
  BY <1>1, LabelsAssumption, BuiltinAssumption
<1>3. s = None \/ (s.task = source.task /\ s.model = source.model)
  BY <1>1 DEF LiveText
<1>4. task # SurrogateLabel /\ model # SurrogateLabel /\ name # SurrogateLabel
  BY <1>2, <1>3 DEF V1!TaskOf, V1!ModelOf, V1!Usable
<1> HIDE DEF s, task, model
<1>5. /\ V1!FormOf({name, task, model}) \in {"misshapen", "wellformed"}
      /\ V1!FormOf({name, task, model}) = "wellformed" => V1!FormOf({name, task}) = "wellformed"
  BY <1>4 DEF V1!FormOf, V1!SurrogateLabel, V1!BlankLabel, V1!NoLabel, SurrogateLabel,
              BlankLabel, NoLabel
<1>6. /\ V1!FailClosedEnvelope(name, live.source).form = V1!FormOf({name, task, model})
      /\ V1!FailClosed(name, live.source, reason).form = V1!FormOf({name, task})
  BY DEF V1!FailClosedEnvelope, V1!FailClosed, task, model, s
<1>7. V1!FailClosedEnvelope(name, live.source).form \in ValidForms
  BY V1Errors, EnvelopeFaults DEF V1!FailsClosed
<1>8. V1!FormOf({name, task, model}) = "wellformed"
  BY <1>5, <1>6, <1>7 DEF ValidForms
<1>. QED  BY <1>5, <1>6, <1>8 DEF Hashable, EncodableForms

LEMMA EvidenceBuildsIf ==
    ASSUME NEW e, NEW o
    PROVE  V1!EvidenceBuilds(e, o) <=> Hashable(e) /\ Hashable(o)
<1>1. V1!ReceiptBuilds(e, o) <=> Hashable(e) /\ Hashable(o)
  BY V1Builders
<1>2. V1!HandoffBuilds(e, o, V1!ReceiptFor(manifest, e, o)) <=> Hashable(e) /\ Hashable(o)
  BY V1Builders
<1>. QED  BY <1>1, <1>2 DEF V1!EvidenceBuilds

(* The first attempt fails, if at all, on the artifacts of a rejection;    *)
(* the fallback then rejects too.                                          *)
LEMMA BuildEvidenceKeeps ==
    ASSUME Inv, V1!BuildEvidence, UNCHANGED <<source, boundVars>>
    PROVE  V1Inv'
<1>1. /\ pc = "evidence" /\ source # None /\ result = None
      /\ method \in V1!Proving /\ V1Components
      /\ Registers /\ manifest = ManifestOf(asked.name)
  BY DEF Inv, V1Inv, V1!BuildEvidence, V1!Blocks, V1!Proving
<1>2. CASE envelope = Env /\ output = Own /\ Passed /\ Hashable(Env)
  <2>1. Hashable(envelope) /\ Hashable(output)
    BY <1>1, <1>2, OwnFacts DEF Passed
  <2>2. V1!ReturnEvidence(envelope, output)
    BY <2>1, EvidenceBuildsIf DEF V1!BuildEvidence
  <2> DEFINE r == V1!ReceiptFor(manifest, envelope, output)
             h == IF method = "governed" THEN V1!HandoffFor(envelope, output) ELSE None
  <2>3. V1!Return(output, r, h)
    BY <2>2 DEF V1!ReturnEvidence
  <2>4. /\ r = ReceiptFor(ManifestOf(asked.name), Env, Own)
        /\ method = "governed" => h = HandoffFor(Env, Own)
    BY <1>1, <1>2, V1Builders
  <2> HIDE DEF r, h
  <2>5. /\ UNCHANGED <<adapters, asked, source, method, name, live>>
        /\ pc' = "idle" /\ result' # V1!Raised
        /\ result'.output = Own /\ result'.receipt = r /\ result'.handoff = h
    BY <1>2, <2>3, ReturnedResult DEF boundVars
  <2>6. Registers' /\ Passed' /\ Env' = Env /\ Own' = Own
    BY <1>1, <1>2, <2>5, SameCall
  <2>7. V1Answer'
    BY <1>2, <2>4, <2>5, <2>6 DEF V1Answer
  <2>. QED  BY <1>1, <2>5, <2>6, <2>7 DEF V1Inv, V1!Blocks, V1!Callbacks
<1>3. CASE /\ V1!FailsClosed(name, live.source)
           /\ envelope = V1!FailClosedEnvelope(name, live.source)
           /\ \E reason \in CommonReasons :
                 /\ output = V1!FailClosed(name, live.source, reason)
                 /\ RejectedFor(reason)
  <2>1. PICK reason \in CommonReasons :
           /\ output = V1!FailClosed(name, live.source, reason)
           /\ RejectedFor(reason)
    BY <1>3
  <2>2. output.accepted = FALSE /\ output.reason_id = reason
    BY <2>1, FailClosedArtifacts, ZenonT(60)
  <2>3. CASE V1!EvidenceBuilds(envelope, output)
    <3>1. V1!ReturnEvidence(envelope, output)
      BY <2>3 DEF V1!BuildEvidence
    <3>2. \E r, h : V1!Return(output, r, h)
      BY <3>1 DEF V1!ReturnEvidence
    <3>. QED  BY <1>1, <2>1, <2>2, <3>2, ReturnsRejection
  <2>4. CASE ~ V1!EvidenceBuilds(envelope, output)
    <3> DEFINE o == V1!FailClosed(name, live.source, "INTERNAL_ERROR")
               e == V1!FailClosedEnvelope(name, live.source)
    <3>1. SurrogateLabel \in {source.task, source.model}
      BY <1>1, <1>3, <2>1, <2>4, EvidenceBuildsIf, FailClosedHashable
    <3>2. V1!FallBack
      BY <2>4 DEF V1!BuildEvidence
    <3>3. o.accepted = FALSE /\ o.reason_id = "INTERNAL_ERROR"
      BY FailClosedArtifacts
    <3>4. Justified
      BY <2>1, Rejections
    <3>5. V1!Escape \/ \E r, h : V1!Return(o, r, h)
      BY <3>2 DEF V1!FallBack, V1!ReturnEvidence
    <3> HIDE DEF o, e
    <3>6. CASE V1!Escape
      BY <3>4, <3>6, Escapes
    <3>7. CASE \E r, h : V1!Return(o, r, h)
      <4>1. /\ UNCHANGED <<adapters, asked, source, method, name, live>>
            /\ pc' = "idle" /\ result' # V1!Raised /\ result'.output = o
        BY <3>7, ReturnedResult DEF boundVars
      <4>2. Justified'
        BY <3>4, <4>1, SameCall
      <4>3. V1Answer'
        BY <3>1, <3>3, <4>1, <4>2 DEF V1Answer, ReasonIds, CommonReasons
      <4>. QED  BY <4>1, <4>3 DEF V1Inv, V1!Blocks, V1!Callbacks
    <3>. QED  BY <3>5, <3>6, <3>7
  <2>. QED  BY <2>3, <2>4
<1>. QED  BY <1>1, <1>2, <1>3 DEF V1Components

-----------------------------------------------------------------------------
(* The invariant is inductive.                                             *)

LEMMA BoundSame ==
    ASSUME UNCHANGED <<adapters, source, boundVars>>
    PROVE  BoundInv' <=> BoundInv
<1>1. /\ UNCHANGED <<adapters, asked, source>>
      /\ UNCHANGED <<bpc, blive, snapshot, bmanifest, benvelope, boutput, receipt, handoff,
                     bresult>>
  BY DEF boundVars
<1>2. /\ Registers' <=> Registers
      /\ Env' = Env /\ EnvFault' = EnvFault /\ Verdict' = Verdict
      /\ Declared' = Declared /\ BoundOutput' = BoundOutput
      /\ \A reason : BoundRefuses(reason)' <=> BoundRefuses(reason)
  BY <1>1, SameRequest
<1>3. BoundAnswer' <=> BoundAnswer
  BY <1>1, <1>2 DEF BoundAnswer, Built
<1>. QED  BY <1>1, <1>2, <1>3 DEF BoundInv

LEMMA V1Same ==
    ASSUME UNCHANGED <<adapters, asked, source, v1Vars>>
    PROVE  V1Inv' <=> V1Inv
<1>1. /\ UNCHANGED <<adapters, asked, source>>
      /\ UNCHANGED <<pc, method, name, live, manifest, envelope, output, result>>
  BY DEF v1Vars
<1>2. /\ Registers' <=> Registers
      /\ Env' = Env /\ Own' = Own
      /\ (Passed' <=> Passed) /\ (Justified' <=> Justified)
      /\ \A reason : RejectedFor(reason)' <=> RejectedFor(reason)
  BY <1>1, SameCall
<1>3. V1Answer' <=> V1Answer
  BY <1>1, <1>2 DEF V1Answer
<1>4. V1Components' <=> V1Components
  BY <1>1, <1>2 DEF V1Components
<1>. QED  BY <1>1, <1>2, <1>3, <1>4 DEF V1Inv

LEMMA InitHolds == Init => Inv
<1> SUFFICES ASSUME Init PROVE Inv
  OBVIOUS
<1>1. RegistryInv
  BY DEF Init, RegistryInv
<1>2. RequestInv
  BY DEF Init, RequestInv
<1>3. BoundInv
  BY DEF Init, BoundInv, Bound!Blocks, Bound!AfterCapture, Bound!AfterManifest, AfterBuild
<1>4. V1Inv
  BY DEF Init, V1Inv, V1!Blocks, V1!Callbacks
<1>. QED  BY <1>1, <1>2, <1>3, <1>4 DEF Inv

LEMMA RequestKeeps ==
    ASSUME Inv, NEW m \in V1!Methods, NEW n \in Names, NEW s \in Sources, NEW p \in PolicyPacks,
           Request(m, n, s, p)
    PROVE  Inv'
<1>1. /\ source' = s /\ s # None
      /\ UNCHANGED <<adapters, manifests>>
  BY BuiltinNoneAssumption DEF Request, Bound!Call, Bound!registry
<1>2. /\ bpc' = "capture" /\ asked' = [name |-> n, pack |-> p] /\ bresult' = None
      /\ blive'.pack = p
  BY DEF Request, Bound!Call
<1>3. /\ pc' = (IF m = "process" THEN "get_adapter" ELSE "get_manifest")
      /\ method' = m /\ name' = n /\ result' = None
      /\ live' = [source |-> LiveText(s), pack |-> p]
  BY DEF Request, V1!Call
<1>4. RegistryInv'
  BY <1>1 DEF Inv, RegistryInv
<1>5. RequestInv'
  BY <1>1, <1>2, <1>3 DEF RequestInv
<1>6. BoundInv'
  BY <1>1, <1>2 DEF BoundInv, Bound!Blocks, Bound!AfterCapture, Bound!AfterManifest, AfterBuild
<1>7. V1Inv'
  <2>1. pc' \in {"get_adapter", "get_manifest"} /\ (pc' = "get_manifest" <=> m # "process")
    BY <1>3
  <2>. QED  BY <1>1, <1>3, <2>1 DEF V1Inv, V1!Blocks, V1!Callbacks
<1>. QED  BY <1>4, <1>5, <1>6, <1>7 DEF Inv

LEMMA BoundStepKeeps ==
    ASSUME Inv, BoundStep
    PROVE  Inv'
<1>1. UNCHANGED <<source, v1Vars>>
  BY DEF BoundStep
<1>2. bpc # "idle" /\ UNCHANGED <<adapters, manifests, asked>>
  <2> USE DEF Bound!Goto, Bound!Fail, Bound!registry
  <2>1. CASE Bound!CapturePolicy
    BY <2>1 DEF Bound!CapturePolicy
  <2>2. CASE Bound!GetManifest
    BY <2>2 DEF Bound!GetManifest
  <2>3. CASE Bound!GetAdapter
    BY <2>3 DEF Bound!GetAdapter
  <2>4. CASE bpc = "build_envelope" /\ BoundBuildsEnvelope
    BY <2>4 DEF BoundBuildsEnvelope, Bound!BuildEnvelopeReturns, Bound!BuildEnvelopeRaises
  <2>5. CASE Bound!AlignEnvelope
    BY <2>5 DEF Bound!AlignEnvelope
  <2>6. CASE Bound!EnforcePolicy
    BY <2>6 DEF Bound!EnforcePolicy, Bound!EnforceWith
  <2>7. CASE bpc = "build_output" /\ BoundBuildsOutput
    BY <2>7 DEF BoundBuildsOutput, Bound!BuildOutputReturns, Bound!BuildOutputRaises
  <2>8. CASE Bound!BuildReceipt
    BY <2>8 DEF Bound!BuildReceipt
  <2>9. CASE Bound!BuildHandoff
    BY <2>9 DEF Bound!BuildHandoff
  <2>10. CASE Bound!BindPolicy
    BY <2>10 DEF Bound!BindPolicy, Bound!BindUnless, Bound!ReturnBound
  <2>. QED  BY <2>1, <2>2, <2>3, <2>4, <2>5, <2>6, <2>7, <2>8, <2>9, <2>10 DEF BoundStep
<1>3. source # None
  BY <1>2 DEF Inv, BoundInv
<1>4. RegistryInv'
  BY <1>2 DEF Inv, RegistryInv
<1>5. RequestInv'
  BY <1>1, <1>2, <1>3 DEF Inv, RequestInv, v1Vars
<1>6. BoundInv'
  BY <1>1, CapturePolicyKeeps, GetManifestKeeps, GetAdapterKeeps, BoundBuildsEnvelopeKeeps,
     AlignEnvelopeKeeps, EnforcePolicyKeeps, BoundBuildsOutputKeeps, BuildReceiptKeeps,
     BuildHandoffKeeps, BindPolicyKeeps
     DEF BoundStep
<1>7. V1Inv'
  BY <1>1, <1>2, V1Same DEF Inv
<1>. QED  BY <1>4, <1>5, <1>6, <1>7 DEF Inv

LEMMA V1StepKeeps ==
    ASSUME Inv, V1Step
    PROVE  Inv'
<1>1. UNCHANGED <<source, boundVars>>
  BY DEF V1Step
<1>2. pc # "idle" /\ UNCHANGED <<adapters, manifests, method, name, live>>
  <2> USE DEF V1!Escape, V1!Return, V1!Settle, V1!Reject, V1!registry, V1!call
  <2>1. CASE V1!GetManifest
    BY <2>1 DEF V1!GetManifest
  <2>2. CASE V1!GetAdapter
    BY <2>2 DEF V1!GetAdapter
  <2>3. CASE pc = "build_envelope" /\ V1BuildsEnvelope
    BY <2>3 DEF V1BuildsEnvelope, V1!BuildEnvelopeReturns, V1!CallbackRaises
  <2>4. CASE pc = "build_output" /\ V1BuildsOutput
    BY <2>4 DEF V1BuildsOutput, V1!BuildOutputReturns, V1!CallbackRaises
  <2>5. CASE V1!BuildEvidence
    BY <2>5 DEF V1!BuildEvidence, V1!ReturnEvidence, V1!FallBack
  <2>. QED  BY <2>1, <2>2, <2>3, <2>4, <2>5 DEF V1Step
<1>3. source # None /\ UNCHANGED asked
  BY <1>1, <1>2 DEF Inv, V1Inv, boundVars
<1>4. RegistryInv'
  BY <1>2 DEF Inv, RegistryInv
<1>5. RequestInv'
  BY <1>1, <1>2, <1>3 DEF Inv, RequestInv
<1>6. BoundInv'
  BY <1>1, <1>2, BoundSame DEF Inv
<1>7. V1Inv'
  BY <1>1, V1GetManifestKeeps, V1GetAdapterKeeps, V1BuildsEnvelopeKeeps, V1BuildsOutputKeeps,
     BuildEvidenceKeeps
     DEF V1Step
<1>. QED  BY <1>4, <1>5, <1>6, <1>7 DEF Inv

LEMMA StepKeeps == Inv /\ [Next]_vars => Inv'
<1> SUFFICES ASSUME Inv, [Next]_vars PROVE Inv'
  OBVIOUS
<1>1. CASE RequestAny
  BY <1>1, RequestKeeps DEF RequestAny
<1>2. CASE BoundStep
  BY <1>2, BoundStepKeeps
<1>3. CASE V1Step
  BY <1>3, V1StepKeeps
<1>4. CASE UNCHANGED vars
  <2>1. UNCHANGED <<adapters, manifests, source, boundVars, v1Vars>>
    BY <1>4 DEF vars
  <2>2. UNCHANGED <<adapters, manifests, source, asked, bpc, bresult>>
        /\ UNCHANGED <<pc, method, name, live, result>>
    BY <2>1 DEF boundVars, v1Vars
  <2>3. RegistryInv' /\ RequestInv'
    BY <2>2 DEF Inv, RegistryInv, RequestInv
  <2>4. BoundInv' /\ V1Inv'
    BY <2>1, <2>2, BoundSame, V1Same DEF Inv
  <2>. QED  BY <2>3, <2>4 DEF Inv
<1>. QED  BY <1>1, <1>2, <1>3, <1>4 DEF Next

(* At every block of either path, and in both answers, the decision so far *)
(* is the one the shared checks give for this request                      *)
(* (gateway.py:192-282, 423-679).                                          *)
THEOREM InvHolds == Spec => []Inv
BY InitHolds, StepKeeps, PTL DEF Spec

-----------------------------------------------------------------------------
(* The properties.                                                         *)

LEMMA Answers ==
    ASSUME Inv, Answered
    PROVE  /\ source # None /\ source \in Sources
           /\ name = asked.name /\ asked.name \in Names /\ asked.pack \in PolicyPacks
           /\ BoundAnswer
           /\ result = V1!Raised => Justified
           /\ result # V1!Raised => V1Answer
<1>1. source # None
  BY BuiltinNoneAssumption DEF Inv, RequestInv, Answered
<1>2. /\ source \in Sources
      /\ name = asked.name /\ asked.name \in Names /\ asked.pack \in PolicyPacks
  BY <1>1, Requested
<1>. QED  BY <1>1, <1>2 DEF Inv, BoundInv, V1Inv, Answered

(* The bound path decided, and its caller holds the evidence.              *)
BoundEvidence ==
    /\ Built /\ Env.form = "wellformed" /\ source.action \in Declared
    /\ bresult.output = BoundOutput
    /\ bresult.receipt = ReceiptFor(ManifestOf(asked.name), Env, BoundOutput)
    /\ bresult.handoff = HandoffFor(Env, BoundOutput)
    /\ bresult.policy_binding # None

(* A bound answer is a refusal without a binding or evidence with one.     *)
LEMMA BoundAnswers ==
    ASSUME Inv, Answered
    PROVE  \/ /\ bresult.policy_binding = None /\ bresult.output.accepted = FALSE
              /\ BoundRefuses(bresult.output.reason_id)
           \/ BoundEvidence
<1> DEFINE m == ManifestOf(asked.name)
           r == ReceiptFor(m, Env, BoundOutput)
           h == HandoffFor(Env, BoundOutput)
           b == BindingFor(asked.pack, r, h)
<1>1. SUFFICES ASSUME /\ Built /\ Env.form = "wellformed" /\ source.action \in Declared
                      /\ bresult = [output |-> BoundOutput, receipt |-> r, handoff |-> h,
                                    policy_binding |-> b]
               PROVE  BoundEvidence
  BY Answers DEF BoundAnswer
<1>2. /\ source # None /\ source \in Sources /\ asked.name \in Names
      /\ asked.pack \in PolicyPacks /\ EnvFault = NoError
  BY <1>1, Answers DEF Built
<1>3. Env \in Envelopes /\ Env.adapter = asked.name
  BY <1>2, EnvelopeFacts DEF Envelopes, Env
<1>4. BoundOutput \in Outputs \cup {Bound!RejectedOutput(Env, reason) : reason \in ReasonIds}
  <2>1. Own \in Outputs
    BY <1>2 DEF Own, Env, Outputs
  <2>2. Verdict # Accepted => Verdict \in ReasonIds
    BY Verdicts DEF Verdict, ReasonIds
  <2>. QED  BY <2>1, <2>2 DEF BoundOutput
<1>5. b # None
  <2> DEFINE o == BoundOutput
  <2>1. o \in Outputs \cup {Bound!RejectedOutput(Env, reason) : reason \in ReasonIds}
    BY <1>4
  <2> HIDE DEF o
  <2>2. BindingFor(asked.pack, ReceiptFor(ManifestOf(Env.adapter), Env, o), HandoffFor(Env, o))
           # None
    BY <1>2, <1>3, <2>1, BuiltinNoneAssumption
  <2>. QED  BY <1>3, <2>2 DEF o
<1> HIDE DEF r, h, b
<1>6. /\ bresult.output = BoundOutput /\ bresult.receipt = r /\ bresult.handoff = h
      /\ bresult.policy_binding = b
  BY <1>1
<1>. QED  BY <1>1, <1>5, <1>6 DEF BoundEvidence, r, h

(* What a bound decision says is the reason of the checks both paths share.*)
LEMMA BoundReason ==
    ASSUME Inv, Answered, BoundEvidence
    PROVE  /\ bresult.output.reason_id = CommonReason
           /\ bresult.output.accepted \in BOOLEAN
           /\ bresult.output.accepted <=> CommonReason = Accepted
           /\ CommonReason \in CommonReasons
           /\ Verdict = Accepted => bresult.output = Own
           /\ bresult.output.accepted => Verdict = Accepted
<1>1. /\ source # None /\ EnvFault = NoError /\ Registers /\ source.action \in Declared
      /\ Env.form \in UsableForms /\ bresult.output = BoundOutput
  BY Answers DEF BoundEvidence, Built, UsableForms
<1>2. /\ BoundOutput.accepted \in BOOLEAN
      /\ BoundOutput.accepted <=> BoundOutput.reason_id = Accepted
      /\ BoundOutput.reason_id \in CommonReasons
  BY <1>1, BoundOutputs
<1>3. CASE Verdict = Accepted
  <2>1. BoundOutput = Own /\ CommonReason = Own.reason_id
    BY <1>1, <1>3 DEF BoundOutput, CommonReason
  <2>. QED  BY <1>1, <1>2, <1>3, <2>1
<1>4. CASE Verdict # Accepted
  <2>1. CommonReason = Verdict /\ BoundOutput = Bound!RejectedOutput(Env, Verdict)
    BY <1>1, <1>4 DEF BoundOutput, CommonReason
  <2>2. Bound!RejectedOutput(Env, Verdict).reason_id = Verdict
    BY DEF Bound!RejectedOutput
  <2>. QED  BY <1>1, <1>2, <1>4, <2>1, <2>2
<1>. QED  BY <1>3, <1>4

(* A V1 method that takes the pack and answers with the adapter's own      *)
(* output found nothing wrong before.                                      *)
LEMMA V1Reason ==
    ASSUME Inv, Answered, method \in V1!Judging, source.action # NoAction, Passed
    PROVE  /\ Verdict = Accepted /\ CommonReason = Own.reason_id
           /\ Own.accepted <=> CommonReason = Accepted
<1>1. /\ Registers /\ EnvFault = NoError /\ Verdict = Accepted
      /\ source.action \in Declared
  BY DEF Passed, V1!Judging
<1>2. CommonReason = Own.reason_id
  BY <1>1 DEF CommonReason
<1>. QED  BY <1>1, <1>2, Answers, OwnFacts

LEMMA DeclaredReasonsFollow ==
    ASSUME Inv PROVE DeclaredReasons
<1> SUFFICES ASSUME Answered, Registered
             PROVE  /\ bresult.output.reason_id \in ManifestOf(name).failure_reason_ids
                    /\ result # V1!Raised =>
                          result.output.reason_id \in ManifestOf(name).failure_reason_ids
  BY DEF DeclaredReasons
<1>1. source # None /\ name = asked.name /\ Registers
  BY Answers DEF Registered, Registers
<1>2. CommonReasons \subseteq ManifestOf(name).failure_reason_ids
  BY DEF ManifestOf, PoIManifest, WalletManifest
<1>3. bresult.output.reason_id \in CommonReasons
  <2>1. CASE BoundRefuses(bresult.output.reason_id)
    BY <1>1, <2>1 DEF BoundRefuses
  <2>2. CASE BoundEvidence
    BY <2>2, BoundReason
  <2>. QED  BY <2>1, <2>2, BoundAnswers
<1>4. ASSUME result # V1!Raised PROVE result.output.reason_id \in CommonReasons
  <2>1. V1Answer
    BY <1>4, Answers
  <2>2. CASE Passed /\ result.output = Own
    BY <1>1, <2>2, OwnFacts DEF Passed
  <2>3. CASE result.output.reason_id \in CommonReasons
    BY <2>3
  <2>. QED  BY <1>1, <2>1, <2>2, <2>3 DEF V1Answer
<1>. QED  BY <1>2, <1>3, <1>4

(* What the bound path accepts, the V1 path accepts.                       *)
LEMMA AcceptedAlike ==
    ASSUME Inv, Answered, method \in V1!Judging, bresult.output.accepted
    PROVE  /\ result.output = bresult.output
           /\ method = "governed" => /\ result.receipt = bresult.receipt
                                     /\ result.handoff = bresult.handoff
<1>1. BoundEvidence
  BY BoundAnswers
<1>2. /\ CommonReason = Accepted /\ bresult.output = Own /\ bresult.output = BoundOutput
  BY <1>1, BoundReason DEF BoundEvidence
<1>3. Comparable
  <2>1. source.action # NoAction
    BY <1>1, Answers, EnvelopeFacts DEF BoundEvidence, Built
  <2>. QED  BY <1>1, <2>1 DEF BoundEvidence, Built, Comparable, Hashable, EncodableForms
<1>4. ~ Justified
  BY <1>2, <1>3 DEF Justified
<1>5. /\ result.output = Own
      /\ method = "governed" =>
            /\ result.receipt = ReceiptFor(ManifestOf(asked.name), Env, Own)
            /\ result.handoff = HandoffFor(Env, Own)
  BY <1>4, Answers DEF V1Answer
<1>. QED  BY <1>1, <1>2, <1>5 DEF BoundEvidence

(* Otherwise both give the reason of the shared checks.                    *)
LEMMA DecidedAlike ==
    ASSUME Inv, Answered, method \in V1!Judging, result # V1!Raised,
           SurrogateLabel \notin {source.task, source.model},
           Exact \/ bresult.policy_binding # None
    PROVE  SameReason
<1>1. /\ source # None /\ source \in Sources /\ asked.name \in Names /\ V1Answer
  BY Answers
<1>2. /\ asked.pack.form \in UsableForms /\ source.action # NoAction
      /\ EnvFault = NoError => Env.form = "wellformed"
      /\ bresult.output.reason_id = CommonReason
      /\ bresult.output.accepted \in BOOLEAN
      /\ bresult.output.accepted <=> CommonReason = Accepted
  <2>1. CASE BoundEvidence
    <3>1. source.action # NoAction
      BY <1>1, <2>1, EnvelopeFacts DEF BoundEvidence, Built
    <3>. QED  BY <2>1, <3>1, BoundReason DEF BoundEvidence, Built
  <2>2. CASE /\ bresult.policy_binding = None /\ bresult.output.accepted = FALSE
             /\ BoundRefuses(bresult.output.reason_id)
    <3>1. Exact
      BY <2>2
    <3>2. EnvFault = NoError => Env.form = "wellformed"
      BY <1>1, <3>1, WellFormedEnvelopes DEF Exact, EnvFault, Env
    <3>3. bresult.output.reason_id = CommonReason /\ CommonReason # Accepted
      BY <2>2, <3>1, <3>2 DEF BoundRefuses, ReasonIds, Accepted
    <3>. QED  BY <2>2, <3>1, <3>2, <3>3 DEF Exact, UsableForms
  <2>. QED  BY <2>1, <2>2, BoundAnswers
<1>3. Comparable
  BY <1>2 DEF Comparable, Hashable, EncodableForms
<1>4. CASE Passed /\ result.output = Own
  <2>1. CommonReason = Own.reason_id /\ (Own.accepted <=> CommonReason = Accepted)
    BY <1>2, <1>4, V1Reason
  <2>2. Own.accepted \in BOOLEAN
    BY <1>1, OwnOutputs DEF Own
  <2>. QED  BY <1>2, <1>4, <2>1, <2>2 DEF SameReason
<1>5. CASE result.output.accepted = FALSE /\ RejectedFor(result.output.reason_id)
  <2>1. result.output.reason_id = CommonReason /\ CommonReason # Accepted
    BY <1>3, <1>5 DEF RejectedFor, ReasonIds, Accepted
  <2>. QED  BY <1>2, <1>5, <2>1 DEF SameReason
<1>. QED  BY <1>1, <1>4, <1>5 DEF V1Answer

LEMMA PathsAgreeFollows ==
    ASSUME Inv PROVE PathsAgree
BY AcceptedAlike, DecidedAlike DEF PathsAgree

LEMMA SupportedIsBoundFollows ==
    ASSUME Inv PROVE SupportedIsBound
<1> SUFFICES ASSUME Answered, Supported
             PROVE  bresult.output.accepted /\ bresult.policy_binding # None
  BY DEF SupportedIsBound
<1>1. /\ source # None /\ name = asked.name /\ asked.name \in Names
  BY Answers
<1>2. /\ Registers /\ Exact /\ Env.form = "wellformed" /\ EnvFault = NoError
      /\ source.action \in Declared /\ Verdict = Accepted
      /\ name = "poi" => ReasonFor(Env) = Accepted
  BY <1>1 DEF Supported, Registered, Registers, Env, EnvFault, Declared, Verdict
<1>3. Own.reason_id = Accepted
  BY <1>1, <1>2 DEF Own, OutputOf
<1>4. CommonReason = Accepted
  BY <1>2, <1>3 DEF CommonReason
<1>5. ~ BoundRefuses(bresult.output.reason_id)
  BY <1>2, <1>4 DEF BoundRefuses, ReasonIds, Accepted
<1>6. BoundEvidence
  BY <1>5, BoundAnswers
<1>. QED  BY <1>4, <1>6, BoundReason DEF BoundEvidence

(* What the adapter itself accepts is within its rules.                    *)
LEMMA OwnWithinRules ==
    ASSUME Inv, Answered, EnvFault = NoError, NEW o, o = Own
    PROVE  WithinAdapterRules(o)
<1>1. /\ source # None /\ name = asked.name /\ asked.name \in Names
  BY Answers
<1> SUFFICES ASSUME Own.accepted
             PROVE  IF name = "poi"
                    THEN /\ source.task \in ALLOWED_TASK_TYPES
                         /\ source.model \in ALLOWED_MODEL_FAMILIES
                    ELSE source.action \in SUPPORTED_WALLET_ACTIONS
  BY DEF WithinAdapterRules
<1>2. Own.reason_id = Accepted
  BY <1>1, OwnFacts
<1>3. CASE name = "poi"
  <2>1. Env.task_type = source.task /\ Env.model_family = source.model
    BY <1>1, <1>3 DEF Env, EnvelopeOf, PoIEnvelope
  <2>2. ReasonFor(Env) = Accepted
    BY <1>1, <1>2, <1>3 DEF Own, OutputOf
  <2>. QED  BY <1>3, <2>1, <2>2 DEF ReasonFor, Accepted
<1>4. CASE name # "poi"
  BY <1>1, <1>4, EnvelopeFacts DEF Names
<1>. QED  BY <1>3, <1>4

LEMMA AdapterRulesFollow ==
    ASSUME Inv PROVE AdapterRulesHold
<1> SUFFICES ASSUME Answered
             PROVE  /\ WithinAdapterRules(bresult.output)
                    /\ result # V1!Raised => WithinAdapterRules(result.output)
  BY DEF AdapterRulesHold
<1>1. WithinAdapterRules(bresult.output)
  <2>1. CASE ~ bresult.output.accepted
    BY <2>1 DEF WithinAdapterRules
  <2>2. CASE bresult.output.accepted
    <3>1. BoundEvidence
      BY <2>2, BoundAnswers
    <3>2. bresult.output = Own /\ EnvFault = NoError
      BY <2>2, <3>1, BoundReason DEF BoundEvidence, Built
    <3>. QED  BY <3>2, OwnWithinRules
  <2>. QED  BY <2>1, <2>2
<1>2. ASSUME result # V1!Raised PROVE WithinAdapterRules(result.output)
  <2>1. V1Answer
    BY <1>2, Answers
  <2>2. CASE Passed /\ result.output = Own
    BY <2>2, OwnWithinRules DEF Passed
  <2>3. CASE result.output.accepted = FALSE
    BY <2>3 DEF WithinAdapterRules
  <2>. QED  BY <2>1, <2>2, <2>3 DEF V1Answer
<1>. QED  BY <1>1, <1>2

(* Whatever source and pack are, and whichever check or callback fails, a  *)
(* registered adapter's call ends in a reason its manifest declares, on    *)
(* both paths (poi.py:37-48, wallet.py:49-61).                             *)
THEOREM DeclaredReasonsHold == Spec => []DeclaredReasons
BY InvHolds, DeclaredReasonsFollow, PTL

(* For every source and pack the two paths of one gateway agree: what the  *)
(* bound path accepts the V1 path accepts with the same evidence, and what *)
(* both judge by the same checks they decide for the same reason           *)
(* (gateway.py:132-177, 239-282).                                          *)
THEOREM PathsAgreeHolds == Spec => []PathsAgree
BY InvHolds, PathsAgreeFollows, PTL

(* Every request that the adapter, its manifest and the pack allow ends    *)
(* accepted, with a policy binding (gateway.py:179-282, poi.py:53-84,      *)
(* wallet.py:66-103).                                                      *)
THEOREM SupportedIsBoundHolds == Spec => []SupportedIsBound
BY InvHolds, SupportedIsBoundFollows, PTL

(* No pack and no method makes the gateway accept what the adapter itself  *)
(* does not support (policy.py:28-33, wallet.py:105-109).                  *)
THEOREM AdapterRulesAlwaysHold == Spec => []AdapterRulesHold
BY InvHolds, AdapterRulesFollow, PTL
=============================================================================
