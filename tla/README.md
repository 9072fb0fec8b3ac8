# A TLA+ model of the Adamantine AI Gateway

TLA+ modules, TLC configurations and TLAPS proofs about the gateway in
`ai_gateway/`. The gateway turns the work of untrusted adapters into evidence:
an *envelope* (what was asked), an *output* (what was decided), a *receipt* and
a *handoff* (hashes of both), and, on one path, a *policy binding* (hashes of
those and of the policy pack). *Exporters* hand the evidence to a consumer.
Line numbers below are those of the repository.

## Inventory

| Part | State | Operations | Interacts with | Model |
|---|---|---|---|---|
| Adapter registry (`registry.py`) | two dictionaries, name to adapter and name to manifest | `register`, `get`, `get_manifest`, `names` | runs an adapter's `manifest` / `MANIFEST` property in the middle of `register` | AdapterRegistry |
| Gateway, policy-bound (`gateway.py:179-421, 776-861`) | none between calls | `process_governed_with_policy_binding_v1` | registry; adapter callbacks `build_envelope`, `build_output`; policy capture and binding; builders | BoundGateway |
| Gateway, V1 (`gateway.py:29-177, 423-774`) | none between calls | `process`, `process_with_policy`, `process_with_receipt`, `process_governed` | the same, without capture and binding | GovernedV1 |
| Policy (`policy.py`) | none | `enforce_policy_for_adapter`, `policy_reason_for` | reads the pack it is given | GatewayArtifacts, BuiltinAdapters |
| Validation (`validation.py`) | none | `validate_*_v1` | raises `ValidationError` or `ContractError` with a reason id as message | partly: GatewayArtifacts, EvidenceExport, ExactJson |
| Capture and binding (`policy_binding.py`) | an immutable snapshot per call | capture, materialize, artifact snapshot, build binding | validation, hashing | partly: BoundGateway, ExactJson |
| Receipt, handoff (`receipt.py`, `handoff.py`) | none | build | validation, hashing | GatewayArtifacts |
| Evidence exporters (`integration/adamantine.py`) | none | four builders | validation, hashing, artifact snapshot; a caller in between | EvidenceExport |
| Built-in adapters (`adapters/`) | none | two callbacks and a manifest each | run by the gateway | BuiltinAdapters |
| Canonical JSON, hashing | none | bytes, SHA-256 | - | partly: hashes are injective, encodability is a form |
| Canonical JSON checker (`tools/`) | none | independent re-implementation for test vectors | nothing at run time | partly: its preflight, in ExactJson |
| Constants and types (`contracts/`) | none | none | - | not modelled |

What is hard here. There are no threads, no storage and no network. What there
is instead is *foreign code in the middle of an operation*. An adapter runs
inside `register`, and twice inside every gateway call. While it runs it can
change what it holds a reference to (the caller's policy pack and source
input, the envelope it is handed, an output it returned earlier) and call back
into the registry. What the gateway read before a callback may be stale after
it. The second difficulty is *partial failure*: a call passes ten points where
it can fail, under several try blocks with clauses of their own, and some
failure exits can fail themselves. The third is that what leaves the gateway
is *taken apart and put together again*: an exporter is handed parts, and
nothing but hashes says which call they come from. The fourth is *code written
twice*, for the bound and the V1 paths, for the gateway and the independent
checker, where an order or a limit changed in one copy makes the two disagree.

What makes each part correct:

- registry: a name is registered once, and the manifest beside an adapter is
  its own and declares that name;
- policy-bound path: a call is atomic to its caller, the verdict is the
  captured pack's, the binding names that pack, refusals are explained, and
  every call returns;
- V1 paths: evidence is evidence of the output it comes with, nothing is
  accepted without evidence or against the policy, and calls return;
- exporters: evidence spliced from two results, or altered, is refused, and
  every bound result is exportable;
- preflight: the bounded traversals decide what the contract says of a value,
  at every limit, and agree with each other and with the validator;
- built-in adapters: every reason they can end with is declared, and nothing
  that all rules allow is refused.

`PROJECT.json` lists the hazards line by line with the properties that cover
each.

## Modules

    GatewayArtifacts             artifacts, faults, policy, receipt, handoff, binding
    |-- BoundGateway             the policy-bound path
    |     |-- INSTANCE AdapterRegistry   (its registry)
    |     `-- INSTANCE AtomicBinding     (what it implements)
    |-- AtomicBinding            abstract: a policy-bound call as one step
    |-- GovernedV1               the four V1 methods, on the same registry
    |-- EvidenceExport           a caller between the gateway and the exporters
    |     `-- INSTANCE AtomicBinding     (the gateway it calls)
    `-- BuiltinAdapters          PoI and wallet, and the gateway run with them
          |-- INSTANCE BoundGateway      (one call of each, side by side)
          `-- INSTANCE GovernedV1
    AdapterRegistry              register with re-entrant property reads
    `-- INSTANCE WriteOnceMap    abstract: a write-once map (what it implements)
    ExactJson                    the bounded walks over host values
    AdapterRegistryProofs, BoundGatewayProofs, GovernedV1Proofs,
    EvidenceExportProofs, ExactJsonProofs, BuiltinAdaptersProofs      theorems
    StackLemmas, CountingLemmas  lemmas about stacks, and about counting
    MC*                          small instances for TLC

**GatewayArtifacts** has no state. An artifact is a record of the fields that
some decision compares, and a *form*: how its JSON shape fares with the
validators (wellformed, unencodable, misversioned, ...). `Fault` says which
error class and reason a validator raises for a form. The gateway modules
only ask how a shape fares, so the field-by-field code of `validation.py` and
the preflight traversal are behind the form there. Hashes are injective.

**AdapterRegistry** is `registry.py`. `Register` is the code of `register` up to
the property read; the read suspends the call on a stack of frames, during which
further `Register` steps are the foreign code's. `AttributeReturns` and
`AttributeRaises` resume the innermost call and run it to its end
(snapshot, identity check, two writes). A call that is given a manifest never
suspends. `Offers[a]` are the manifests that adapter `a`, or whoever registers
it, comes up with: the abstract map may only pair `a` with one of them, so that
a manifest filed beside the adapter of another registration is an error. The
gateway modules instantiate the registry with every manifest on offer.

**BoundGateway** is `process_governed_with_policy_binding_v1`, one action per
try block: `CapturePolicy`, `GetManifest`, `GetAdapter`,
`BuildEnvelopeReturns/Raises`, `AlignEnvelope`, `EnforcePolicy`,
`BuildOutputReturns/Raises`, `BuildReceipt`, `BuildHandoff`, `BindPolicy`. The
variables are the method's locals, `live` (the caller's objects as they are
now), `asked` (the arguments as passed) and `result`. `Fail` is the failure
exit every block shares. `RewriteSource`, `RewriteEnvelope` and
`CompleteRegistration` are the adapter's doing while `pc` is at a callback. A
pack that is rewritten during a callback is one of `PolicyPacks`, an envelope
one of `RawEnvelopes`. In one other place an adapter's code may run: `str(exc)`
of an exception it raised (`gateway.py:851`). On this path that comes right
after the callback and before the failure exit reads anything, so what it
writes counts as written by the callback; a `__str__` that raises gives the
default reason, as the message `Opaque` does. Everything else works on snapshots
made of built-in types.

**GovernedV1** is one machine for the four V1 methods; `method` selects the
checks of a block (`EnvelopeChecks`, `OutputChecks`) and whether evidence
follows. Everything from one callback to the next is one action, since the code
in between calls no adapter (what may still run there is listed below). `Reject` is an except clause: it first builds and
validates the fail-closed envelope, which may raise, so a call can end in
`Raised`. `FallBack` is the except clause around the evidence.

**EvidenceExport** is `integration/adamantine.py` and whoever calls it. The
caller keeps results of several calls in slots: bound ones (`Ask`,
`BoundCallReturns`, steps of the abstract gateway that BoundGateway is shown to
implement, with its guard `Bindable`: only what is exact, valid and well formed
is bound) and V1 ones (`V1CallReturns`). It then hands an exporter unaltered
parts of any of them (`ExportParts`) or the parts of one result with one field
changed (`ExportAltered`). An adapter that kept the output of a V1 result may
rewrite it (`RewriteReturnedOutput`); the output of a bound result is a
snapshot. `V1Fault`, `ResultV1Fault`, `V2Fault` and `ResultV2Fault` are the
four exporters as the first check that refuses, in the order of the code;
`HandoffFault`, `ReceiptFault` and `BindingFault` are the validators they call,
field by field. What an artifact weighs in a snapshot is the constant
`Weight`, so that budgets matter without counting bytes.

**ExactJson** is the recursion of `_preflight_exact_json`
(`policy_binding.py:65-135`), of `_preflight_governed_value` of the independent
checker, and of `_validate_payload` (`validation.py:66-106`), which refuses what
is no dict before it walks. A value is an object of a heap whose containers may
be shared and may contain themselves; keys of dicts are values too, with a kind
and a size of their own. The length of a text and the bits of a number (`size`,
which `MaxLength` and `MaxBits` limit) are apart from the bytes or digits it
adds to the text budget (`weight`). An object or key is `exact` if it is of the
built-in type itself and has a UTF-8 encoding: the preflights want that, the
validator takes instances of subclasses, containers and keys included, and text
without an encoding. `stack` holds the loops that are open; one step (`Descend`,
or `Begin` for the value asked about) enters a value, `Leave` leaves a
container. Three walks over the same heap follow each other. The contract is
stated apart from any walk: which values are fine if so many levels are left
(`Fine`, and `WellFormed` for all the levels there are), and what a value adds
up to when every path to an object counts it again (`Unfolded`,
`WithinBudgets`).

**BuiltinAdapters** is `adapters/poi.py` and `adapters/wallet.py` as functions
from a source to an envelope, an output or an error. A request is put to the
bound path and to one V1 method, both the modules above with their foreign code
replaced by the two adapters, and the two answers are compared. The adapters
have no state and interfere with nothing, so the calls run one after the other.

## Runs

`*` marks a run whose property TLC must find violated.

| Run | Shows |
|---|---|
| `MCAdapterRegistry` | The duplicate check survives suspension; the registry implements a write-once map, each adapter with a manifest of its own (116 states) |
| `MCAdapterRegistryReentrant` | With same-name re-entry: manifests are still filed under the name they declare (8k states) |
| `MCAdapterRegistryOverride` * | With same-name re-entry: a registered adapter is replaced |
| `MCBoundGateway` | Atomicity (refinement), verdicts, explained refusals, termination (18k states) |
| `MCBoundGatewayWrites` | Adapters that rewrite the envelope: evidence stays atomic, coherent and bound to the right pack (80k states) |
| `MCBoundGatewaySubstitution` * | ... but it may be evidence of an envelope the policy denies |
| `MCGovernedV1` | V1 evidence, acceptance, escapes, termination (17k states) |
| `MCGovernedV1Raises` * | A V1 call for a registered adapter raises on blank text in the source |
| `MCGovernedV1Handoff` * | A governed success with an invalid handoff |
| `MCEvidenceExport` | No splice and no altered part of bound evidence is exported, V1 parts of two calls do not mix, bound results are exportable (179k states, a minute) |
| `MCExactJson` | Both preflights and the validator decide what the contract says, agree, and end (340k states, a minute and a half) |
| `MCBuiltinAdapters` | Declared reasons, agreement of the bound and the V1 paths, nothing supported is refused and nothing unsupported accepted (103k states) |

Bounds. The registry instance has two names, two adapter objects and three
manifests, two of them for one name and not offered by both adapters, so that a
nested call can overtake a call for the same or for another name with a
different manifest; `MaxNesting
= 2` lets three registrations be open at once (the outermost and two nested
ones). The gateway instances
have one registered name that works and one that is blank (plus `wallet` on the
bound path, the name with fallbacks of its own); packs that allow, deny, do not
know the adapter and are invalid; and one envelope and output per form and per
comparison a block makes. Calls do not interact beyond the registry and the
caller's objects, so the state space of repeated calls closes without a bound
on their number.

The exporter instance keeps two results (`Slots`), which is what a splice of
two needs, and may swap them (`SYMMETRY`; none of its properties is temporal).
Its outputs include two that differ only under the hash, one with no context
hash and one that is not exact; there is at least one edit of every part,
some that a validator sees and some that only a hash does. Weights run from 1
to 3 and `Budget = 9` puts the edges of both snapshots among the results.

The walk instance has limits of two levels, five nodes, four bytes of text, two
characters per text, two bits per number and two items per container, with
heaps on both sides of every one of them: three lists and dicts nested, shared
and knotted; leaves too long, too wide, of subclasses, and of no JSON type; keys
that all walks take, with more bytes than characters, too long, inexact,
inexact and too long, and no text at all; and lists and dicts of subclasses,
with and without cycles through them. A walk asks about one value (`Roots`), and
validates it or one of its children.

The built-in instance has one request per behaviour, since a call with these
adapters leaves nothing behind; sources that are complete, or wrong in each way
and in some two ways at once, six packs, every method, and every subset of the
two adapters registered.

There is no state constraint in any run. Deadlock is checked, an idle gateway
can always be called, but for `MCExactJson` and `MCBuiltinAdapters`, where the
three walks, or the one request, are over at the end.

Fairness. `FairSpec` of the gateway modules adds `WF_vars(GatewayStep)`: a call
that has started goes on. The gateway's own code is sequential and has no
waiting in it, and callbacks are taken to return or raise, which is an
assumption on adapters that the code cannot enforce. Foreign steps get no
fairness. `EveryCallReturns` and `EveryCallEnds` then say that no except clause
is missing and no exit loops. `ExactJson` has `WF_vars(Next)`: a walk is plain
code that keeps running; `EveryWalkEnds` then says that it does not run
forever, also not over a value that contains itself.

## Where code and documents differ

Each is a `*` run, and each was reproduced by running the code.

1. `registry.py:48` writes a name that was checked at line 35, before foreign
   code ran. An adapter whose manifest property registers the same name is
   overwritten. `contracts/ADAPTER_CONTRACT.md:80`: adapters must "Not override
   another adapter"; the invariants lock, line 229: a manifest "cannot be
   mutated after registration".
2. `gateway.py:395` hands the evaluated envelope to `build_output` and hashes
   it afterwards. An adapter that rewrites it gets accepted, bound evidence of
   an envelope the bound policy denies. Invariants lock, line 150: "envelope
   contents used for execution must match contents represented in receipt /
   handoff chain".
3. `gateway.py:774` validates the fail-closed envelope inside the except
   clauses, so for a registered adapter that fails, blank or overlong source
   text makes the call raise. `AI_GATEWAY_OUTPUT_V1.md:98`:
   "the gateway must emit a rejected output shape rather than throwing".
4. `gateway.py:143` returns a handoff nobody validated. Invariants lock, line
   280: "governed success without valid handoff must be impossible".

Stating the properties that hold also showed where they need a condition. None
of these contradicts a document; each is a conjunct of the property named.

- `PathsAgree`: the action is optional on the V1 paths (`gateway.py:705-707`) and
  required on the bound path, so a PoI request without one is accepted by
  `process_governed` and refused without evidence by the bound path. The
  same holds for text that only the bound path's exact snapshot refuses.
- `PathsAgree`, again: a V1 refusal quotes `task_type` and `model_family` of the
  source even if the adapter never reads them (the wallet does not). If they
  have no UTF-8 encoding the refusal's receipt cannot be built, and its reason
  becomes `INTERNAL_ERROR`; if they are blank the call raises (3. above).
- `BoundResultExports`: the binding is built if envelope, output, receipt and
  handoff fit one snapshot (`policy_binding.py:242`), but a result is exported
  if output, receipt, handoff and *binding* do (`adamantine.py:242`). A result
  whose binding weighs more than its envelope, within that difference of the
  budget, is bound and cannot be exported whole.
- `WholeEvidence`: an altered `policy_pack_id` or `policy_pack_hash` in a
  binding is exported, since nothing else hashes them; a consumer must know the
  policy, as `ADAMANTINE_AI_GATEWAY_EVIDENCE_V2.md:98-102` says.

## Proofs

All proofs hold for every value of the constants that satisfies the named
assumptions: any names, packs, envelopes, outputs, manifests, errors, heaps and
limits, any number of calls and foreign steps.

**AdapterRegistryProofs.** `TypeCorrect` and `ManifestIdentityHolds` need no
assumption on re-entry. `CheckStillHoldsThm`, `RegistryIsWriteOnceMap` and
`NoOverrideThm` assume `SameNameReentry = FALSE`, the assumption the run
`registry_override` drops. The argument: a name on the stack is pending once
(a foreign registration of it is excluded) and is not registered, since only
the frame of a name, or a call that never suspends, writes that name; so the
resumed call's write goes to a vacant entry.

**BoundGatewayProofs.** None of the properties of a result is inductive: it is
written by the last block from locals that earlier blocks filled. `Progress` is
the strengthening. `Captured` says the snapshot is the pack that was
passed, and is exact and valid. `Found` says the manifest in hand is the
registered one. `EnvelopeKept` says the evaluated envelope passed every
alignment check, and is still the envelope in hand unless adapters rewrite it.
`Judged` ties the output to the verdict. `Chained` ties receipt and handoff to
envelope and output. `Inv` adds the four properties of the result. There is one
lemma per block, one (`FailKeepsInv`) for the failure exit and one each for
rewrites and registrations; `InitInv` and `NextInv` put them together. The
lemmas at the top say what the artifact operators guarantee (`SnapshotVerdict`,
`MappedReasons`, `FailureLabels`, `PolicyVerdict`). `RefinesAtomicBinding`
assumes `EnvelopeWrites = FALSE`; the abstract request is `asked` while a call
runs, a failing block is `Refuse`, a binding is `Deny` or `Decide` on the
evaluated envelope, and every other step stutters.

**GovernedV1Proofs.** Here too a result is written from what earlier blocks
established. `Filed` says the registry files a manifest under its own name;
`Found`, that the manifest in hand is one of this adapter, which is why a
receipt may take its adapter id from it; `Judged`, that after the policy was
evaluated, and as long as the output is accepted, a valid pack allowed the
evaluated envelope and both name the adapter. Packs and envelopes may be
rewritten at any callback, so `Judged` is about the ones that were evaluated,
not about those at hand. A block is left in one of five ways, and there is a
lemma for each (`EscapeKeepsInv`, `ReturnKeepsInv`, `SettleKeepsInv`,
`RejectKeepsInv`, `ReturnEvidenceKeepsInv`); the lemmas per block only say
which way is taken. `FailsClosedUnlessUnusable` and
`FallbackReceiptUnlessUnusable` are the heart of
`RaisesOnlyOnUnusableTextHolds`: the fail-closed artifacts consist of the name,
of text of the source and of usable literals.

**EvidenceExportProofs.** The invariant is `TypeOK` (a result that is kept is
the evidence of one output for one envelope, or has none), with two facts about
the last export: `SaidOfBundle`, that its verdict is the exporter's on what was
handed over, and `BundleOrigin`, where that came from. The theorems then
follow from injective hashes: a binding that names a receipt and a handoff
names those of its own call, and two hashes in a receipt determine the handoff
that may go with it (`HashesDetermineHandoff`). They hold for every set of
edits, so no altered part was left out by the choice of the instance.
`BoundResultHolds` needs more of what is kept (`KeptIsBound`): a bound result
was built from artifacts that agree and that fit the snapshot of the binding.
Hence no validator and no comparison of an exporter objects
(`BuiltEvidencePasses`), and what can differ is one sum, in which the binding
has taken the place of the envelope.

**ExactJsonProofs.** `WalkIsBounded`: whatever the heap, a walk stays within
depth, node and text limits, and what it holds active is exactly its path,
without repetitions. The latter is why the `finally` clause
(`policy_binding.py:131-133`) may forget a container: it is on the path once.
`PreflightDecides` and `ValidatorDecides` say that the verdict of a walk is the
contract's, in both directions, the validator's contract being about dicts only
and about any instance of the built-in types; `PreflightedValidates`, that a
dict payload of what a preflight accepts satisfies the validator. `WalkInv` is
the strengthening, about a walk under way:

- `Stands`: the children that a loop has passed are fine at their level, and
  the value asked about is fine only if every container on the stack is;
- `Balanced`: what has been charged so far, with what the open loops still have
  to charge (`LedgerFacts`), is what the contract counts in the whole value.

So a walk that ends has charged exactly what the contract counts, and a refusal
on the way is one of the contract too: sums only grow, a container that does
not stand is not fine, and the containers of a cycle are not fine at any level
(`CycleIsNotFine`, by induction over the levels). `Opened`, `Charged` and
`Closed` are the three things a step does to the ledger. The sums and levels
are recursive functions; CountingLemmas unrolls them (`RecursionTo`), with
induction stated of a set rather than of a predicate.

**BuiltinAdaptersProofs.** Two calls for one request run different blocks, in a
different order and under different except clauses. `CommonReason` is what
their shared checks make of the request, as a function of it alone. `Inv` says
of each path what it has established at every block (`BoundInv`, `V1Inv`), and
of its answer that it is the adapter's output with its evidence, or a refusal
whose reason is `CommonReason` unless the path also judged something the other
does not look at (`BoundRefuses`, `RejectedFor`). Those exceptions are the
conditions of `PathsAgree`, so `PathsAgree` follows from comparing each path
with the function, never the two machines with each other. The instances of
the artifact operators that come with `Bound` and `V1` are shown to be the
same ones first. There is one lemma per block, as for the modules themselves.
The theorems hold for every set of sources and packs, one adapter of each name
and every subset of them registered.

Assumptions. `LabelsAssumption` (the literals the code falls back to are usable
text; the unusable kinds of text are not), `RegistryAssumption`,
`BoundGatewayAssumption` and `GovernedV1Assumption` (what a validated manifest,
and on the bound path an exact valid envelope and output, are known to contain,
and that `None` is none of the values), `EvidenceExportAssumption` (what an
adapter's envelope and output, once validated, and a valid pack are known to
contain; weights are numbers; `None` and `Absent` are none of the values),
`ExactJsonAssumption` (a heap is closed under children; limits and sizes are
numbers), `BuiltinAssumption` and `BuiltinNoneAssumption` (the shape of a
source; `None` is no source, adapter, manifest or binding). TLC evaluates each
of them in the runs of its module.

Only model-checked: liveness (`EveryCallReturns`, `EveryCallEnds`,
`EveryWalkEnds`), because the prover does not do fairness. Every other property
of a passing run is also a theorem.

## Not modelled

- The fields of envelopes, outputs, manifests and packs one by one: an
  artifact's form says which validator refuses it and with what reason. The
  modules that depend on more of an artifact (receipts, handoffs and bindings
  in the exporters) do go field by field.
- The limit on canonical bytes after the preflight, and the re-check of a
  captured pack, which are a form as well; a snapshot's weight in the exporters.
- The canonical JSON byte algorithm, and the checker's byte encoder, strict
  wire parser and fixture reader: text processing without state.
- Labels that are instances of a subclass of `str`.
- On the V1 paths, instances of subclasses of built-in types that run code of
  their own. A source whose `.get` does (`gateway.py:732-755`) may raise out of
  the failure exits, or write: `RaisesOnlyOnUnusableText` is about plain dicts
  and values that are no dict. The same goes for comparisons and look-ups in
  such envelopes, outputs and packs. Nor does `str(exc)` (`gateway.py:851`) write
  anything there, between the fail-closed envelope and the fail-closed output
  of one except clause.
- Lists and dicts of subclasses that iterate or count in a way of their own: the
  validator would run their code in its walk, the preflights refuse them first.
- Exceptions that are not `Exception` (`KeyboardInterrupt`, `SystemExit`).
- A gateway call made from inside a manifest property: that registration
  resumes after the call, so that between calls a name could change as in the
  run `registry_override`. `CompleteRegistration` of the gateway modules is a
  whole registration during a callback or between calls, nested ones
  included, since none of its intermediate states is visible to the gateway.
- The constants and types of `contracts/`: literals, used by their meaning.

## Plan

The order was: the registry and the bound path, their proofs, the V1 paths and
their proofs, the exporters, the walks, the built-in adapters. What is left:

1. A composition of the registry machine, open registrations included, with
   the bound path, in place of the one-step `CompleteRegistration`, and a proof
   that the two agree.
2. A measure of a walk of `ExactJson` that every step decreases, as a safety
   property that can be proved beside the liveness that is checked: the ledger
   of the proofs already counts what the open loops have left.
3. The same for a gateway call: the blocks in an order that every gateway step
   follows, so that only the fairness itself is left to TLC.
