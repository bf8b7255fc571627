# xap-go in TLA+

A formal model of `xap-go`, the Go verification library of the Execution Authorization
Protocol: TLA+ modules translated from the source, TLC configurations that check them on
small instances, and TLAPS proofs of what holds for every instance.

An *issuer* signs a MAT (a machine authorization token: scope, limits, constraints,
obligations). A holder may *derive* narrower MATs from it. An *agent* signs a commitment
under a MAT. An *enforcement point* decides an operation and signs a receipt. This library
sits at the end: from the receipt, and whatever else the caller holds, it recomputes what
can be recomputed and reports, check by check, what passed, what failed and what could not
be performed.

## 1. Inventory

| Component | State | Operations | Interacts with | What makes it correct |
|---|---|---|---|---|
| Receipt verifier (`verify.go`) | one result under construction: checks, `Valid`, `NotPerformed`, header | `Verify`, 24 steps in fixed order | parses envelopes with the anchor set, evaluates constraints, compares digests | every claim is reported once, a missing input never helps, a valid result means what it says |
| Delegation validator (`delegation.go`) | walk position, seen ids | `ValidateChain`, `ValidateDerivation` | pairs constraints through `constraintAtLeastAsStrict` | authority narrows from root to leaf over any number of links; lawful chains pass; the first fault is the one named |
| Constraints (`constraint.go`) | none | `Evaluate` for six types | judged by the verifier, compared by delegation and commitments | strictness agrees with evaluation |
| MATs, scopes (`mat.go`, `types.go`) | none | `ValidateStructure`, `CoversOperation`, `coversResource`, `ScopeReproducible`, `Expired`, `ValidateAt` | used by all of the above | absence denies, traversal is covered by nothing |
| Commitments (`commitment.go`) | none | `WithinScopeOf`, `VerifyBinding`, `ValidateTemporal`, `Covers` | checked against the governing MAT | a commitment only narrows its MAT |
| Envelopes, trust anchors (`cose.go`) | map from key id to anchor | `Add*`, `SetSubject`, `Get`, `ParseMAT/Receipt/Commitment` | go-cose, every parser, the operator's slices | role before signature; both halves of a hybrid signature; registration settles what a key vouches for |
| Canonical encoding (`canonical/`) | none | `Marshal`, `Unmarshal`, `Digest` | the CBOR library | one encoding per value |
| Receipt log (`receipt.go`) | the chain of `PriorReceiptHash`; the callers' replay records | `Digest` | the verifier's chain link, confirmation link and replay check | a gap or a swap is visible; a refused replay was one |
| Provenance (`provenance.go`) | index, roots, walk over a set of receipts | `ReconstructProvenance` | receipts' commitment digests | accepted receipts are one path and every path is accepted; it terminates |
| Context, inspection | none | `Digest`; `UnverifiedPayload`, `DecodeAny` | | |
| Command line (`cmd/xap`) | arguments, options, the input under assembly | `verify`, `inspect`, `vectors`, `digest` | `BuildAnchors`, `ParseReceipt`, `Verify` | what is named on the command line, all of it, is what is verified |
| Conformance harness (`conformance/`) | catalogues; results, coverage and faults reached | `BuildAnchors`, `RunAll`, `CheckCoverage`, `DerivationCoverage` | every operation of the package, the vector corpus (another repository) | a passing vector was run on its artifacts; the coverage has seen what vectors pin |
| Browser verifier, examples | none | one call of `ParseReceipt`; one call each | | |

The library is sequential: no goroutine, no lock, no persistence. What is hard in it is not
scheduling but *silence* (a check nobody ran), *composition* (pairwise rules that must
compose along a chain), *relations between two runs* (an input withheld, two walks over one
vector), *last-write-wins maps*, *references kept* (a slice of roles) and *numeric and
textual edges* (tolerances, budgets of zero, NaN, times as texts, windows with one end). The
interleavings it is exposed to lie with its callers, and are modelled there: workers that
share a replay record and crash, a log that grows and is tampered with under audit.
`PROJECT.json` lists each hazard at its line, with the properties that catch it.

## 2. Modules

```
Constraints, Scopes
      \   /
    Artifacts ---------- Derivation ---- Delegation ---- DelegationProofs
        |                     |
    Envelopes                 +--- Conformance (with Checks, DerivationPath) ---- ConformanceProofs
      |   |  \
      |   |   TrustAnchors ---- AnchorManifest ---- TrustAnchorsProofs
      |   ReplayGuard ---- ReplayGuardProofs
      |
     Checks ---- ReceiptChain ---- ReceiptChainProofs
      |   \---- CommandLine ---- CommandLineProofs
      |
     Verify ---- implements ----> Verdict
      |   \---- Omission (two calls of Verify) ----\
      \---- Honest (Verify of what is issued) ------ VerifyProofs

Provenance ---- implements ----> DerivationPath
      \---- ProvenanceProofs
```

Each machine has an MC module of its name that gives its constants finite values (the anchor set
and its manifests share `MCTrustAnchors`); `MCInputs`
holds the anchors, artifacts and envelopes several of them share.

| Module | Models | Correspondence |
|---|---|---|
| `Constraints` | `constraint.go`, the comparisons of `delegation.go:323-417` | operators of the same names; a timestamp is a pair of its rank as text and its instant, so that comparing texts and comparing instants are different operations; a float is a number or `NaN`, and `Below` is Go's `<`, false of `NaN` |
| `Scopes` | `mat.go:184-256`, `delegation.go:203-249` | texts are token sequences, so a prefix, a wildcard and a whole `..` segment keep their meaning |
| `Artifacts` | `types.go`, `mat.go`, `commitment.go`, digests | records with the fields the package reads; a digest is an injective constructor |
| `Envelopes` | `cose.go:299-474`, `canonical.go:84-96` | an envelope records what can be wrong with it: undecodable, no key id, wrong algorithm or signature, wrong kind, non-canonical |
| `TrustAnchors` | `cose.go:37-335`, registration | one action per `Add*` and `SetSubject`, each with its refusals in the code's order; role lists live in `memory`, the operator's arrays and the set's own, and `Overwrite` is the operator writing to its own |
| `AnchorManifest` | `BuildAnchors` | one action per stage of an entry, over the calls of `TrustAnchors`; `SetSpec` is a set built so or registered on call by call |
| `Checks` | the status of each named check in `verify.go` | one operator per check, `passed`, `failed` or `not_performed` |
| `Verify` | `Verifier.Verify` | one action per numbered step, in the code's order, appending the checks that step emits; `Reconcile` is the final loop, one inventory entry per step |
| `Verdict` | what `Verify` promises its caller | one coherent, complete answer, given once |
| `Omission` | two calls of `Verify` on one receipt | one machine called twice: `full` keeps what the first call got and answered, `Again` starts the second with some of those inputs withheld |
| `Honest` | `Verify` over what an honest enforcement point issues | the point and the caller are external: an *occasion* is one evaluation and one presentation of its receipt; `Issued` is the receipt, `Presentation` the input of the call |
| `Derivation` | `ValidateDerivation`; `ValidateChain` without its loop | each group of rules is a sequence of stages, a stage the set of faults it may report (more than one where Go iterates a map); `ChainFaults` is the set of faults a chain may be rejected with |
| `Delegation` | `ValidateChain` | one action per check of the loop body |
| `Provenance` | `ReconstructProvenance` | one action per turn of each loop and per test between them |
| `DerivationPath` | what reconstruction promises | one answer: the path the receipts form, or a refusal when there is none |
| `ReplayGuard` | `replay_receipt_unseen` and its callers | `Verify` is the question; `Act`, `Record`, `Discard`, `Crash` are a worker's, external |
| `ReceiptChain` | `chain_link`, `confirmation_link` and their callers | `Valid` is the verification of one entry; the enforcement point issues, the keeper changes the log, the auditor reads on, all external |
| `Conformance` | `conformance.go:118-700` | one action per vector and walk; `buildVerifyInput`, `receiptVerifies`, `matAccepts` and the others keep their names |
| `CommandLine` | `cmd/xap/main.go`, `inspect.go` | `newFlags` one argument per step, then one action per file read, then the report |

Data kept abstract: detail strings, the CBOR bytes, the cryptography (a signature is the
sequence of keys that made it), the policy expression, the trust vector and the session id
(no function reads them). Nesting of composite identities is bounded by one level, and a digest does
not tell an absent list from an empty one. The
harness and the command line see the verifier through what it reports; their MC modules give
it the checks of `Checks` that depend on the inputs a caller chooses.

## 3. Properties

Of the verifier (`Verify`):

- `TypeOK`.
- `NothingGoesMissing`, `WithinTheCatalogue`: the result as a report. Nothing owed is
  missing, whichever inputs were absent or failed to parse, and of a commitment that verified
  neither its own checks nor that of any claim the receipt makes about it; nothing is outside the catalogue
  the conformance suite certifies against, and there is no `not_performed` where an artifact
  was obliged to make the claim.
- `VouchedPermitIsAuthorised`: the result as a statement. A valid permit without an
  unperformed establishing check, under a MAT and a context, is one that a registered
  enforcement point signed under a trusted issuer's MAT, inside its scope, window and
  budget, on true outcomes and, where evidence is disclosed at all, on a fresh reference to
  each obliged category. It is stated over the artifacts, not over the checks.
- `CommitmentNarrowsItsMAT`: the same for the commitment. In a valid result it is bound to
  the MAT's id, its constraint set and the machine it names, and the evaluation started between
  both ends of the MAT's validity and not outside an end the commitment states, of which there
  is at least one. Unless the receipt denies, what it declares stays within the MAT: actions,
  both lists of resources, what is left unconstrained, and parameter ranges. An end left out
  is no end that was met; the code accepts a commitment that leaves one out, which section 5
  sets against the comment that requires the window.
- `ImplementsVerdict`, `AlwaysReturns`: refinement and termination. The abstract promise
  includes that no check is reported twice (`ReportedOnce`, proved on its own).
- `OmissionOnlyDegrades` (`Omission`): withholding inputs turns a check's status into
  `not_performed` or leaves it. Nothing turns into a pass or a refutation. What may fall silent
  is named: the own checks of a withheld artifact and, with the commitment, the receipt's
  claims about it, two of which are held against the MAT. A refuted claim may be among them:
  the property does not deny it, because the code does it (section 5), and
  `NothingClaimedUnreported` (section 4) states the comment that forbids it and is violated.
- `HonestNeverRefuted` (`Honest`): no false alarm, whatever was decided, however coarse the
  clock, whatever is left undisclosed and whichever inputs the caller lacks. The enforcement
  point, which is not part of the repository, is modelled from what the verifier asks of it:
  it denies what is out of scope, over-committed or not freshly evidenced; evaluations that
  reach their latency bound are abandoned at the bound and denied
  (`timeout_semantics_test.go:6-12`). `OccasionsAssumption` says what else the verifier asks,
  of a denial as much as of a permit: a registered point, a MAT and a commitment that verify
  and under which the evaluation starts in time, windows that open on a whole second where
  the clock is stamped in whole seconds (a start cut to the second would otherwise lie before
  the window), a commitment that states a validity and names the machine its MAT names. Where
  a category is evidenced more than once, every reference is to be fresh: the verifier judges
  the last, whichever that is (section 5).

Of delegation: `LeafOperationsNarrow`, `LeafLimitsNarrow`, `LeafConstraintsNarrow` (leaf
against root, not link by link), `AcceptedChainIsPath`, `FirstFaultReported` (which of several
faults is named, and that a chain without one is accepted; the order of links and of the checks
of a link is at stake in it, that of the rules inside `ValidateDerivation` is shared by both
sides), `AlwaysDecides`. That no lawful
chain is refused (`LawfulChainAccepted`) follows, and is proved. Two of these carry a
precondition on the chain, each because of a departure listed in section 5. `PlainPatterns`
(a wildcard only ends a pattern) excludes `svc/*` under `svc/**`; `Comparable` (time texts
sort as instants, bounds are numbers, rates and states are stated, budgets are not negative)
excludes the window, bound, rate and budget cases. The checked chains include both those that
satisfy the preconditions and those that do not.

Of provenance: `ImplementsPath`, both directions of the promise, for receipts in any order;
`CyclesAreCountedOut`, that the walk's own cycle test is dead code because a cycle has no
root; `AlwaysDecides`.

Of the anchor set: `RegisteredCanVerify`, that registration admits no key its primitive
would fail on later; `VerdictsStand`, that nothing after a registration changes what the key
vouches for, a write to the caller's slice included; `ConfiguredAsStated`, that a manifest is
configured in full or not at all.

Of receipts among receipts: `ActsAccountedFor` states what a query-only record can promise,
that one receipt is acted on at most once per worker and once more per crash, and not the
uniqueness it cannot; `RefusedWasActed` that looking is not acting; `ActedIsRecorded` that
what is entered in the record is what is asked of it, where no crash comes between. `StretchOfTheChain` states what the chain link can promise, that an
audited log has no gap inside and no repeat, and not its two ends; `SettlesSpeculation`,
`RefusedForCause` (an honest entry is never refused for its envelope or for a receipt that
lies outside the stretch), `WalkCatchesUp`.

Of the harness: `PinnedIsCovered`, that the two assemblies of the verifier's input agree;
`PassesRestOnArtifacts`, how much a clean suite says; `ReachedByArtifacts`. Of the command
line: `InputAsStated`, read off the words of the command line and not off the parser;
`SuccessRestsOnEveryFile`.

## 4. Runs

| Run | Checks | Bounds | Distinct states |
|---|---|---|---|
| `verify` | `TypeOK`, `NothingGoesMissing`, `WithinTheCatalogue`, `VouchedPermitIsAuthorised`, `CommitmentNarrowsItsMAT`, `ImplementsVerdict`, `AlwaysReturns` | every input at most two deviations from an honest presentation: an input withheld, a bad envelope, or one field of one artifact; every artifact changed before issue, under three decisions, commitments under a MAT that leaves resources unconstrained among them | about 151,000 |
| `omission` | `OmissionOnlyDegrades` | one deviation, and every artifact changed before issue, with every one, every two and all six optional inputs withheld | about 192,000 |
| `honest` | `HonestNeverRefuted` | four MATs, each with a commitment that narrows it, one that exceeds it and none; two contexts, three requests, evaluations around whole seconds and around budgets, exact and truncated clocks, full and minimal disclosure, four sets of withheld inputs, every decision the point may take; other points, evidence, scopes and partial disclosures one at a time | about 234,000 |
| `delegation` | `TypeOK`, `LeafOperationsNarrow`, `LeafLimitsNarrow`, `LeafConstraintsNarrow`, `AcceptedChainIsPath`, `FirstFaultReported`, `AlwaysDecides` | chains of up to three MATs; every combination along the chain of a pool of values for one part at a time (scope, boundary, each constraint type, obligations, shape) | about 23,000 |
| `provenance` | `TypeOK`, `CyclesAreCountedOut`, `ImplementsPath`, `AlwaysDecides` | every sequence of up to three receipts with any digests and references; every four with distinct digests | about 73,000 |
| `trust_anchors` | `TypeOK`, `RegisteredCanVerify`, `VerdictsStand`, `ConfiguredAsStated` | sets registered on call by call: three key ids, two subjects, one slice with four contents, a good key of each algorithm and a key for each refusal; sets built from manifests of one entry of every description, two entries each good or wrong in one field, or three good ones | about 37,000 |
| `replay_guard` | `TypeOK`, `ActsAccountedFor`, `RefusedWasActed`, `ActedIsRecorded` | two workers, one crash, three receipts of one artifact, one of them in two envelopes and one also forged | about 4,800 |
| `receipt_chain` | `TypeOK`, `StretchOfTheChain`, `SettlesSpeculation`, `RefusedForCause`, `WalkCatchesUp` | `MaxIssued` = 3 receipts, `MaxChanges` = 2 changes of the log, two values of the unsigned header | about 179,000 |
| `conformance` | `TypeOK`, `PinnedIsCovered`, `PassesRestOnArtifacts`, `ReachedByArtifacts` | one vector of any kind over a disk of whole, missing and forged files, or two that share files | about 39,000 |
| `command_line` | `TypeOK`, `InputAsStated`, `SuccessRestsOnEveryFile` | `MaxArgs` = 2 optional arguments beside receipt and anchors, in any order, with values missing, empty, unreadable or of another form | about 146,000 |

Why these bounds are enough to be interesting. Every check of the verifier depends on at
most three fields, each of which takes the values on both sides of every comparison the
code makes (at the boundary and one beyond: 1000 ms and 1001 ms of skew, a budget and one
above). Two deviations put any two checks, or a check and a guard, against each other.
A chain of three MATs is the shortest in which a rule has to compose; two quotas are enough
for the map order to matter; two obligations of one category for the last write to. The
parts of a MAT are judged by separate groups of rules that share no field, so chains that
vary one part at a time meet every rule. Four receipts are the fewest that hold a detached
cycle beside a root and its child, or a fan-out beside a chain. Two workers make the gap
between question and entry; the proof covers any number. Three receipts let one settle
another across a third, and two changes make a swap that a loss undoes. The values of every
MC module include those that a precondition excludes.

Deadlock is checked where the system never stops (`replay_guard`); every
other machine stops when it returns, or when the log has been read and its bounds are spent.

Two more runs each check one statement of a comment that the code does not keep, and TLC finds
it violated. Section 5 says how.

| Run | On | Property | The comment |
|---|---|---|---|
| `window_within` | the instance of `delegation` | `AcceptedWindowWithin` | "Child window must be within parent window" (`delegation.go:329`) |
| `nothing_claimed_unreported` | the inputs of `verify` one deviation away and those changed before issue | `NothingClaimedUnreported` | "Nothing the receipt claims goes unreported" (`verify.go:795`) |

Fairness. The library is sequential code without blocking calls: once called, it takes its
next step. `FairSpec` of `Verify`, `Delegation` and `Provenance` is weak fairness of `Next`
as a whole and of nothing smaller. In `ReplayGuard` a worker that has acted goes on to record
it or crashes (`WF` of `Record` per worker; nothing makes it verify or act), and in
`ReceiptChain` the auditor's loop goes on (`WF` of `ReadNext`; nothing makes anybody issue a
receipt or change the log). The other machines assert no liveness.

## 5. Where the code departs from its comments

Met while modelling. The model follows the code; the properties are stated so that they hold
of it, and the preconditions of section 3 are what the departures in delegation cost.

- `verify.go:408`: only the last evidence reference of a category is judged; the comment says
  each must be fresh (381-383).
- `verify.go:616`: what a receipt claims about its commitment is examined only once the
  commitment is parsed, and is not on the list of the last loop; without a commitment that
  verifies nothing is reported of it. The comment over the loop says nothing the receipt
  claims goes unreported (795). Run `nothing_claimed_unreported`.
- `verify.go:682`: a claim refuted with the commitment is therefore not reported without it,
  even the two that are held against the MAT. An input the presenter controls must not delete a
  check (632-633); the test of the rule excepts "dropping the artifact whose own claim a check
  examines" and reads "a receipt presented without a commitment" as one that makes no commitment
  claims (`input_omission_test.go:18-21`), which is not so of a receipt that carries them.
- `verify.go:728`: a commitment with one end of its window left out is checked against the
  other alone; the comment on an absent window (722-727) and `ValidateTemporal` refuse it.
- `mat.go:185`: `coversResource` returns before the exclusions are consulted when resources are
  unconstrained, which `CoversOperation` does not, so a commitment may declare a resource its
  MAT excludes (`commitment.go:75-76`).
- `delegation.go:368`: bounds written in different offsets are compared as texts, so an accepted
  child's window may reach outside its parent's (329). Run `window_within`.
- `delegation.go:479`: only the root's `max_depth` is read; the error's comment speaks of the
  parent's allowance (27-28).
- `delegation.go:386`: a child bound of NaN passes both comparisons and then bounds nothing;
  "Child min must be >= parent min" (384).
- `delegation.go:411`: an unstated rate or value is "unconstrained" to the comparison and
  "never" to the evaluation; every child constraint is to be as strict (290-291).
- `delegation.go:358`: a negative child budget is tighter here and no budget to
  `verify.go:987`; delegation is to stop a child from widening the bound (`verify.go:456-457`).
- `delegation.go:203`: pattern `svc/*` is accepted under `svc/**`, which reaches only names
  that begin with a literal `svc/*`; the child's scope is to be a subset (143).
- `provenance.go:117`: reconstruction does not read `ParentArtifactID`, only digests link a
  chain (the verifier compares it with the commitment's and with no parent); the reference is
  said to tie a receipt to an artifact and a commitment (`receipt.go:140-141`).
- `conformance.go:80`: an anchor without roles is refused; the usage text lists three fields
  and no roles (`cmd/xap/main.go:56`).
- `conformance.go:163`: a file that cannot be loaded counts as the rejection a vector expects;
  the harness is to report whether the outcome is reproduced (139-140).
  `PassesRestOnArtifacts` says exactly which vectors this leaves without an artifact.
- `cmd/xap/main.go:114`: the command prints `PASS` for a check that was not performed; the
  comment on the statuses forbids reporting an unavailable check as passed (`verify.go:92-95`).

Also: a child MAT's validity interval is not compared with its parent's; two receipts may
settle one speculative receipt; an option without a value is taken for an option not given.

## 6. Proofs

All results are for every value of the constants; the assumptions are the named `ASSUME`s of
the modules, which TLC evaluates on every run. They say that numbers are numbers, lists are
lists, decoding yields bytes or nothing and sets of names do not overlap; that the enforcement
point whose log is audited is registered as one (`ReceiptChainAssumption`); what an honest
point evaluates under (`OccasionsAssumption`, section 3); and, in the two
modules that see the verifier only through what it reports, that a status is one of the three
(`ConformanceAssumption`) and that a receipt that does not verify is a failed check
(`CommandLineAssumption`; `Verify` reports it in its first step).

`VerifyProofs` has five parts, one on top of the other.

1. `TypeCorrect`, `ReportsOnce`, `MissesNothing`, `StaysInCatalogue` and `Implements`
   (`Spec => ImplementsVerdict`). None of the four invariants is inductive: that a step
   reports nothing twice depends on what earlier steps reported, and that the loop leaves no
   gap on where it stands. The inductive invariant `IInv` adds to `TypeOK`: `Tallied` (`valid`
   and `notPerformed` are what the checks reported so far say), `Progress` (where the machine
   stands bounds which names can have been reported), `Answered` (which checks earlier steps
   are known to have reported, the receipt's claims about a parsed commitment among them), `Reconciling` (the emitted map is the set of names reported
   before the loop, and every inventory name below `next` has been reported) and `Finished`
   (what holds on return, by the early exit or by the end of the loop).
2. `DeterminedByInput`: the checks of a finished call are `Answers(in)`, a function of the
   input written down step by step without the machine. The invariant `Answering` says it of
   the steps behind the machine and of the two artifacts it has parsed.
3. `OmissionGainsNothing` (`PairSpec => []OmissionOnlyDegrades`): a property of two calls. By
   part 2 what the second call reports can be compared with what the first reported without
   following either, so the invariant relating them (`PairInv`) needs no step-by-step
   correspondence: the first call's checks are the answers for its input, and its input is
   the second's and more (`Lesser`). One lemma per step shows that its part of `Answers` is
   only lowered when inputs are withheld (`Lowered`), and part 1 turns sets of checks back
   into statuses, since no call names a check twice.
4. `VouchesTruly` and `CommitmentsNarrow`. While the result is still valid, each step that
   has run leaves a fact about the *input* behind: its checks did not fail, and one it could
   not perform is listed. The invariant `Vouching` collects these facts, indexed by the
   position of the machine, and mentions no list of checks; each step adds its own fact and
   keeps the others. What a relying party reads into a valid result then follows from the
   facts at the end, without looking at the machine again. For the commitment,
   `ScopeDeclaresWithin` takes the scope check apart: what it lets through declares actions,
   resources, unconstrained dimensions and ranges the MAT has room for (`CoveredIsGranted`,
   `CoveredIsDeclarable`, and ids that do not repeat, `TheOneWithId`).
5. `HonestStands` (`HonestSpec => []HonestNeverRefuted`). By part 2 a call reports `Answers`
   of its input, so nothing is left of the machine but that no step changes the input
   (`HonestInv`); what remains is that no step's part of `Answers` fails on what an occasion
   presents, one lemma a step (`NothingFails`). The hard ones are about the clock: two stamps
   cut to whole seconds are less than a second further apart or closer than the evaluation
   took, in either direction, which is the verifier's tolerance (`TimingOn`, from
   `CutLoses`), and a cut start stays inside a window that opens on a whole second
   (`StampOpens`). An evaluation is abandoned at the strictest budget the MAT states, which is
   the one the verifier holds it to (`WithinBudget`).

`DelegationProofs`: `TypeCorrect`, `AcceptsPaths`, `LimitsNarrow`, `ScopeNarrows`. The walk
compares neighbours only, so the invariant says of the last MAT validated that it narrows
the root, and each derivation extends it by transitivity. `PatternsNest` shows that covering
of plain patterns composes, and is where `PlainPatterns` is needed. `FirstFaults` and
`AcceptsLawful` follow from the invariant that nothing before the place the walk has reached
is at fault; in `LeafConstrained` one lemma per constraint type shows that strictness implies
evaluation (`StricterImplies`; this is where `Comparable` is needed) and the budgets compose
because a latency budget, once stated, is met at every link by one no larger. `WalkRunsOut`
is the safety core of `AlwaysDecides` for chains of any length: a measure of what is left
(`Remaining`), never below zero, falls with every step.

`ProvenanceProofs`: `TypeCorrect`, `NoCycleReported` and `Implements`
(`Spec => ImplementsPath`). Soundness: the walk goes from the one root along unique children,
so what it has passed is a path of distinct receipts; that it is all of them follows from
their number. Completeness: along a path every loop passes its test and the walk can only
follow the path (`Follows`). `LoopsRunOut`: the walk is a loop without a condition
(`provenance.go:77`), so what bounds it is that the receipts it has passed are distinct
(`NoLonger`); every step of the loops brings `Remaining` down, and it is never below zero.

`TrustAnchorsProofs`: `TypeCorrect`, `CanVerify`, `RegistrationSettles`. The invariant says
that a registered key's roles are in an array of the set's own; only a registration writes
one, and only for a key id not yet registered. `BuiltAsStated` is about `BuildAnchors`, for
manifests of any length: the invariant says that the entries before the one at hand are
described in full, have distinct key ids and are what the set holds, stage by stage of the
entry; a refusal exhibits the entry, or the pair of entries, that is at fault. The run's
`SetSpec` has the behaviours of `Spec`, of which the first three speak, and those of `MSpec`,
of which the last does.

`ReplayGuardProofs`: `TypeCorrect`, `ActsBounded`, `RefusalsAreReplays`. While a receipt is
not recorded, every act on it belongs to a worker that has yet to record it or was lost in a
crash; once it is, no verification of it succeeds, so what is under way is all there will be.

`ReceiptChainProofs`: `TypeCorrect`, `AuditedStretch`, `SettledAreSpeculative`,
`RefusesForCause`, `UntouchedLogAccepted`. Each receipt issued names the digest of the one
before, and digests are injective, so a receipt has one predecessor: the audit, which only
compares an entry with the last it accepted, can only go along the chain. Receipts are
numbered as they are issued, so no two are equal. A refusal has to stay justified while more
receipts are issued: what is issued later is none that was refused.

`ConformanceProofs`: `TypeCorrect`, `PinsAreCovered`, `PassesAreGrounded`, `ReachedAreReal`.
The three walks meet in nothing but the manifest; the invariant says of each what it has
established of the vectors behind it and that a later walk leaves it so.

`CommandLineProofs`: `TypeCorrect`, `InputIsStated`, `SuccessIsComplete`. The invariant
follows the command in three parts: what `newFlags` has made of the arguments behind it,
given that the line is well formed (`Split`), which commands reach verification and with what
options (`Line`), and of each input whether it has been read and from where (`Gathered`).

Every safety property the passing runs check is a theorem. Only model-checked is everything
temporal under fairness (`AlwaysReturns`, `AlwaysDecides`, `ActedIsRecorded`,
`WalkCatchesUp`): liveness, `ENABLED`, induction over data and recursive operators are outside
what the installed provers reach. Of `AlwaysDecides` what is proved is that the steps run out
(`WalkRunsOut`, `LoopsRunOut`); that the last of them leaves a verdict behind, because until
then a step is enabled and is taken, is checked by TLC. No module declares a recursive operator.

## 7. Not modelled

- `ValidateTemporal` (`commitment.go:206-221`), which nothing in the package calls.
- The encoding (`canonical/`, the CBOR library) and the cryptography: used through what they
  promise, that a digest is injective, a payload canonical, a signature made by its key.
- The browser verifier: one call of `ParseReceipt` over an embedded anchor list; what it
  relies on is `ReceiptParses` and `ConfiguredAsStated`. Its remaining lines pass values to
  and from JavaScript.
- The examples: each calls one modelled function on fixed data.
- The vector corpus, which is another repository: `Conformance` takes its manifests and files
  as constants.
- Key material overwritten by the operator after registration: the code keeps key bytes by
  reference, and no caller in the repository reuses a buffer.
- Error texts and printing, beyond the marks and exit codes of the command line.

## 8. State of the plan

Every module planned is written and checked, and every safety property of the passing runs is
proved. What stays with TLC is liveness under fairness, which the installed provers cannot
reach.
