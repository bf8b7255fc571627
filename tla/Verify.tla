------------------------------- MODULE Verify -------------------------------
(***************************************************************************)
(* Verifier.Verify as the machine it is: one action per numbered step of   *)
(* the function, in its order, each appending the checks that step emits   *)
(* to the result. A step guarded by an input that is missing, or by an     *)
(* artifact that did not parse, emits nothing; the final loop walks the    *)
(* inventory receiptCarriedChecks and reports what no step emitted.        *)
(*                                                                         *)
(* A VerifyInput is [receipt, mat, context, prior, confirmed, commitment,  *)
(* replay]: receipt is an envelope; every other field is optional; mat and *)
(* commitment hold envelopes, prior and confirmed receipts the caller has  *)
(* parsed, replay the set of receipt digests the caller acted on.          *)
(***************************************************************************)
EXTENDS Checks

CONSTANTS Anchors,   \* the verifier's trust anchor set
          Inputs     \* the inputs a caller may present

\* What the types of the Go fields say of anchors, envelopes and payloads: lists
\* are lists, numbers and instants are numbers, an outcome is an id and a bit.
Listed(s) == Len(s) \in Nat /\ s = [i \in 1..Len(s) |-> s[i]]

TypedReceipt(r) ==
    /\ r.elapsed_ms \in Int
    /\ \A ts \in {r.start, r.complete} : IsInstant(ts) => Instant(ts) \in Int
    /\ \A o \in r.constraint_outcomes : o = [id |-> o.id, satisfied |-> o.satisfied]

TypedMAT(m) ==
    /\ Len(m.constraints) \in Nat
    /\ \A i \in 1..Len(m.constraints) : m.constraints[i].max_ms \in Int

ASSUME InputsAssumption ==
    /\ \A kid \in DOMAIN Anchors : Listed(Anchors[kid].public)
    /\ \A x \in Inputs :
          /\ Listed(x.receipt.signature)
          /\ Unmarshals(x.receipt, "receipt") => TypedReceipt(x.receipt.payload)
          /\ x.mat # <<>> =>
                /\ Listed(x.mat[1].signature)
                /\ Unmarshals(x.mat[1], "mat") => TypedMAT(x.mat[1].payload)

VARIABLES in,             \* the VerifyInput of this call
          pc,             \* the step about to run
          mat,            \* <<>>, or the parsed governing MAT
          com,            \* <<>>, or the parsed commitment
          checks,         \* res.Checks: a sequence of [name, status]
          valid,          \* res.Valid
          notPerformed,   \* res.NotPerformed, without its order
          header,         \* res.ArtifactID, res.Decision, res.Speculative
          emitted,        \* the reconciliation's map of emitted names
          next            \* the reconciliation's position in the inventory

vars == <<in, pc, mat, com, checks, valid, notPerformed, header, emitted, next>>

Check(name, status) == [name |-> name, status |-> status]

NamesOf(s) == {s[i].name : i \in 1..Len(s)}

StatusOf(name) == {checks[i].status : i \in {j \in 1..Len(checks) : checks[j].name = name}}

receiptCarriedChecks ==
    <<"artifact_binding", "scope_check", "evidence_covers_obligations",
      "evidence_asserted_fresh", "timing_within_authorized_bound", "policy_digest",
      "evaluation_within_validity", "context_digest", "resource_state_digest",
      "constraint_outcomes", "decision_consistent", "chain_link">>

EmptyHeader == [artifact_id |-> "", decision |-> "", speculative |-> FALSE]

rc == in.receipt.payload

------------------------------------------------------------------------------

\* A call that has done nothing yet.
Fresh ==
    /\ pc = "receipt_signature"
    /\ mat = <<>> /\ com = <<>>
    /\ checks = <<>> /\ valid = TRUE /\ notPerformed = {}
    /\ header = EmptyHeader
    /\ emitted = {} /\ next = 1

Init == in \in Inputs /\ Fresh

\* Mutant of Report: the last checks decide validity alone.
ReportOverwriting(s) ==
    /\ checks' = checks \o s
    /\ valid' = (\A i \in 1..Len(s) : s[i].status # "failed")
    /\ notPerformed' = notPerformed \cup
          {s[i].name : i \in {j \in 1..Len(s) : s[j].status = "not_performed"}}

\* addStatus, once for each check of s.
Report(s) ==
    /\ checks' = checks \o s
    /\ valid' = (valid /\ \A i \in 1..Len(s) : s[i].status # "failed")
    /\ notPerformed' = notPerformed \cup
          {s[i].name : i \in {j \in 1..Len(s) : s[j].status = "not_performed"}}

\* The step "here" reports s and hands over to the step "there".
Step(here, there, s) ==
    /\ pc = here /\ pc' = there
    /\ Report(s)
    /\ UNCHANGED in

\* A step that leaves the parsed artifacts and the rest of the result alone.
PlainStep(here, there, s) ==
    Step(here, there, s) /\ UNCHANGED <<mat, com, header, emitted, next>>

\* What a step emits that only runs under a governing MAT.
IfMAT(s) == IF mat = <<>> THEN <<>> ELSE s

------------------------------------------------------------------------------
(* The receipt alone.                                                       *)

\* (1) The only early return.
ReceiptSignature ==
    LET ok == ReceiptParses(in.receipt, Anchors) IN
    /\ Step("receipt_signature", IF ok THEN "structure" ELSE "done",
            <<Check("receipt_signature", PassIf(ok))>>)
    /\ header' = IF ok THEN [artifact_id |-> rc.artifact_id, decision |-> rc.decision,
                             speculative |-> FALSE]
                 ELSE header
    /\ UNCHANGED <<mat, com, emitted, next>>

\* (2)
Structure ==
    PlainStep("structure", "replay",
        <<Check("receipt_version", PassIf(rc.version = ProtocolVersion)),
          Check("decision_valid", PassIf(rc.decision \in Decisions)),
          Check("rationale_codes_known", PassIf(RationaleCodesKnown(rc))),
          Check("controls_declared", PassIf(ControlsDeclared(rc)))>>)

\* The caller's record is consulted, never updated.
ReplayUnseen ==
    PlainStep("replay", "final",
        <<Check("replay_receipt_unseen",
                Judge(in.replay # <<>>, Digest(rc) \notin in.replay[1]))>>)

ReceiptFinal ==
    /\ Step("final", "enforcement_point",
            <<Check("receipt_final", PassIf(~rc.speculative))>>)
    /\ header' = [header EXCEPT !.speculative = rc.speculative]
    /\ UNCHANGED <<mat, com, emitted, next>>

EnforcementPoint ==
    PlainStep("enforcement_point", "timing",
        <<Check("enforcement_point_binding",
                EnforcementPointBinding(rc, in.receipt.kid, SubjectOf(Anchors, in.receipt.kid)))>>)

\* (3)
SelfTiming ==
    PlainStep("timing", "mat",
        <<Check("timing_within_bound", PassIf(TimingWithinBound(rc))),
          Check("timing_self_consistent", timingSelfConsistent(rc))>>)

------------------------------------------------------------------------------
(* (4) The governing MAT. The local mat is set only when it parses.         *)

GoverningMAT ==
    LET supplied == in.mat # <<>>
        ok == supplied /\ MATParses(in.mat[1], Anchors)
    IN
    /\ mat' = IF ok THEN <<in.mat[1].payload>> ELSE <<>>
    /\ Step("mat", "scope",
            IF ~supplied THEN <<>>
            ELSE IF ~ok THEN <<Check("mat_signature", "failed")>>
            ELSE <<Check("mat_signature", "passed"),
                   Check("artifact_binding",
                         PassIf(rc.artifact_id = in.mat[1].payload.id))>>)
    /\ UNCHANGED <<com, header, emitted, next>>

\* (4b)
ScopeCheck ==
    PlainStep("scope", "evidence",
        IfMAT(<<Check("scope_check", ScopeStatus(rc, mat[1]))>>))

\* (4c) Nothing is emitted for a MAT without proof obligations.
Evidence ==
    PlainStep("evidence", "budget",
        IF mat = <<>> \/ mat[1].proof_obligations = <<>> THEN <<>>
        ELSE <<Check("evidence_covers_obligations", EvidenceCovers(rc, mat[1])),
               Check("evidence_asserted_fresh", EvidenceFresh(rc, mat[1]))>>)

\* (4d), (4d2), (4f)
AuthorizedBudget ==
    PlainStep("budget", "context",
        IfMAT(<<Check("timing_within_authorized_bound", AuthorizedTiming(rc, mat[1])),
                Check("policy_digest", PolicyDigest(rc, mat[1])),
                Check("evaluation_within_validity",
                      withinWindow(rc.start, mat[1].not_before, mat[1].not_after))>>))

------------------------------------------------------------------------------
(* (5) The reproduced context.                                              *)

Context ==
    PlainStep("context", "outcomes",
        IF in.context = <<>> THEN <<>>
        ELSE <<Check("context_digest", PassIf(rc.context_digest = Digest(in.context[1]))),
               Check("resource_state_digest", ResourceStateDigest(rc, in.context[1]))>>)

Outcomes ==
    PlainStep("outcomes", "confirmation",
        IF in.context = <<>> \/ mat = <<>> THEN <<>>
        ELSE <<Check("constraint_outcomes", recomputeOutcomes(mat[1], in.context[1], rc)),
               Check("decision_consistent",
                     PassIf(decisionConsistent(mat[1], in.context[1], rc)))>>)

------------------------------------------------------------------------------
(* Confirmation and (6) the chain link.                                     *)

Confirmation ==
    PlainStep("confirmation", "chain",
        <<Check("confirmation_link", ConfirmationLink(rc, in.confirmed))>>)

Chain ==
    PlainStep("chain", "commitment",
        IF in.prior = <<>> THEN <<>>
        ELSE <<Check("chain_link", PassIf(ChainLink(rc, in.prior[1])))>>)

------------------------------------------------------------------------------
(* (7) The commitment. Its steps run only when its envelope parses.         *)

Commitment ==
    LET supplied == in.commitment # <<>>
        ok == supplied /\ CommitmentParses(in.commitment[1], Anchors)
    IN
    /\ com' = IF ok THEN <<in.commitment[1].payload>> ELSE <<>>
    /\ Step("commitment", IF ok THEN "authority" ELSE "inventory",
            IF supplied THEN <<Check("commitment_signature", PassIf(ok))>> ELSE <<>>)
    /\ UNCHANGED <<mat, header, emitted, next>>

\* Mutant of Authority: without a MAT its checks are left out.
AuthorityUnderMAT ==
    PlainStep("authority", "compliance",
        IfMAT(<<Check("commitment_binding", PassIf(VerifyBinding(com[1], mat[1]))),
                Check("commitment_scope", PassIf(CommitmentScope(rc, com[1], mat[1])))>>))

Authority ==
    PlainStep("authority", "compliance",
        <<Check("commitment_binding", Judge(mat # <<>>, VerifyBinding(com[1], mat[1]))),
          Check("commitment_scope", Judge(mat # <<>>, CommitmentScope(rc, com[1], mat[1])))>>)

\* Mutant of Compliance: none of the three claims is judged without a MAT.
ComplianceUnderMAT ==
    PlainStep("compliance", "provenance",
        IF mat = <<>> \/ rc.compliance = <<>> \/ rc.compliance[1].action = <<>> THEN <<>>
        ELSE LET ac == rc.compliance[1] IN
             <<Check("compliance_commitment_check",
                     PassIf(ac.commitment_check = DeclaresAction(com[1], ac.action))),
               Check("compliance_scope_check",
                     PassIf(ac.scope_check = CoversOperation(mat[1], ac.action, <<>>))),
               Check("compliance_boundary_check",
                     PassIf(ac.boundary_check = (ac.action \notin mat[1].boundary.exclusions)))>>)

\* A claimed flag must equal the recomputed one, whatever the decision.
Compliance ==
    PlainStep("compliance", "provenance",
        IF rc.compliance = <<>> \/ rc.compliance[1].action = <<>> THEN <<>>
        ELSE LET ac == rc.compliance[1] IN
             <<Check("compliance_commitment_check",
                     PassIf(ac.commitment_check = DeclaresAction(com[1], ac.action))),
               Check("compliance_scope_check",
                     Judge(mat # <<>>, ac.scope_check = CoversOperation(mat[1], ac.action, <<>>))),
               Check("compliance_boundary_check",
                     Judge(mat # <<>>,
                           ac.boundary_check = (ac.action \notin mat[1].boundary.exclusions)))>>)

Provenance ==
    PlainStep("provenance", "windows",
        IF rc.provenance = <<>> THEN <<>>
        ELSE <<Check("provenance_agreement", PassIf(rc.provenance = com[1].provenance))>>)

Windows ==
    PlainStep("windows", "identity",
        <<Check("commitment_temporal", CommitmentTemporal(rc, com[1])),
          Check("commitment_action_window", CommitmentActionWindow(rc, com[1]))>>)

Identity ==
    PlainStep("identity", "commitment_digest",
        <<Check("agent_identity_wellformed", AgentIdentityWellformed(com[1])),
          Check("agent_identity_binding",
                IF mat = <<>> THEN "not_performed"
                ELSE identitiesAgree(com[1].agent_identity, mat[1].machine_identity))>>)

CommitmentDigest ==
    PlainStep("commitment_digest", "inventory",
        IF rc.commitment_digest = <<>> THEN <<>>
        ELSE <<Check("commitment_digest", PassIf(rc.commitment_digest = Digest(com[1])))>>)

------------------------------------------------------------------------------
(* (9) Reconciliation: first the map of emitted names, then the loop.       *)

Inventory ==
    /\ emitted' = NamesOf(checks)
    /\ Step("inventory", "reconcile", <<>>)
    /\ UNCHANGED <<mat, com, header, next>>

\* Mutant of Reconcile: every claim is reported, emitted before or not.
ReconcileAll ==
    /\ next <= Len(receiptCarriedChecks)
    /\ next' = next + 1
    /\ Step("reconcile", "reconcile", <<Check(receiptCarriedChecks[next], "not_performed")>>)
    /\ UNCHANGED <<mat, com, header, emitted>>

\* Mutant of Reconcile: the loop advances only past what it reports.
ReconcileStuck ==
    /\ next <= Len(receiptCarriedChecks)
    /\ receiptCarriedChecks[next] \notin emitted
    /\ next' = next + 1
    /\ Step("reconcile", "reconcile", <<Check(receiptCarriedChecks[next], "not_performed")>>)
    /\ UNCHANGED <<mat, com, header, emitted>>

Reconcile ==
    /\ next <= Len(receiptCarriedChecks)
    /\ next' = next + 1
    /\ LET name == receiptCarriedChecks[next]
       IN  Step("reconcile", "reconcile",
                IF name \in emitted THEN <<>> ELSE <<Check(name, "not_performed")>>)
    /\ UNCHANGED <<mat, com, header, emitted>>

Return ==
    /\ next > Len(receiptCarriedChecks)
    /\ PlainStep("reconcile", "done", <<>>)

------------------------------------------------------------------------------

Next ==
    \/ ReceiptSignature \/ Structure \/ ReplayUnseen \/ ReceiptFinal
    \/ EnforcementPoint \/ SelfTiming
    \/ GoverningMAT \/ ScopeCheck \/ Evidence \/ AuthorizedBudget
    \/ Context \/ Outcomes \/ Confirmation \/ Chain
    \/ Commitment \/ Authority \/ Compliance \/ Provenance \/ Windows
    \/ Identity \/ CommitmentDigest
    \/ Inventory \/ Reconcile \/ Return

Spec == Init /\ [][Next]_vars

\* The function is sequential code without blocking calls: it runs to its end.
FairSpec == Spec /\ WF_vars(Next)

------------------------------------------------------------------------------
(* What must hold.                                                          *)

Steps == {"receipt_signature", "structure", "replay", "final", "enforcement_point",
          "timing", "mat", "scope", "evidence", "budget", "context", "outcomes",
          "confirmation", "chain", "commitment", "authority", "compliance",
          "provenance", "windows", "identity", "commitment_digest", "inventory",
          "reconcile", "done"}

Carried == {receiptCarriedChecks[i] : i \in 1..Len(receiptCarriedChecks)}

\* The checks reported for every receipt whose signature verifies.
OwnChecks == {"receipt_signature", "receipt_version", "decision_valid",
              "rationale_codes_known", "controls_declared", "replay_receipt_unseen",
              "receipt_final", "enforcement_point_binding", "timing_within_bound",
              "timing_self_consistent", "confirmation_link"}

\* The checks reported for every commitment that verifies.
CommitmentChecks == {"commitment_signature", "commitment_binding", "commitment_scope",
                     "commitment_temporal", "commitment_action_window",
                     "agent_identity_wellformed", "agent_identity_binding"}

\* The checks reported for a claim the receipt makes about its commitment.
ClaimChecks == {"compliance_commitment_check", "compliance_scope_check",
                "compliance_boundary_check", "provenance_agreement", "commitment_digest"}

\* conformance.VerifierChecks and conformance.NotPerformedCapableChecks.
VerifierChecks == OwnChecks \cup Carried \cup CommitmentChecks \cup ClaimChecks
                      \cup {"mat_signature"}

NotPerformedCapableChecks ==
    {"replay_receipt_unseen", "enforcement_point_binding", "timing_self_consistent",
     "confirmation_link"} \cup Carried \cup
    {"commitment_binding", "commitment_scope", "compliance_scope_check",
     "compliance_boundary_check", "commitment_action_window",
     "agent_identity_wellformed", "agent_identity_binding"}

CheckRecords == [name : VerifierChecks, status : Statuses]

\* Every variable has its type; a MAT or a commitment in hand is the payload of
\* the envelope the caller supplied.
TypeOK ==
    /\ pc \in Steps
    /\ mat = <<>> \/ mat = <<in.mat[1].payload>>
    /\ com = <<>> \/ com = <<in.commitment[1].payload>>
    /\ checks \in Seq(CheckRecords)
    /\ valid \in BOOLEAN
    /\ notPerformed \subseteq VerifierChecks
    /\ emitted \subseteq VerifierChecks
    /\ next \in 1..(Len(receiptCarriedChecks) + 1)

Reported == NamesOf(checks)

\* No check is reported twice: not by two branches of one step, not by a step
\* and the reconciliation (verify.go:795-824 relies on the emitted map).
ReportedOnce ==
    \A i, j \in 1..Len(checks) : checks[i].name = checks[j].name => i = j

\* The checks a receipt owes for what it claims about its commitment.
ClaimsMade ==
    (IF rc.compliance # <<>> /\ rc.compliance[1].action # <<>>
     THEN {"compliance_commitment_check", "compliance_scope_check",
           "compliance_boundary_check"}
     ELSE {})
    \cup (IF rc.provenance # <<>> THEN {"provenance_agreement"} ELSE {})
    \cup (IF rc.commitment_digest # <<>> THEN {"commitment_digest"} ELSE {})

\* Nothing goes missing: a finished verification of a receipt whose signature
\* holds has reported every check of the receipt and of the inventory, whichever
\* inputs were supplied or failed to parse, the signature of each artifact
\* supplied, and, of a commitment that verified, its own checks and one for each
\* claim the receipt makes about it (verify.go:795-824, 623-638, 669-692). What
\* it claims about a commitment that is missing or does not verify goes
\* unreported: NothingClaimedUnreported below.
NothingGoesMissing ==
    pc = "done" =>
        \/ Reported = {"receipt_signature"} /\ ~valid
        \/ /\ OwnChecks \cup Carried \subseteq Reported
           /\ in.mat # <<>> => "mat_signature" \in Reported
           /\ in.commitment # <<>> => "commitment_signature" \in Reported
           /\ com # <<>> => CommitmentChecks \cup ClaimsMade \subseteq Reported

\* The checks stay inside the catalogue the conformance suite certifies against:
\* only its checks are emitted, and only those it lists as able to report
\* not_performed do (conformance.go:268-305, 312-344). In particular no claim
\* an artifact was obliged to make reports not_performed.
WithinTheCatalogue ==
    /\ Reported \subseteq VerifierChecks
    /\ notPerformed \subseteq NotPerformedCapableChecks

------------------------------------------------------------------------------
(* What a result vouches for, stated over the artifacts and not over the    *)
(* checks.                                                                  *)

Passed(names) == \A name \in names : StatusOf(name) = {"passed"}

SignedBy(env, role) ==
    /\ env.kid \in DOMAIN Anchors
    /\ role \in Anchors[env.kid].roles
    /\ env.signature = Anchors[env.kid].public

\* The operation is one the grant names, and nothing excludes it.
Grants(m, action, resource) ==
    /\ "actions" \in m.scope.unconstrained \/ action \in m.scope.actions
    /\ \/ "resources" \in m.scope.unconstrained
       \/ resource = <<>>
       \/ \E p \in m.scope.resources : Matches(resource, p)
    /\ {action, resource} \cap (m.boundary.exclusions \ {<<>>}) = {}
    /\ ~hasTraversal(resource)

TrueOutcomes(m, ctx) ==
    {[id |-> m.constraints[i].id, satisfied |-> Evaluate(m.constraints[i], ctx)] :
        i \in 1..Len(m.constraints)}

AllHold(m, ctx) == \A o \in TrueOutcomes(m, ctx) : o.satisfied

\* Every category the MAT obliges is evidenced by a fresh reference.
FreshEvidence(m) ==
    \A cat \in ObligedCategories(m) : \E i \in 1..Len(rc.evidence_refs) :
        rc.evidence_refs[i].category = cat /\ rc.evidence_refs[i].fresh

\* The facts a relying party acts on when it accepts a permit.
AuthorisedPermit(m, ctx) ==
    /\ SignedBy(in.receipt, "enforcement_point") /\ SignedBy(in.mat[1], "issuer")
    /\ m.issuer_kid = in.mat[1].kid
    /\ rc.artifact_id = m.id /\ ~rc.speculative
    /\ rc.enforcement_point = Anchors[in.receipt.kid].subject
    /\ rc.enforcement_point # ""
    /\ Grants(m, rc.action, rc.resource)
    /\ \A i \in 1..Len(m.constraints) :
          (m.constraints[i].type = "latency_bound" /\ m.constraints[i].max_ms > 0) =>
              Instant(rc.complete) - Instant(rc.start)
                  <= m.constraints[i].max_ms + timingClockSkewToleranceMS
    /\ Instant(m.not_before) <= Instant(rc.start)
    /\ Instant(rc.start) <= Instant(m.not_after)
    /\ rc.context_digest = Digest(ctx)
    /\ rc.constraint_outcomes = TrueOutcomes(m, ctx)
    /\ AllHold(m, ctx) \/ rc.controls # {}
    /\ rc.evidence_refs # <<>> => FreshEvidence(m)

Establishing == {"enforcement_point_binding", "timing_self_consistent", "scope_check",
                 "timing_within_authorized_bound", "constraint_outcomes"}

\* A valid result that leaves none of the establishing checks unperformed, on
\* a receipt that permits, under a supplied MAT and context, means the operation
\* really was authorised: signed by a registered enforcement point under a MAT
\* of a trusted issuer, inside its scope, window and latency budget (to within
\* the clock tolerance), on true constraint outcomes, with every constraint
\* holding or a control named, and on fresh evidence of every obliged category
\* where any evidence is disclosed (verify.go:122-137, 187-827).
VouchedPermitIsAuthorised ==
    (/\ pc = "done" /\ valid
     /\ in.mat # <<>> /\ in.context # <<>>
     /\ rc.decision # "deny"
     /\ notPerformed \cap Establishing = {})
    => AuthorisedPermit(in.mat[1].payload, in.context[1])

\* A resource, or pattern of resources, a commitment may declare under m. Under
\* unconstrained resources m's exclusions are not consulted (mat.go:185-190).
DeclarableResource(m, r) ==
    /\ ~hasTraversal(r)
    /\ \/ "resources" \in m.scope.unconstrained
       \/ /\ \E p \in m.scope.resources : Matches(r, p)
          /\ r \notin m.boundary.exclusions

\* The declared set of k stays within m: actions, both lists of resources, what
\* is left unconstrained, and parameter ranges.
DeclaresWithin(k, m) ==
    /\ k.unconstrained \cap {"actions", "resources"} \subseteq m.scope.unconstrained
    /\ \A a \in k.action_types : Grants(m, a, <<>>)
    /\ \A r \in k.resources \cup k.resource_targets : DeclarableResource(m, r)
    /\ \A i \in 1..Len(k.param_ranges), j \in 1..Len(m.constraints) :
          k.param_ranges[i].id = m.constraints[j].id
          => constraintAtLeastAsStrict(k.param_ranges[i], m.constraints[j])

\* A valid result for a MAT and a commitment means the commitment is one made
\* under that very MAT: it is bound to its id and constraint set and generated by
\* the machine it names, if it names one. The evaluation started between both
\* ends of the MAT's validity, not outside any end the commitment states of its
\* own, of which there is at least one, nor outside a stated end of its action
\* window. Unless the receipt denies, what the commitment declares stays within
\* the MAT (verify.go:616-793, commitment.go:84-131). An end left out binds
\* nothing, and is not read as one that was met.
CommitmentNarrowsItsMAT ==
    (pc = "done" /\ valid /\ in.mat # <<>> /\ in.commitment # <<>>)
    => LET m == in.mat[1].payload
           k == in.commitment[1].payload
           start == Instant(rc.start)
       IN
       /\ k.artifact_id = m.id
       /\ k.constraint_digest = Digest(m.constraints)
       /\ m.machine_identity.carries # {} => k.agent_identity = m.machine_identity
       /\ Instant(m.not_before) <= start /\ start <= Instant(m.not_after)
       /\ k.not_before # Absent \/ k.not_after # Absent
       /\ WithinStated(start, k.not_before, k.not_after)
       /\ k.action_window # <<>>
             => WithinStated(start, k.action_window[1], k.action_window[2])
       /\ rc.decision # "deny" => DeclaresWithin(k, m)

------------------------------------------------------------------------------
(* The machine implements the promise of Verdict.                           *)

\* What the caller holds: nothing until the function returns.
Result == IF pc = "done" THEN [valid |-> valid, notPerformed |-> notPerformed,
                               checks |-> checks]
          ELSE [pending |-> TRUE]

Promise == INSTANCE Verdict WITH Required <- OwnChecks \cup Carried,
                                 NoVerdict <- [pending |-> TRUE], verdict <- Result

\* The result goes from nothing to one coherent, complete verdict in a single
\* step and is never changed after (Verify's single exit paths, verify.go:213, 826).
ImplementsVerdict == Promise!Spec

\* Verify always returns: whichever inputs are missing or do not parse, each step
\* hands over to another and the inventory is walked to its end (verify.go:187-827).
AlwaysReturns == <>(pc = "done")

------------------------------------------------------------------------------
(* A statement of the comments the code does not keep.                      *)

\* "Nothing the receipt claims goes unreported" (verify.go:795): once the receipt
\* verifies, each claim it makes about its commitment has a check.
NothingClaimedUnreported ==
    (pc = "done" /\ StatusOf("receipt_signature") = {"passed"})
    => ClaimsMade \subseteq Reported
=============================================================================
