------------------------------- MODULE Checks -------------------------------
(***************************************************************************)
(* The status each named check of Verifier.Verify reports (verify.go), as  *)
(* a function of the receipt rc, the governing MAT mat, the reproduced     *)
(* context ctx, the commitment com and the rest of the input.              *)
(*                                                                         *)
(* A receipt is [version, id, artifact_id, action, resource, decision,     *)
(* controls, context_digest, rationale_codes, constraint_outcomes,         *)
(* evidence_refs, policy_digest, start, complete, elapsed_ms, max_ms,      *)
(* prior_hash, resource_state_digest, resource_keys, speculative, confirms,*)
(* enforcement_point, enforcement_point_kid, commitment_digest, compliance,*)
(* provenance]. compliance is <<>> or one record [action, commitment_check,*)
(* scope_check, boundary_check]; provenance, here and in a commitment, is  *)
(* <<>> or one record [parent_artifact_id, parent_commitment_digest].      *)
(* Detail strings are left out.                                            *)
(***************************************************************************)
EXTENDS Envelopes

CONSTANT KnownCodes   \* the rationale codes of the protocol's constants

Statuses == {"passed", "failed", "not_performed"}

PassIf(p) == IF p THEN "passed" ELSE "failed"

\* Mutant of Judge: a status that is none of the three.
JudgeSkipping(performable, p) == IF performable THEN PassIf(p) ELSE "skipped"

\* A check whose inputs may not permit evaluating it.
Judge(performable, p) == IF performable THEN PassIf(p) ELSE "not_performed"

Decisions == {"permit", "deny", "permit_with_controls"}

Permitted(rc) == rc.decision # "deny"

------------------------------------------------------------------------------
(* The receipt alone.                                                       *)

RationaleCodesKnown(rc) == rc.rationale_codes \subseteq KnownCodes

ControlsDeclared(rc) ==
    (rc.decision = "permit_with_controls") <=> (rc.controls # {})

\* A contradicting key id settles it; an anchor without a subject leaves the
\* name unverifiable.
EnforcementPointBinding(rc, kid, subject) ==
    IF rc.enforcement_point_kid \notin {"", kid} THEN "failed"
    ELSE Judge(subject # "", rc.enforcement_point = subject)

TimingWithinBound(rc) == rc.max_ms = 0 \/ rc.elapsed_ms <= rc.max_ms

\* Mutant of timingClockSkewToleranceMS: half a second.
HalfSecondTolerance == 500

timingClockSkewToleranceMS == 1000

Abs(n) == IF n < 0 THEN -n ELSE n

timingSelfConsistent(rc) ==
    IF rc.elapsed_ms < 0 THEN "failed"
    ELSE Judge(rc.start # Absent /\ rc.complete # Absent,
               /\ IsInstant(rc.start) /\ IsInstant(rc.complete)
               /\ Instant(rc.start) <= Instant(rc.complete)
               /\ Abs(Instant(rc.complete) - Instant(rc.start) - rc.elapsed_ms)
                     <= timingClockSkewToleranceMS)

------------------------------------------------------------------------------
(* The governing MAT.                                                       *)

\* An operation out of scope must have been denied; a denial is always in order.
ScopeStatus(rc, mat) ==
    Judge(ScopeReproducible(mat, rc.action, rc.resource),
          Permitted(rc) => CoversOperation(mat, rc.action, rc.resource))

ObligedCategories(mat) ==
    {mat.proof_obligations[i].category : i \in 1..Len(mat.proof_obligations)}

Referenced(rc) == {rc.evidence_refs[i].category : i \in 1..Len(rc.evidence_refs)}

\* byCategory keeps the last reference written under a category.
LastRefFresh(rc, cat) ==
    \E i \in 1..Len(rc.evidence_refs) :
        /\ rc.evidence_refs[i].category = cat
        /\ rc.evidence_refs[i].fresh
        /\ \A j \in (i+1)..Len(rc.evidence_refs) : rc.evidence_refs[j].category # cat

EvidenceCovers(rc, mat) ==
    Judge(rc.evidence_refs # <<>>,
          Permitted(rc) => ObligedCategories(mat) \subseteq Referenced(rc))

EvidenceFresh(rc, mat) ==
    Judge(rc.evidence_refs # <<>>,
          Permitted(rc) =>
              \A cat \in ObligedCategories(mat) \cap Referenced(rc) : LastRefFresh(rc, cat))

AuthorizedTiming(rc, mat) ==
    Judge(LatencyBudgets(mat) # {},
          /\ rc.max_ms # 0
          /\ rc.max_ms <= authorizedLatencyBound(mat)
          /\ rc.elapsed_ms <= authorizedLatencyBound(mat))

PolicyDigest(rc, mat) ==
    Judge(rc.policy_digest # <<>>, rc.policy_digest = ConstraintDigest(mat))

withinWindow(at, nb, na) ==
    Judge(nb # Absent \/ na # Absent, IsInstant(at) /\ WithinStated(Instant(at), nb, na))

------------------------------------------------------------------------------
(* The reproduced context.                                                  *)

ResourceStateDigest(rc, ctx) ==
    Judge(/\ rc.resource_state_digest # <<>>
          /\ rc.resource_keys # {}
          /\ rc.resource_keys \subseteq DOMAIN ctx.resource_state,
          rc.resource_state_digest
              = Digest([k \in rc.resource_keys |-> ctx.resource_state[k]]))

ConstraintHolds(mat, id, ctx) == Evaluate(ById(mat.constraints, id), ctx)

\* Mutant of recomputeOutcomes: silence about a constraint passes.
recomputeListedOutcomes(mat, ctx, rc) ==
    PassIf(\A o \in rc.constraint_outcomes :
              HasId(mat.constraints, o.id) /\ o.satisfied = ConstraintHolds(mat, o.id, ctx))

\* One wrong or unknown outcome fails; silence about a constraint, or a MAT
\* that states none, is not a pass.
recomputeOutcomes(mat, ctx, rc) ==
    IF \E o \in rc.constraint_outcomes :
          ~HasId(mat.constraints, o.id) \/ o.satisfied # ConstraintHolds(mat, o.id, ctx)
    THEN "failed"
    ELSE IF /\ mat.constraints # <<>>
            /\ \A i \in 1..Len(mat.constraints) :
                  \E o \in rc.constraint_outcomes : o.id = mat.constraints[i].id
         THEN "passed" ELSE "not_performed"

decisionConsistent(mat, ctx, rc) ==
    \/ rc.decision = "deny"
    \/ rc.decision = "permit_with_controls" /\ rc.controls # {}
    \/ /\ rc.decision # "permit_with_controls"
       /\ \A i \in 1..Len(mat.constraints) : Evaluate(mat.constraints[i], ctx)

------------------------------------------------------------------------------
(* Other receipts.                                                          *)

ConfirmationLink(rc, confirmed) ==
    Judge(confirmed # <<>>,
          /\ rc.confirms # <<>>
          /\ ~rc.speculative
          /\ confirmed[1].speculative
          /\ rc.confirms = Digest(confirmed[1]))

\* Mutant of ChainLink: a receipt that states no predecessor excuses itself.
ChainLinkWhenStated(rc, prior) == rc.prior_hash = <<>> \/ rc.prior_hash = Digest(prior)

ChainLink(rc, prior) == rc.prior_hash = Digest(prior)

------------------------------------------------------------------------------
(* The commitment.                                                          *)

CommitmentScope(rc, com, mat) == Permitted(rc) => WithinScopeOf(com, mat)

\* Mutant of CommitmentTemporal: an unstated validity excuses itself.
CommitmentTemporalExcused(rc, com) == withinWindow(rc.start, com.not_before, com.not_after)

\* An unstated validity is a defect of the commitment, not a missing input.
CommitmentTemporal(rc, com) ==
    PassIf(withinWindow(rc.start, com.not_before, com.not_after) = "passed")

CommitmentActionWindow(rc, com) ==
    IF com.action_window = <<>> THEN "not_performed"
    ELSE withinWindow(rc.start, com.action_window[1], com.action_window[2])

AgentIdentityWellformed(com) ==
    Judge(~identityUnset(com.agent_identity), ValidateIdentity(com.agent_identity))

\* A MAT that names an identity obliges the commitment to answer.
identitiesAgree(agent, authorized) ==
    Judge(~identityUnset(authorized),
          ~identityUnset(agent) /\ Digest(agent) = Digest(authorized))
=============================================================================
