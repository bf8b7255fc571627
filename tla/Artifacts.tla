----------------------------- MODULE Artifacts -----------------------------
(***************************************************************************)
(* The signed payloads and what each can be asked on its own: digests,     *)
(* machine identities (types.go), the structure of a MAT (mat.go) and the  *)
(* claims of a commitment object (commitment.go).                          *)
(*                                                                         *)
(* Identifiers and key ids are strings, "" when absent. A MAT is a record  *)
(* [version, id, parent_id, issuer_id, issuer_kid, machine_identity, scope,*)
(* boundary, proof_obligations, constraints, delegation, not_before,       *)
(* not_after, nonce, instance_id]; a commitment is [id, agent_identity,    *)
(* action_types, resources, param_ranges, unconstrained, not_before,       *)
(* not_after, artifact_id, constraint_digest, resource_targets, provenance,*)
(* action_window]. The trust vector, the policy expression and the session *)
(* id are read by no function of the package and are left out.             *)
(***************************************************************************)
EXTENDS Constraints, Scopes

ProtocolVersion == "xap-1.0.0"

\* canonical.DigestBytes: a hash of the one canonical encoding of v, taken to
\* be injective. A digest is never the empty byte string <<>>.
Digest(v) == <<"sha256", v>>

------------------------------------------------------------------------------
(* Machine identities. An identity is [kind, carries, value, composite]:    *)
(* carries is the set of kinds whose material field is present and value    *)
(* stands for that material. Members of a composite list have no composite  *)
(* list of their own: nesting is bounded by one level.                      *)

IdentityKinds == {"public_key", "cert_ref", "attestation", "composite"}

KindAgrees(m) == m.kind \in IdentityKinds /\ m.kind \in m.carries

ValidateIdentity(m) ==
    /\ KindAgrees(m)
    /\ m.kind = "composite" =>
          \A i \in 1..Len(m.composite) : KindAgrees(m.composite[i])

identityUnset(m) == m.carries = {}

------------------------------------------------------------------------------
(* MATs.                                                                    *)

ConstraintDigest(mat) == Digest(mat.constraints)

ValidateStructure(mat) ==
    /\ mat.version = ProtocolVersion
    /\ mat.id # ""
    /\ mat.issuer_id # ""
    /\ identityUnset(mat.machine_identity) \/ ValidateIdentity(mat.machine_identity)
    /\ mat.nonce # ""
    /\ mat.instance_id = mat.id
    /\ validateConstraintIDs(mat.constraints)
    /\ IsInstant(mat.not_before)
    /\ IsInstant(mat.not_after)

\* at, an instant, is outside the stated validity; unreadable bounds count as expired.
Expired(mat, at) ==
    \/ ~IsInstant(mat.not_before) \/ ~IsInstant(mat.not_after)
    \/ at < Instant(mat.not_before) \/ Instant(mat.not_after) < at

ValidateAt(mat, at) == ValidateStructure(mat) /\ ~Expired(mat, at)

\* The strictest latency_bound that states a positive budget: {} when none does.
LatencyBudgets(mat) ==
    {mat.constraints[i].max_ms :
        i \in {j \in 1..Len(mat.constraints) :
                  /\ mat.constraints[j].type = "latency_bound"
                  /\ mat.constraints[j].max_ms > 0}}

authorizedLatencyBound(mat) ==
    CHOOSE b \in LatencyBudgets(mat) : \A o \in LatencyBudgets(mat) : b <= o

------------------------------------------------------------------------------
(* Commitments.                                                             *)

\* DeclaredActionSet.Covers, for the one resource it is ever called with: "".
DeclaresAction(com, action) ==
    "actions" \in com.unconstrained \/ action \in com.action_types

\* Mutant of WithinScopeOf: the second list of resources is not looked at.
WithinScopeOfDeclared(com, mat) ==
    /\ com.unconstrained \cap {"actions", "resources"} \subseteq mat.scope.unconstrained
    /\ \A a \in com.action_types : CoversOperation(mat, a, <<>>)
    /\ \A r \in com.resources : coversResource(mat, r)
    /\ \A i \in 1..Len(com.param_ranges) :
          LET pr == com.param_ranges[i]
          IN  HasId(mat.constraints, pr.id) =>
                constraintAtLeastAsStrict(pr, ById(mat.constraints, pr.id))

WithinScopeOf(com, mat) ==
    /\ com.unconstrained \cap {"actions", "resources"} \subseteq mat.scope.unconstrained
    /\ \A a \in com.action_types : CoversOperation(mat, a, <<>>)
    /\ \A r \in com.resources \cup com.resource_targets : coversResource(mat, r)
    /\ \A i \in 1..Len(com.param_ranges) :
          LET pr == com.param_ranges[i]
          IN  HasId(mat.constraints, pr.id) =>
                constraintAtLeastAsStrict(pr, ById(mat.constraints, pr.id))

VerifyBinding(com, mat) ==
    /\ com.artifact_id = mat.id
    /\ com.constraint_digest = ConstraintDigest(mat)
=============================================================================
