------------------------------ MODULE MCInputs ------------------------------
(***************************************************************************)
(* The small world the model-checking modules build their inputs from: an  *)
(* anchor set, one MAT, one context, one commitment, and a consistent      *)
(* receipt over any of them (its digests are those of the artifacts it is  *)
(* issued under). Times are milliseconds; texts of whole seconds.          *)
(***************************************************************************)
EXTENDS Envelopes

At(t) == <<t, t>>           \* the UTC text of the instant t, ranked by it
Malformed == <<0>>          \* a text that is not RFC 3339
OtherDigest == <<"other">>  \* bytes that are no artifact's digest

\* ke is an enforcement point with a registered subject, ku one without, kh one
\* with a hybrid key; ki and kj are issuers, ka an agent.
MCAnchors ==
    [ke |-> [alg |-> "ed25519", public |-> <<"ske">>,
             roles |-> {"enforcement_point"}, subject |-> "ep1"],
     ku |-> [alg |-> "ecdsa-p256", public |-> <<"sku">>,
             roles |-> {"enforcement_point"}, subject |-> ""],
     kh |-> [alg |-> "hybrid-ecdsa-p384-ml-dsa-65", public |-> <<"sec", "sml">>,
             roles |-> {"enforcement_point"}, subject |-> "ep1"],
     ki |-> [alg |-> "ed25519", public |-> <<"ski">>, roles |-> {"issuer"}, subject |-> ""],
     kj |-> [alg |-> "ed25519", public |-> <<"skj">>, roles |-> {"issuer"}, subject |-> ""],
     ka |-> [alg |-> "ed25519", public |-> <<"ska">>, roles |-> {"agent"}, subject |-> ""]]

MCKnownCodes == {"CONSTRAINT_EVALUATION_FAILURE"}

\* An envelope signed with the private halves of the anchor it names.
Sealed(kid, kind, payload) ==
    [decodes |-> TRUE, kid |-> kid, alg |-> MCAnchors[kid].alg,
     signature |-> MCAnchors[kid].public, kind |-> kind,
     canonical |-> TRUE, payload |-> payload]

NoIdentity == [kind |-> "", carries |-> {}, value |-> "", composite |-> <<>>]

KeyIdentity(v) == [kind |-> "public_key", carries |-> {"public_key"},
                   value |-> v, composite |-> <<>>]

Zone == [BlankConstraint EXCEPT !.id = "zone", !.type = "network_zone", !.zones = {"z1"}]
Budget(ms) == [BlankConstraint EXCEPT !.id = "budget", !.type = "latency_bound", !.max_ms = ms]
Rate == [BlankConstraint EXCEPT !.id = "rate", !.type = "rate_limit", !.max_rate = <<1>>]

Read == <<"read">>
Svc == <<"svc", "/", "*">>
SvcA == <<"svc", "/", "a">>
Db == <<"db", "/", "a">>
Escape == <<"svc", "/", "..", "/", "a">>

BaseMAT ==
    [version |-> ProtocolVersion, id |-> "mat1", parent_id |-> "", issuer_id |-> "iss",
     issuer_kid |-> "ki", machine_identity |-> KeyIdentity("m"),
     scope |-> [actions |-> {Read}, resources |-> {Svc}, unconstrained |-> {}],
     boundary |-> [max_impact |-> 1, max_privilege_delta |-> 0, quotas |-> <<>>,
                   exclusions |-> {}],
     proof_obligations |-> <<[category |-> "tpm", max_age_seconds |-> 60]>>,
     constraints |-> <<Zone, Budget(100)>>,
     delegation |-> [allowed |-> FALSE, max_depth |-> 0],
     not_before |-> At(1000), not_after |-> At(9000),
     nonce |-> "n", instance_id |-> "mat1"]

BaseContext ==
    [time |-> At(2000), network_zone |-> "z1", params |-> <<>>,
     resource_state |-> [r1 |-> "up"], rate |-> <<>>]

CommitmentTo(m) ==
    [id |-> "com1", agent_identity |-> m.machine_identity,
     action_types |-> {Read}, resources |-> {SvcA}, param_ranges |-> <<>>,
     unconstrained |-> {}, not_before |-> At(1000), not_after |-> At(5000),
     artifact_id |-> m.id, constraint_digest |-> ConstraintDigest(m),
     resource_targets |-> {},
     provenance |-> <<[parent_artifact_id |-> "mat0",
                       parent_commitment_digest |-> OtherDigest]>>,
     action_window |-> <<At(1000), At(4000)>>]

BlankReceipt ==
    [version |-> ProtocolVersion, id |-> "r0", artifact_id |-> "mat1",
     action |-> <<>>, resource |-> <<>>, decision |-> "deny", controls |-> {},
     context_digest |-> OtherDigest, rationale_codes |-> {}, constraint_outcomes |-> {},
     evidence_refs |-> <<>>, policy_digest |-> <<>>,
     start |-> Absent, complete |-> Absent, elapsed_ms |-> 0, max_ms |-> 0,
     prior_hash |-> <<>>, resource_state_digest |-> <<>>, resource_keys |-> {},
     speculative |-> FALSE, confirms |-> <<>>,
     enforcement_point |-> "", enforcement_point_kid |-> "",
     commitment_digest |-> <<>>, compliance |-> <<>>, provenance |-> <<>>]

Prior == BlankReceipt
Speculated == [BlankReceipt EXCEPT !.id = "r1", !.speculative = TRUE]

Outcome(c, ctx) == [id |-> c.id, satisfied |-> Evaluate(c, ctx)]

\* What an enforcement point records for one request under m, c and k.
ReceiptOver(m, c, k, action, resource, decision, controls, start, complete, elapsed) ==
    [BlankReceipt EXCEPT
        !.id = "r2", !.artifact_id = m.id, !.action = action, !.resource = resource,
        !.decision = decision, !.controls = controls,
        !.context_digest = Digest(c),
        !.constraint_outcomes = {Outcome(m.constraints[i], c) : i \in 1..Len(m.constraints)},
        !.evidence_refs = <<[category |-> "tpm", fresh |-> TRUE]>>,
        !.policy_digest = ConstraintDigest(m),
        !.start = start, !.complete = complete, !.elapsed_ms = elapsed,
        !.max_ms = IF LatencyBudgets(m) = {} THEN 0 ELSE authorizedLatencyBound(m),
        !.prior_hash = Digest(Prior),
        !.resource_state_digest = Digest(c.resource_state),
        !.resource_keys = DOMAIN c.resource_state,
        !.confirms = Digest(Speculated),
        !.enforcement_point = "ep1", !.enforcement_point_kid = "ke",
        !.commitment_digest = Digest(k),
        !.compliance = <<[action |-> action,
                          commitment_check |-> DeclaresAction(k, action),
                          scope_check |-> CoversOperation(m, action, <<>>),
                          boundary_check |-> action \notin m.boundary.exclusions]>>,
        !.provenance = k.provenance]

\* Everything a caller can hold, supplied.
Presented(m, c, k, receipt) ==
    [receipt |-> Sealed("ke", "receipt", receipt),
     mat |-> <<Sealed("ki", "mat", m)>>, context |-> <<c>>,
     prior |-> <<Prior>>, confirmed |-> <<Speculated>>,
     commitment |-> <<Sealed("ka", "commitment", k)>>, replay |-> <<{}>>]
=============================================================================
