------------------------------ MODULE MCVerify ------------------------------
(***************************************************************************)
(* Verify over every input at most two deviations away from an honest      *)
(* presentation: a withheld input, a bad envelope, or one field of one     *)
(* artifact changed. Changes of the MAT, the context and the commitment    *)
(* are made before the receipt is issued (the receipt then carries their   *)
(* digests); changes of the receipt and of the envelopes after.            *)
(***************************************************************************)
EXTENDS Verify, MCInputs

With(r, field, values) == {[r EXCEPT ![field] = v] : v \in values}

MATs ==
    {BaseMAT}
    \cup {[BaseMAT EXCEPT !.scope.actions = s] : s \in {{}, {Read, <<"write">>}}}
    \cup {[BaseMAT EXCEPT !.scope.unconstrained = {"actions"}],
          [BaseMAT EXCEPT !.scope.unconstrained = {"resources"}],
          [BaseMAT EXCEPT !.boundary.exclusions = {Read}],
          [BaseMAT EXCEPT !.boundary.exclusions = {SvcA}],
          [BaseMAT EXCEPT !.scope.unconstrained = {"resources"}, !.boundary.exclusions = {SvcA}]}
    \cup With(BaseMAT, "constraints",
              {<<>>, <<Zone>>, <<Budget(100), Zone, [Budget(50) EXCEPT !.id = "b2"]>>,
               <<[Budget(0) EXCEPT !.id = "b0"], Budget(100), [Budget(-5) EXCEPT !.id = "b3"]>>,
               <<Zone, Zone>>, <<Rate, Zone>>})
    \cup With(BaseMAT, "proof_obligations", {<<>>})
    \cup With(BaseMAT, "machine_identity",
              {NoIdentity, [KeyIdentity("m") EXCEPT !.kind = "attestation"]})
    \cup With(BaseMAT, "not_before", {Absent, At(3000)})
    \cup With(BaseMAT, "not_after", {At(1500)})
    \cup With(BaseMAT, "issuer_kid", {"", "kj"})
    \cup With(BaseMAT, "instance_id", {"other"})

\* Every resource but one, on which a commitment may still differ.
OpenMAT == [BaseMAT EXCEPT !.scope.unconstrained = {"resources"}, !.boundary.exclusions = {Db}]

Contexts ==
    {BaseContext, [BaseContext EXCEPT !.network_zone = "z2"],
     [BaseContext EXCEPT !.rate = [rate |-> 2]]}

Commitments(m) ==
    LET k == CommitmentTo(m) IN
    {k}
    \cup With(k, "agent_identity",
              {NoIdentity, KeyIdentity("x"), [KeyIdentity("m") EXCEPT !.kind = "cert_ref"]})
    \cup With(k, "action_types", {{}, {Read, <<"write">>}})
    \cup With(k, "resources", {{}, {Db}, {Escape}})
    \cup With(k, "resource_targets", {{Db}})
    \cup With(k, "unconstrained", {{"actions"}, {"resources"}})
    \cup With(k, "param_ranges", {<<Zone>>, <<[Zone EXCEPT !.zones = {"z1", "z2"}]>>,
                                  <<Rate>>})
    \cup With(k, "not_before", {At(3000), Malformed, Absent})
    \cup With([k EXCEPT !.not_after = Absent], "not_before", {Absent})
    \cup With(k, "artifact_id", {"mat2"})
    \cup With(k, "constraint_digest", {OtherDigest})
    \cup With(k, "action_window", {<<>>, <<At(2500), Absent>>, <<Absent, Absent>>})
    \cup With(k, "provenance", {<<>>, <<[parent_artifact_id |-> "mat9",
                                         parent_commitment_digest |-> OtherDigest]>>})

Decided == {<<"permit", {}>>, <<"deny", {}>>, <<"permit_with_controls", {"audit"}>>}

Issue(m, c, k, d, start, complete, elapsed) ==
    Presented(m, c, k, ReceiptOver(m, c, k, Read, SvcA, d[1], d[2], start, complete, elapsed))

\* One artifact changed before the receipt is issued, under each decision.
ChangedFirst ==
    {Issue(w[1], w[2], w[3], d, At(2000), At(2050), 50) :
        w \in {<<m, BaseContext, CommitmentTo(m)>> : m \in MATs}
              \cup {<<BaseMAT, c, CommitmentTo(BaseMAT)>> : c \in Contexts}
              \cup {<<BaseMAT, BaseContext, k>> : k \in Commitments(BaseMAT)}
              \cup {<<OpenMAT, BaseContext, [CommitmentTo(OpenMAT) EXCEPT !.resources = s]>> :
                       s \in {{SvcA, Db}, {SvcA, Escape}}},
        d \in Decided}

Honest == Issue(BaseMAT, BaseContext, CommitmentTo(BaseMAT), <<"permit", {}>>,
                At(2000), At(2050), 50)

ReceiptChanges(r) ==
    With(r, "version", {"xap-0"})
    \cup With(r, "decision", {"deny", "permit_with_controls", "maybe"})
    \cup With(r, "controls", {{"audit"}})
    \cup With(r, "rationale_codes", {MCKnownCodes, {"NONSENSE"}})
    \cup With(r, "speculative", {TRUE})
    \cup With(r, "artifact_id", {"mat2"})
    \cup With(r, "action", {<<>>, <<"write">>})
    \cup With(r, "resource", {<<>>, Db, Escape})
    \cup With(r, "enforcement_point", {"", "ep2"})
    \cup With(r, "enforcement_point_kid", {"", "ku"})
    \cup With(r, "start", {Absent, Malformed, At(500), At(1000), At(8000)})
    \cup With(r, "complete", {Absent, At(1999), At(3050), At(3051), At(3101)})
    \cup With(r, "elapsed_ms", {-1, 100, 101, 1050, 1051})
    \cup With(r, "max_ms", {0, 101, 2000})
    \cup With(r, "context_digest", {OtherDigest})
    \cup With(r, "policy_digest", {<<>>, OtherDigest})
    \cup With(r, "resource_state_digest", {<<>>, OtherDigest})
    \cup With(r, "resource_keys", {{}, {"r1", "r9"}})
    \cup With(r, "evidence_refs",
              {<<>>, <<[category |-> "tpm", fresh |-> FALSE]>>,
               <<[category |-> "tpm", fresh |-> FALSE], [category |-> "tpm", fresh |-> TRUE]>>,
               <<[category |-> "tee", fresh |-> TRUE]>>})
    \cup With(r, "constraint_outcomes",
              {{}, {[id |-> "zone", satisfied |-> TRUE]},
               {[id |-> "zone", satisfied |-> FALSE], [id |-> "budget", satisfied |-> TRUE]},
               {[id |-> "ghost", satisfied |-> TRUE]}})
    \cup With(r, "prior_hash", {<<>>, OtherDigest})
    \cup With(r, "confirms", {<<>>, OtherDigest})
    \cup With(r, "commitment_digest", {<<>>, OtherDigest})
    \cup With(r, "provenance", {<<>>})
    \cup With(r, "compliance",
              {<<>>} \cup {<<[action |-> a, commitment_check |-> TRUE, scope_check |-> TRUE,
                              boundary_check |-> b]>> :
                              a \in {<<>>, Read, <<"write">>}, b \in BOOLEAN})

BadEnvelopes(e) ==
    With(e, "decodes", {FALSE}) \cup With(e, "kid", {"", "nobody", "kj", "ku"})
    \cup With(e, "signature", {<<"forged">>, <<"ske", "ske">>}) \cup With(e, "canonical", {FALSE})
    \cup With(e, "kind", {"other"})

Changes(x) ==
    {[x EXCEPT !.receipt.payload = r] : r \in ReceiptChanges(x.receipt.payload)}
    \cup With(x, "receipt", BadEnvelopes(x.receipt))
    \cup (IF x.mat = <<>> THEN {} ELSE {[x EXCEPT !.mat = <<e>>] : e \in BadEnvelopes(x.mat[1])})
    \cup (IF x.commitment = <<>> THEN {}
          ELSE {[x EXCEPT !.commitment = <<e>>] : e \in BadEnvelopes(x.commitment[1])})
    \cup UNION {With(x, field, {<<>>}) :
                   field \in {"mat", "context", "prior", "confirmed", "commitment", "replay"}}
    \cup With(x, "replay", {<<{Digest(x.receipt.payload)}>>})
    \cup With(x, "confirmed", {<<Prior>>})
    \cup With(x, "context", {<<[BaseContext EXCEPT !.time = At(2001)]>>})

\* Two deviations: any two changes of the honest presentation, or one change
\* of a presentation issued under a changed artifact.
MCInputSet ==
    {Honest} \cup Changes(Honest) \cup ChangedFirst
    \cup UNION {Changes(x) : x \in Changes(Honest)}

\* One deviation.
MCNearInputs == {Honest} \cup Changes(Honest) \cup ChangedFirst
=============================================================================
