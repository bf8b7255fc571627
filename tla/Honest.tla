------------------------------- MODULE Honest -------------------------------
(***************************************************************************)
(* What an honest enforcement point issues and how it may be presented.    *)
(* The point is not part of this repository; it is modelled from what the  *)
(* verifier asks of it: it denies what is out of scope, over-committed or  *)
(* not freshly evidenced, abandons an evaluation at its latency bound and  *)
(* denies it (timeout_semantics_test.go:6-12), permits otherwise, under    *)
(* controls when a constraint does not hold, stamps its clock exactly or   *)
(* cut to whole seconds, and may leave undisclosed what selective          *)
(* disclosure lets it leave out. The caller supplies any of the inputs.    *)
(*                                                                         *)
(* An occasion is one evaluation and one presentation of its receipt: a    *)
(* record [id: of the receipt; kid, name: the point's; mat: an envelope;    *)
(* commitment: <<>> or <<envelope>>; context; keys: the resource states    *)
(* read; action, resource: the request; evidence: the references in hand;  *)
(* decision, controls, codes; prior, confirmed: <<>> or <<receipt>>; start,*)
(* would: when the evaluation begins and how long it would run; exact: how *)
(* the clock is stamped; hidden: fields not disclosed; withheld: inputs not*)
(* supplied; acted: digests of the receipts the caller acted on].          *)
(***************************************************************************)
EXTENDS Verify

CONSTANT Occasions

VARIABLE occasion   \* the occasion whose receipt this call verifies

MATOn(o) == o.mat.payload
ComOn(o) == o.commitment[1].payload

Second == 1000

Cut(t) == (t \div Second) * Second

\* The text in UTC, which ranks by the instant it denotes.
Stamp(o, t) == IF o.exact THEN <<t, t>> ELSE <<Cut(t), Cut(t)>>

------------------------------------------------------------------------------
(* The evaluation.                                                          *)

TimesOut(o) == \E b \in LatencyBudgets(MATOn(o)) : o.would > b

Elapsed(o) == IF TimesOut(o) THEN authorizedLatencyBound(MATOn(o)) ELSE o.would

\* Every obliged category is evidenced, and by nothing stale.
FreshOn(o) ==
    \A cat \in ObligedCategories(MATOn(o)) :
        /\ \E i \in 1..Len(o.evidence) : o.evidence[i].category = cat
        /\ \A i \in 1..Len(o.evidence) : o.evidence[i].category = cat => o.evidence[i].fresh

MayPermit(o) ==
    /\ ~TimesOut(o)
    /\ CoversOperation(MATOn(o), o.action, o.resource)
    /\ o.commitment # <<>> => WithinScopeOf(ComOn(o), MATOn(o))
    /\ FreshOn(o)

\* It may always deny; it never permits what it may not.
Decides(o) ==
    /\ o.decision \in Decisions
    /\ (o.decision = "permit_with_controls") <=> (o.controls # {})
    /\ o.decision # "deny" => MayPermit(o)
    /\ o.decision = "permit" => AllHold(MATOn(o), o.context)

------------------------------------------------------------------------------
(* The receipt and its presentation.                                        *)

Disclosable == {"action", "resource", "constraint_outcomes", "evidence_refs",
                "policy_digest", "complete", "resource_state_digest",
                "enforcement_point_kid", "commitment_digest", "compliance", "provenance"}

Disclosed(o, field, value, blank) == IF field \in o.hidden THEN blank ELSE value

Claim(o) ==
    [action |-> o.action,
     commitment_check |-> DeclaresAction(ComOn(o), o.action),
     scope_check |-> CoversOperation(MATOn(o), o.action, <<>>),
     boundary_check |-> o.action \notin MATOn(o).boundary.exclusions]

\* What a receipt says of the commitment, when there is one.
OnCommitted(o, value) == IF o.commitment = <<>> THEN <<>> ELSE value

Issued(o) ==
    [version |-> ProtocolVersion, id |-> o.id, artifact_id |-> MATOn(o).id,
     action |-> Disclosed(o, "action", o.action, <<>>),
     resource |-> Disclosed(o, "resource", o.resource, <<>>),
     decision |-> o.decision, controls |-> o.controls,
     context_digest |-> Digest(o.context), rationale_codes |-> o.codes,
     constraint_outcomes |->
         Disclosed(o, "constraint_outcomes", TrueOutcomes(MATOn(o), o.context), {}),
     evidence_refs |-> Disclosed(o, "evidence_refs", o.evidence, <<>>),
     policy_digest |-> Disclosed(o, "policy_digest", ConstraintDigest(MATOn(o)), <<>>),
     start |-> Stamp(o, o.start),
     complete |-> Disclosed(o, "complete", Stamp(o, o.start + Elapsed(o)), Absent),
     elapsed_ms |-> Elapsed(o),
     max_ms |-> IF LatencyBudgets(MATOn(o)) = {} THEN 0 ELSE authorizedLatencyBound(MATOn(o)),
     prior_hash |-> IF o.prior = <<>> THEN <<>> ELSE Digest(o.prior[1]),
     resource_state_digest |->
         Disclosed(o, "resource_state_digest",
                   Digest([k \in o.keys |-> o.context.resource_state[k]]), <<>>),
     resource_keys |-> o.keys, speculative |-> FALSE,
     confirms |-> IF o.confirmed = <<>> THEN <<>> ELSE Digest(o.confirmed[1]),
     enforcement_point |-> o.name,
     enforcement_point_kid |-> Disclosed(o, "enforcement_point_kid", o.kid, ""),
     commitment_digest |->
         Disclosed(o, "commitment_digest", OnCommitted(o, Digest(ComOn(o))), <<>>),
     compliance |-> Disclosed(o, "compliance", OnCommitted(o, <<Claim(o)>>), <<>>),
     provenance |-> Disclosed(o, "provenance", OnCommitted(o, ComOn(o).provenance), <<>>)]

Sign(o, r) ==
    [decodes |-> TRUE, kid |-> o.kid, alg |-> Anchors[o.kid].alg,
     signature |-> Anchors[o.kid].public, kind |-> "receipt", canonical |-> TRUE,
     payload |-> r]

Supplied(o, field, value) == IF field \in o.withheld THEN <<>> ELSE value

\* Whatever the caller acted on before, it has not acted on this receipt.
Presentation(o) ==
    [receipt |-> Sign(o, Issued(o)),
     mat |-> Supplied(o, "mat", <<o.mat>>),
     context |-> Supplied(o, "context", <<o.context>>),
     prior |-> Supplied(o, "prior", o.prior),
     confirmed |-> Supplied(o, "confirmed", o.confirmed),
     commitment |-> Supplied(o, "commitment", o.commitment),
     replay |-> Supplied(o, "replay", <<o.acted \ {Digest(Issued(o))}>>)]

HonestInit == occasion \in Occasions /\ in = Presentation(occasion) /\ Fresh

HonestNext == Next /\ UNCHANGED occasion

HonestSpec == HonestInit /\ [][HonestNext]_<<vars, occasion>>

------------------------------------------------------------------------------
(* What makes an occasion one that ends in an acceptable receipt: the       *)
(* verifier holds a denial to all of this too, so the point does not        *)
(* evaluate without it.                                                     *)

\* The point is registered, by its name or without one, and its codes are known.
Registered(o) ==
    /\ o.kid # "" /\ o.kid \in DOMAIN Anchors
    /\ "enforcement_point" \in Anchors[o.kid].roles
    /\ Anchors[o.kid].alg \in Algorithms
    /\ Anchors[o.kid].subject \in {"", o.name}
    /\ o.codes \subseteq KnownCodes

\* A window that contains the start, and opens on a whole second where the clock
\* is stamped in whole seconds (both are time.RFC3339 texts).
Opens(o, nb, na) ==
    /\ WithinStated(o.start, nb, na)
    /\ nb # Absent => Instant(nb) \in Int /\ (o.exact \/ Cut(Instant(nb)) = Instant(nb))
    /\ na # Absent => Instant(na) \in Int

\* The MAT verifies and is evaluated under while it is valid; the empty text is
\* not among its exclusions.
Granted(o) ==
    /\ MATParses(o.mat, Anchors) /\ TypedMAT(MATOn(o))
    /\ Opens(o, MATOn(o).not_before, MATOn(o).not_after)
    /\ <<>> \notin MATOn(o).boundary.exclusions

\* So does a commitment, which is bound to that MAT, states a validity and names
\* the machine the MAT names.
Committed(o) ==
    o.commitment # <<>> =>
        LET k == ComOn(o) IN
        /\ CommitmentParses(o.commitment[1], Anchors)
        /\ VerifyBinding(k, MATOn(o))
        /\ k.not_before # Absent \/ k.not_after # Absent
        /\ Opens(o, k.not_before, k.not_after)
        /\ k.action_window # <<>> => Opens(o, k.action_window[1], k.action_window[2])
        /\ identityUnset(k.agent_identity) \/ ValidateIdentity(k.agent_identity)
        /\ identityUnset(MATOn(o).machine_identity) \/ k.agent_identity = MATOn(o).machine_identity

\* What is confirmed was speculative; what is recorded can be told apart.
Recorded(o) ==
    /\ o.start \in Int /\ o.would \in Nat /\ o.exact \in BOOLEAN
    /\ Len(o.evidence) \in Nat
    /\ o.keys \subseteq DOMAIN o.context.resource_state
    /\ o.confirmed # <<>> => o.confirmed[1].speculative
    /\ o.hidden \subseteq Disclosable

ASSUME OccasionsAssumption ==
    \A o \in Occasions : Registered(o) /\ Granted(o) /\ Committed(o) /\ Recorded(o) /\ Decides(o)

------------------------------------------------------------------------------

\* An honest enforcement point is never refuted: whatever it decided, however
\* coarse its clock, whatever it left undisclosed and whichever inputs the
\* caller lacks, its receipt verifies as valid (verify.go:127-131, 1039-1046).
HonestNeverRefuted == pc = "done" => valid
=============================================================================
