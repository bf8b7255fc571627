---------------------------- MODULE MCProvenance ----------------------------
(***************************************************************************)
(* Provenance over every sequence of up to three receipts with any digests *)
(* and references, and every four receipts with distinct digests and any   *)
(* references: enough for a fan-out beside a chain and for a detached cycle*)
(* beside a root and its child.                                            *)
(***************************************************************************)
EXTENDS Provenance

D(n) == <<"digest", n>>

Ref(artifact, digest) ==
    <<[parent_artifact_id |-> artifact, parent_commitment_digest |-> digest]>>

Receipt(digest, provenance) ==
    [id |-> "r", artifact_id |-> "mat", commitment_digest |-> digest,
     provenance |-> provenance]

\* No reference, an empty one, one of four digests, one nobody has.
References == {<<>>} \cup {Ref("mat", d) : d \in {<<>>} \cup {D(n) : n \in 1..3} \cup {D(9)}}

Any == {Receipt(d, p) : d \in {<<>>} \cup {D(n) : n \in 1..3}, p \in References}

\* Positions 1..4 carry the digests 1..4 in the order given.
Distinct ==
    {[k \in 1..4 |-> Receipt(D(k), refs[k])] :
        refs \in [1..4 -> {<<>>} \cup {Ref("mat", D(n)) : n \in {1, 2, 3, 4, 9}}]}

MCPresentations == UNION {[1..n -> Any] : n \in 0..3} \cup Distinct
=============================================================================
