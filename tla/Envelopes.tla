----------------------------- MODULE Envelopes -----------------------------
(***************************************************************************)
(* Signed envelopes and the trust anchor set (cose.go, canonical.go).      *)
(*                                                                         *)
(* An anchor set is a function from key ids to anchors [alg, public, roles,*)
(* subject]; public is the sequence of verification keys, one for a plain  *)
(* algorithm and two for the hybrid one. An envelope is [decodes, kid, alg,*)
(* signature, kind, canonical, payload]: decodes says whether the bytes are*)
(* a COSE_Sign1 message, kid is "" when the protected header has no        *)
(* byte-string key id, signature is the sequence of private halves that    *)
(* signed exactly this payload, and canonical says whether the payload is  *)
(* the one canonical encoding of a value of the given kind.                *)
(***************************************************************************)
EXTENDS Artifacts

Algorithms == {"ed25519", "ecdsa-p256", "hybrid-ecdsa-p384-ml-dsa-65"}

\* Both halves of a hybrid signature must verify; a signature of the wrong
\* length verifies under nothing.
SignatureVerifies(env, anchor) ==
    /\ anchor.alg \in Algorithms
    /\ env.alg = anchor.alg
    /\ Len(env.signature) = Len(anchor.public)
    /\ \A i \in 1..Len(anchor.public) : env.signature[i] = anchor.public[i]

verifyEnvelope(env, anchors, role) ==
    /\ env.decodes
    /\ env.kid # ""
    /\ env.kid \in DOMAIN anchors
    /\ role \in anchors[env.kid].roles
    /\ SignatureVerifies(env, anchors[env.kid])

\* canonical.Unmarshal: the payload decodes as a value of this kind and is
\* byte for byte what encoding that value again gives.
Unmarshals(env, kind) == env.kind = kind /\ env.canonical

ReceiptParses(env, anchors) ==
    verifyEnvelope(env, anchors, "enforcement_point") /\ Unmarshals(env, "receipt")

MATParses(env, anchors) ==
    /\ verifyEnvelope(env, anchors, "issuer")
    /\ Unmarshals(env, "mat")
    /\ ValidateStructure(env.payload)
    /\ env.payload.issuer_kid = env.kid

CommitmentParses(env, anchors) ==
    verifyEnvelope(env, anchors, "agent") /\ Unmarshals(env, "commitment")

\* SetSubject's mark is read back by Get; an unregistered key has none.
SubjectOf(anchors, kid) == IF kid \in DOMAIN anchors THEN anchors[kid].subject ELSE ""
=============================================================================
