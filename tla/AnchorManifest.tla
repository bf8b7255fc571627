--------------------------- MODULE AnchorManifest ---------------------------
(***************************************************************************)
(* BuildAnchors (conformance.go): a trust anchor set is built from the     *)
(* entries of a manifest, one after the other, by the calls of             *)
(* TrustAnchors. The first error ends the build and no set is returned.    *)
(*                                                                         *)
(* An entry is [kid_hex, alg, pub_hex, mldsa_pub_hex, roles, subject]. A   *)
(* hex field is what it decodes to: <<>> when it is not hex, or <<bytes>>. *)
(* Key bytes are [id, length, pkix, mldsa]: pkix is what they are as a     *)
(* public key info ("none", "other" or the curve of an ECDSA key) and mldsa*)
(* says whether they are an ML-DSA-65 key.                                 *)
(***************************************************************************)
EXTENDS TrustAnchors

CONSTANT Manifests   \* the entries a manifest may hold, in order

out == "out"    \* the slice rolesOf returns

Decoding(hex) == hex = <<>> \/ hex = <<hex[1]>>

ASSUME ManifestsAssumption ==
    /\ out \in Slices
    /\ \A m \in Manifests :
          /\ Len(m) \in Nat
          /\ \A k \in 1..Len(m) :
                /\ m[k].roles \in Seq(RolesIn(m[k].roles))
                /\ Decoding(m[k].kid_hex) /\ Decoding(m[k].pub_hex) /\ Decoding(m[k].mldsa_pub_hex)
                /\ m[k].kid_hex # <<>> => m[k].kid_hex[1] \in Kids \cup {NoKid}

VARIABLES manifest,   \* the argument
          n,          \* the entry at hand
          pc,         \* "entry", "add" or "subject", then "built" or "refused"; or "calls"
          result      \* the set returned, <<>> when it is nil

mvars == <<byKID, memory, err, manifest, n, pc, result>>

entry == manifest[n]

MInit ==
    /\ byKID = NewTrustAnchorSet
    /\ memory = [a \in Slices \cup Kids |-> <<>>]
    /\ err = NoError
    /\ manifest \in Manifests /\ n = 1 /\ pc = "entry" /\ result = <<>>

Stop == pc' = "refused" /\ UNCHANGED <<byKID, memory, err, manifest, n, result>>

\* rolesOf and the two decodings, in that order.
Decode ==
    /\ pc = "entry" /\ n <= Len(manifest)
    /\ IF validRoles(entry.roles) # NoError \/ entry.kid_hex = <<>> \/ entry.pub_hex = <<>>
       THEN Stop
       ELSE /\ memory' = [memory EXCEPT ![out] = entry.roles]
            /\ pc' = "add"
            /\ UNCHANGED <<byKID, err, manifest, n, result>>

\* parseHybridPub accepts any ECDSA key; its curve is AddHybrid's to check.
Parses == /\ entry.pub_hex[1].pkix \notin {"none", "other"}
          /\ entry.mldsa_pub_hex # <<>> /\ entry.mldsa_pub_hex[1].mldsa

ParsedKey == [id |-> entry.pub_hex[1].id, curve |-> entry.pub_hex[1].pkix,
              coordinates |-> TRUE, onCurve |-> TRUE]

\* Mutant of Proceed: the error of an Add or SetSubject is not looked at.
ProceedAnyway(next) ==
    /\ pc' = next
    /\ UNCHANGED <<manifest, result>>

\* After an Add or SetSubject: its error ends the build.
Proceed(next) ==
    /\ pc' = IF err' = NoError THEN next ELSE "refused"
    /\ UNCHANGED <<manifest, result>>

Add ==
    /\ pc = "add"
    /\ \/ /\ entry.alg = "ed25519"
          /\ AddEd25519(entry.kid_hex[1], out,
                        [id |-> entry.pub_hex[1].id, length |-> entry.pub_hex[1].length])
          /\ Proceed("subject") /\ UNCHANGED n
       \/ /\ entry.alg = "hybrid-ecdsa-p384-ml-dsa-65" /\ Parses
          /\ AddHybrid(entry.kid_hex[1], out, <<ParsedKey>>,
                       <<[id |-> entry.mldsa_pub_hex[1].id]>>)
          /\ Proceed("subject") /\ UNCHANGED n
       \/ /\ entry.alg = "hybrid-ecdsa-p384-ml-dsa-65" /\ ~Parses
          /\ Stop
       \/ /\ entry.alg \notin {"ed25519", "hybrid-ecdsa-p384-ml-dsa-65"}
          /\ Stop

Mark ==
    /\ pc = "subject" /\ n' = n + 1
    /\ IF entry.subject = Unmarked THEN pc' = "entry" /\ UNCHANGED <<byKID, memory, err, manifest, result>>
       ELSE SetSubject(entry.kid_hex[1], entry.subject) /\ Proceed("entry")

Return ==
    /\ pc = "entry" /\ n > Len(manifest)
    /\ pc' = "built" /\ result' = <<AsVerified>>
    /\ UNCHANGED <<byKID, memory, err, manifest, n>>

MNext == Decode \/ Add \/ Mark \/ Return

MSpec == MInit /\ [][MNext]_mvars

\* A set is built from a manifest, or made empty and registered on call by call.
SetInit == MInit \/ (Init /\ manifest = <<>> /\ n = 1 /\ pc = "calls" /\ result = <<>>)

Call == pc = "calls" /\ Next /\ UNCHANGED <<manifest, n, pc, result>>

SetSpec == SetInit /\ [][Call \/ MNext]_mvars

------------------------------------------------------------------------------
(* What must hold.                                                          *)

\* The entry describes a key that can be registered.
KeyDescribed(e) ==
    /\ e.kid_hex # <<>> /\ e.kid_hex[1] # NoKid
    /\ e.pub_hex # <<>>
    /\ \/ e.alg = "ed25519" /\ e.pub_hex[1].length = 32
       \/ /\ e.alg = "hybrid-ecdsa-p384-ml-dsa-65" /\ e.pub_hex[1].pkix = "P-384"
          /\ e.mldsa_pub_hex # <<>> /\ e.mldsa_pub_hex[1].mldsa

RolesStated(e) == e.roles # <<>> /\ RolesIn(e.roles) \subseteq SignerRoles

KidsDistinct ==
    \A j, k \in 1..Len(manifest) :
        manifest[j].kid_hex = manifest[k].kid_hex => j = k

Stated(e) ==
    [alg |-> e.alg,
     public |-> IF e.alg = "ed25519" THEN <<e.pub_hex[1].id>>
                ELSE <<e.pub_hex[1].id, e.mldsa_pub_hex[1].id>>,
     roles |-> RolesIn(e.roles),
     subject |-> e.subject]

\* A manifest is configured in full or not at all: a set is returned exactly when
\* every entry describes a key, states its roles and has a key id of its own, and it
\* then holds those anchors and no other (conformance.go:33-76).
ConfiguredAsStated ==
    /\ pc = "built" =>
          /\ \A k \in 1..Len(manifest) : KeyDescribed(manifest[k]) /\ RolesStated(manifest[k])
          /\ KidsDistinct
          /\ DOMAIN result[1] = {manifest[k].kid_hex[1] : k \in 1..Len(manifest)}
          /\ \A k \in 1..Len(manifest) :
                result[1][manifest[k].kid_hex[1]] = Stated(manifest[k])
    /\ pc = "refused" =>
          /\ result = <<>>
          /\ \/ ~KidsDistinct
             \/ \E k \in 1..Len(manifest) : ~KeyDescribed(manifest[k]) \/ ~RolesStated(manifest[k])
=============================================================================
