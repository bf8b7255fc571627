---------------------------- MODULE TrustAnchors ----------------------------
(***************************************************************************)
(* The trust anchor set as its operator configures it (cose.go): keys are  *)
(* registered for stated roles and marked with a subject, by calls that    *)
(* refuse a malformed key or a key id already taken. Role lists are Go     *)
(* slices, so they are references: memory holds the arrays, the caller's   *)
(* and those the set allocates, and a caller may overwrite its own at any  *)
(* time. Key material is not overwritten once passed.                      *)
(*                                                                         *)
(* An Ed25519 key is [id, length]; an ECDSA key is <<>> when nil or one    *)
(* record [id, curve, coordinates, onCurve], curve "nil" when unset; an    *)
(* ML-DSA key is <<>> or one record [id].                                  *)
(***************************************************************************)
EXTENDS Envelopes

CONSTANTS Kids,          \* the key ids in use
          Subjects,      \* the identities an operator asserts
          Slices,        \* the role slices the operator's code holds
          RoleLists,     \* what those slices may contain
          Ed25519Keys, ECDSAKeys, MLDSAKeys

NoKid == ""
NoError == "nil"
Unmarked == ""

ASSUME TrustAnchorsAssumption ==
    /\ Kids \cap Slices = {} /\ NoKid \notin Kids
    /\ \A roles \in RoleLists : Len(roles) \in Nat
    /\ \A pub \in ECDSAKeys \cup MLDSAKeys : pub = <<>> \/ pub = <<pub[1]>>

VARIABLES byKID,    \* the registered anchors
          memory,   \* the role arrays: the operator's, and one per key id
          err       \* what the last call returned

vars == <<byKID, memory, err>>

SignerRoles == {"issuer", "enforcement_point", "agent"}

RolesIn(array) == {array[i] : i \in 1..Len(array)}

Permits(kid, role) == role \in RolesIn(memory[byKID[kid].roles])

validRoles(roles) ==
    IF Len(roles) = 0 THEN "no roles"
    ELSE IF RolesIn(roles) \subseteq SignerRoles THEN NoError ELSE "unknown role"

ed25519Fault(pub) == IF pub.length = 32 THEN NoError ELSE "key length"

\* Mutant of ecdsaFault: any curve will do.
ecdsaFaultAnyCurve(pub, curve) ==
    IF pub = <<>> THEN "nil key"
    ELSE IF pub[1].curve = "nil" THEN "nil key"
    ELSE IF pub[1].coordinates /\ pub[1].onCurve THEN NoError ELSE "nil key"

\* On its curve is asked last, of a key whose coordinates are set.
ecdsaFault(pub, curve) ==
    IF pub = <<>> THEN "nil key"
    ELSE IF pub[1].curve = "nil" THEN "nil key"
    ELSE IF pub[1].curve # curve THEN "wrong curve"
    ELSE IF pub[1].coordinates /\ pub[1].onCurve THEN NoError ELSE "nil key"

hybridFault(ec, ml) == IF ml = <<>> THEN "nil key" ELSE ecdsaFault(ec, "P-384")

NewTrustAnchorSet == [kid \in {} |-> {}]

Init ==
    /\ byKID = NewTrustAnchorSet
    /\ memory \in [Slices \cup Kids -> RoleLists \cup {<<>>}]
    /\ \A kid \in Kids : memory[kid] = <<>>
    /\ err = NoError

Refuse(what) == err' = what /\ UNCHANGED <<byKID, memory>>

Put(kid, anchor) ==
    byKID' = [k \in DOMAIN byKID \cup {kid} |-> IF k = kid THEN anchor ELSE byKID[k]]

\* Mutant of Store: the anchor keeps the caller's slice.
StoreSharing(kid, h, alg, key) ==
    /\ Put(kid, [alg |-> alg, key |-> key, roles |-> h, subject |-> Unmarked])
    /\ err' = NoError
    /\ UNCHANGED memory

\* The roles are copied, the key is not.
Store(kid, h, alg, key) ==
    /\ Put(kid, [alg |-> alg, key |-> key, roles |-> kid, subject |-> Unmarked])
    /\ memory' = [memory EXCEPT ![kid] = memory[h]]
    /\ err' = NoError

\* The checks in the order all three Add methods make them; claim is the last.
Register(kid, h, keyFault, alg, key) ==
    IF kid = NoKid THEN Refuse("no kid")
    ELSE IF validRoles(memory[h]) # NoError THEN Refuse(validRoles(memory[h]))
    ELSE IF keyFault # NoError THEN Refuse(keyFault)
    ELSE IF kid \in DOMAIN byKID THEN Refuse("exists")
    ELSE Store(kid, h, alg, key)

AddEd25519(kid, h, pub) ==
    Register(kid, h, ed25519Fault(pub), "ed25519", <<pub>>)

AddECDSAP256(kid, h, pub) ==
    Register(kid, h, ecdsaFault(pub, "P-256"), "ecdsa-p256", pub)

AddHybrid(kid, h, ec, ml) ==
    Register(kid, h, hybridFault(ec, ml), "hybrid-ecdsa-p384-ml-dsa-65", ec \o ml)

\* Mutant of SetSubject: the zero anchor of a key id not registered is marked too.
SetSubjectBlind(kid, subject) ==
    /\ Put(kid, IF kid \in DOMAIN byKID THEN [byKID[kid] EXCEPT !.subject = subject]
                ELSE [alg |-> NoError, key |-> <<>>, roles |-> NoError, subject |-> subject])
    /\ err' = NoError
    /\ UNCHANGED memory

\* A second mark replaces the first.
SetSubject(kid, subject) ==
    IF kid \in DOMAIN byKID
    THEN /\ Put(kid, [byKID[kid] EXCEPT !.subject = subject])
         /\ err' = NoError
         /\ UNCHANGED memory
    ELSE Refuse("no trust anchor")

\* The operator's code writes to the elements of a slice of its own.
Overwrite(h, roles) ==
    /\ Len(roles) = Len(memory[h])
    /\ memory' = [memory EXCEPT ![h] = roles]
    /\ UNCHANGED <<byKID, err>>

Next ==
    \/ \E kid \in Kids \cup {NoKid}, h \in Slices :
          \/ \E pub \in Ed25519Keys : AddEd25519(kid, h, pub)
          \/ \E pub \in ECDSAKeys : AddECDSAP256(kid, h, pub)
          \/ \E ec \in ECDSAKeys, ml \in MLDSAKeys : AddHybrid(kid, h, ec, ml)
    \/ \E kid \in Kids \cup {NoKid}, subject \in Subjects : SetSubject(kid, subject)
    \/ \E h \in Slices, roles \in RoleLists : Overwrite(h, roles)

Spec == Init /\ [][Next]_vars

------------------------------------------------------------------------------
(* The set as verification reads it.                                        *)

\* Get, with the slices followed: the anchors verifyEnvelope is given.
AsVerified ==
    [kid \in DOMAIN byKID |->
        [alg |-> byKID[kid].alg,
         public |-> [i \in 1..Len(byKID[kid].key) |-> byKID[kid].key[i].id],
         roles |-> RolesIn(memory[byKID[kid].roles]),
         subject |-> byKID[kid].subject]]

\* What the ECDSA primitive needs of a key.
Usable(key, curve) == key.curve = curve /\ key.coordinates /\ key.onCurve

\* The verifier built for an anchor, or "refused". Only an Ed25519 key is looked at
\* again here; another is "unusable" when the primitive could not take it.
coseVerifierFor(anchor) ==
    CASE anchor.alg = "ed25519" ->
             IF anchor.key[1].length = 32 THEN "EdDSA" ELSE "refused"
      [] anchor.alg = "ecdsa-p256" ->
             IF Usable(anchor.key[1], "P-256") THEN "ES256" ELSE "unusable"
      [] anchor.alg = "hybrid-ecdsa-p384-ml-dsa-65" ->
             IF Len(anchor.key) = 2 /\ Usable(anchor.key[1], "P-384")
             THEN "hybrid" ELSE "unusable"
      [] OTHER -> "refused"

------------------------------------------------------------------------------
(* What must hold.                                                          *)

\* Type invariant.
TypeOK ==
    /\ DOMAIN byKID \subseteq Kids
    /\ \A kid \in DOMAIN byKID :
          /\ byKID[kid].alg \in Algorithms
          /\ byKID[kid].roles \in DOMAIN memory
          /\ byKID[kid].subject \in Subjects \cup {Unmarked}
    /\ DOMAIN memory = Slices \cup Kids

SignedUnder(kid) ==
    [decodes |-> TRUE, kid |-> kid, alg |-> byKID[kid].alg,
     signature |-> AsVerified[kid].public]

\* Whatever was registered can verify: a verifier is built for every registered key,
\* no key is one its primitive cannot take, and what that key signs is accepted for some kind of
\* artifact (cose.go:109-118, 83-96).
RegisteredCanVerify ==
    \A kid \in DOMAIN byKID :
        /\ coseVerifierFor(byKID[kid]) \in {"EdDSA", "ES256", "hybrid"}
        /\ \E role \in SignerRoles : verifyEnvelope(SignedUnder(kid), AsVerified, role)

\* Once a key is registered nothing changes what it vouches for: no second
\* registration, no mark, no refused call and no write to the slice its roles were
\* passed in makes an envelope under that key verify that did not, or stop verifying
\* (cose.go:279-293).
VerdictsStand ==
    [][\A kid \in DOMAIN byKID :
          /\ kid \in DOMAIN byKID'
          /\ AsVerified'[kid] = [AsVerified[kid] EXCEPT !.subject = AsVerified'[kid].subject]]_vars
=============================================================================
