------------------------- MODULE TrustAnchorsProofs -------------------------
(***************************************************************************)
(* What the trust anchor set keeps, for any key ids, keys and role slices. *)
(*                                                                         *)
(* The invariant says of every registered key that its roles are in an     *)
(* array of the set's own, at least one of them and none unknown, and that *)
(* its key is one its primitive takes. Only a registration writes such an  *)
(* array, and only for a key id not yet registered.                        *)
(*                                                                         *)
(* A set built from a manifest holds, after each entry, the anchors the    *)
(* entries so far describe: their key ids are distinct, so none of the     *)
(* build's calls can fail for another reason than the manifest gives.      *)
(***************************************************************************)
EXTENDS AnchorManifest, SequenceTheorems, TLAPS

Verifiers == {"EdDSA", "ES256", "hybrid"}

Registered(kid) ==
    /\ byKID[kid].alg \in Algorithms
    /\ byKID[kid].roles = kid
    /\ byKID[kid].subject \in Subjects \cup {Unmarked}
    /\ coseVerifierFor(byKID[kid]) \in Verifiers
    /\ Len(memory[kid]) > 0
    /\ RolesIn(memory[kid]) \subseteq SignerRoles

IInv ==
    /\ DOMAIN byKID \subseteq Kids
    /\ memory \in [Slices \cup Kids -> RoleLists \cup {<<>>}]
    /\ \A kid \in DOMAIN byKID : Registered(kid)

\* What no step may do to a registered key.
Stands(kid) ==
    /\ kid \in DOMAIN byKID'
    /\ byKID'[kid] = [byKID[kid] EXCEPT !.subject = byKID'[kid].subject]
    /\ memory'[kid] = memory[kid]

\* Every anchor is the record Store made, whatever its subject.
Shaped == \A kid \in DOMAIN byKID :
    byKID[kid] = [alg |-> byKID[kid].alg, key |-> byKID[kid].key,
                  roles |-> kid, subject |-> byKID[kid].subject]

------------------------------------------------------------------------------
LEMMA RolesCounted ==
    ASSUME IInv, NEW h \in Slices \cup Kids
    PROVE  Len(memory[h]) \in Nat
  <1>1. memory[h] \in RoleLists \cup {<<>>}
    BY DEF IInv
  <1> QED
    BY <1>1, TrustAnchorsAssumption

LEMMA Starts == Init => IInv
  BY DEF Init, IInv, NewTrustAnchorSet

LEMMA Unmoved ==
    ASSUME IInv, Shaped, UNCHANGED <<byKID, memory>>
    PROVE  IInv' /\ Shaped' /\ \A kid \in DOMAIN byKID : Stands(kid)
  <1>1. ASSUME NEW kid \in DOMAIN byKID PROVE Stands(kid) /\ Registered(kid)'
    BY DEF IInv, Shaped, Stands, Registered, coseVerifierFor, Usable, RolesIn
  <1> QED
    BY <1>1 DEF IInv, Shaped

LEMMA StoreStep ==
    ASSUME IInv, Shaped, NEW kid \in Kids, kid \notin DOMAIN byKID, NEW h \in Slices,
           validRoles(memory[h]) = NoError,
           NEW alg \in Algorithms, NEW key,
           coseVerifierFor([alg |-> alg, key |-> key, roles |-> kid, subject |-> Unmarked])
               \in Verifiers,
           Store(kid, h, alg, key)
    PROVE  IInv' /\ Shaped' /\ \A k \in DOMAIN byKID : Stands(k)
  <1> DEFINE anchor == [alg |-> alg, key |-> key, roles |-> kid, subject |-> Unmarked]
  <1>1. /\ byKID' = [k \in DOMAIN byKID \cup {kid} |-> IF k = kid THEN anchor ELSE byKID[k]]
        /\ memory' = [memory EXCEPT ![kid] = memory[h]]
    BY DEF Store, Put
  <1>2. memory \in [Slices \cup Kids -> RoleLists \cup {<<>>}] /\ DOMAIN byKID \subseteq Kids
    BY DEF IInv
  <1>3. /\ memory'[kid] = memory[h]
        /\ \A k \in DOMAIN byKID : memory'[k] = memory[k]
        /\ memory' \in [Slices \cup Kids -> RoleLists \cup {<<>>}]
    BY <1>1, <1>2
  <1>4. /\ DOMAIN byKID' = DOMAIN byKID \cup {kid} /\ byKID'[kid] = anchor
        /\ \A k \in DOMAIN byKID : byKID'[k] = byKID[k]
    BY <1>1
  <1>5. Len(memory[h]) > 0 /\ RolesIn(memory[h]) \subseteq SignerRoles
    <2>1. Len(memory[h]) \in Nat
      BY RolesCounted
    <2>2. Len(memory[h]) # 0
      BY DEF validRoles, NoError
    <2>3. RolesIn(memory[h]) \subseteq SignerRoles
      BY <2>2 DEF validRoles, NoError
    <2> QED
      BY <2>1, <2>2, <2>3
  <1>6. Registered(kid)'
    BY <1>3, <1>4, <1>5 DEF Registered, RolesIn, coseVerifierFor, Usable
  <1>7. ASSUME NEW k \in DOMAIN byKID PROVE Registered(k)' /\ Stands(k)
    <2>1. byKID'[k] = byKID[k] /\ memory'[k] = memory[k] /\ k \in DOMAIN byKID'
      BY <1>3, <1>4
    <2>2. Registered(k)'
      BY <2>1 DEF IInv, Registered, RolesIn, coseVerifierFor, Usable
    <2>3. Stands(k)
      BY <2>1 DEF Shaped, Stands
    <2> QED
      BY <2>2, <2>3
  <1>8. IInv'
    BY <1>2, <1>3, <1>4, <1>6, <1>7 DEF IInv
  <1>9. Shaped'
    BY <1>4 DEF Shaped
  <1> QED
    BY <1>7, <1>8, <1>9

\* A registration stores what passed every check, or changes nothing.
LEMMA RegisterStep ==
    ASSUME IInv, Shaped, NEW kid \in Kids \cup {NoKid}, NEW h \in Slices, NEW keyFault,
           NEW alg \in Algorithms, NEW key,
           keyFault = NoError =>
               coseVerifierFor([alg |-> alg, key |-> key, roles |-> kid, subject |-> Unmarked])
                   \in Verifiers,
           Register(kid, h, keyFault, alg, key)
    PROVE  IInv' /\ Shaped' /\ \A k \in DOMAIN byKID : Stands(k)
  <1>1. CASE kid # NoKid /\ validRoles(memory[h]) = NoError /\ keyFault = NoError
             /\ kid \notin DOMAIN byKID
    <2>1. Store(kid, h, alg, key)
      BY <1>1 DEF Register, NoKid
    <2>2. kid \in Kids
      BY <1>1
    <2> QED
      BY <1>1, <2>1, <2>2, StoreStep
  <1>2. CASE ~(kid # NoKid /\ validRoles(memory[h]) = NoError /\ keyFault = NoError
               /\ kid \notin DOMAIN byKID)
    <2>1. UNCHANGED <<byKID, memory>>
      BY <1>2 DEF Register, Refuse, NoKid
    <2> QED
      BY <2>1, Unmoved
  <1> QED
    BY <1>1, <1>2

\* A key that passes its checks is one its primitive takes.
LEMMA SoundECDSA ==
    ASSUME NEW pub \in ECDSAKeys, NEW curve, ecdsaFault(pub, curve) = NoError
    PROVE  pub = <<pub[1]>> /\ Usable(pub[1], curve)
  <1>1. pub # <<>>
    BY DEF ecdsaFault, NoError
  <1>2. pub[1].curve = curve /\ pub[1].coordinates /\ pub[1].onCurve
    BY <1>1 DEF ecdsaFault, NoError
  <1> QED
    BY <1>1, <1>2, TrustAnchorsAssumption DEF Usable

LEMMA Halves ==
    ASSUME NEW a, NEW b
    PROVE  Len(<<a>> \o <<b>>) = 2 /\ (<<a>> \o <<b>>)[1] = a
  OBVIOUS

LEMMA Pair ==
    ASSUME NEW a, NEW b
    PROVE  <<a>> \o <<b>> = <<a, b>>
  <1> DEFINE S == {a, b}
  <1>1. <<a>> \in Seq(S) /\ <<b>> \in Seq(S) /\ <<a, b>> \in Seq(S)
    OBVIOUS
  <1>2. Len(<<a>>) = 1 /\ Len(<<b>>) = 1 /\ Len(<<a, b>>) = 2
    OBVIOUS
  <1>3. <<a>>[1] = a /\ <<b>>[1] = b /\ <<a, b>>[1] = a /\ <<a, b>>[2] = b
    OBVIOUS
  <1> HIDE DEF S
  <1>4. /\ <<a>> \o <<b>> \in Seq(S)
        /\ Len(<<a>> \o <<b>>) = 2
        /\ \A i \in 1..2 : (<<a>> \o <<b>>)[i] = IF i <= 1 THEN <<a>>[i] ELSE <<b>>[i - 1]
    BY <1>1, <1>2, ConcatProperties
  <1>5. \A i \in 1..2 : (<<a>> \o <<b>>)[i] = <<a, b>>[i]
    BY <1>3, <1>4
  <1> QED
    BY <1>1, <1>2, <1>4, <1>5, SeqEqual

LEMMA SubjectStep ==
    ASSUME IInv, Shaped, NEW kid \in Kids \cup {NoKid}, NEW subject \in Subjects,
           SetSubject(kid, subject)
    PROVE  IInv' /\ Shaped' /\ \A k \in DOMAIN byKID : Stands(k)
  <1>1. CASE kid \notin DOMAIN byKID
    BY <1>1, Unmoved DEF SetSubject, Refuse
  <1>2. CASE kid \in DOMAIN byKID
    <2>1. /\ byKID' = [k \in DOMAIN byKID \cup {kid} |->
                          IF k = kid THEN [byKID[kid] EXCEPT !.subject = subject] ELSE byKID[k]]
          /\ memory' = memory
      BY <1>2 DEF SetSubject, Put
    <2>2. /\ DOMAIN byKID' = DOMAIN byKID
          /\ byKID'[kid] = [alg |-> byKID[kid].alg, key |-> byKID[kid].key,
                            roles |-> kid, subject |-> subject]
          /\ \A k \in DOMAIN byKID : k # kid => byKID'[k] = byKID[k]
      <3>1. byKID[kid] = [alg |-> byKID[kid].alg, key |-> byKID[kid].key,
                          roles |-> kid, subject |-> byKID[kid].subject]
        BY <1>2 DEF Shaped
      <3> DEFINE a == byKID[kid].alg
                 y == byKID[kid].key
                 u == byKID[kid].subject
      <3>2. byKID[kid] = [alg |-> a, key |-> y, roles |-> kid, subject |-> u]
        BY <3>1
      <3> HIDE DEF a, y, u
      <3>3. [byKID[kid] EXCEPT !.subject = subject]
              = [alg |-> a, key |-> y, roles |-> kid, subject |-> subject]
        BY <3>2
      <3>4. byKID'[kid] = [alg |-> a, key |-> y, roles |-> kid, subject |-> subject]
        BY <2>1, <3>3
      <3> QED
        BY <1>2, <2>1, <3>4 DEF a, y
    <2>3. ASSUME NEW k \in DOMAIN byKID PROVE Registered(k)' /\ Stands(k)
      <3>1. CASE k = kid
        <4>1. /\ byKID'[k].alg = byKID[k].alg /\ byKID'[k].key = byKID[k].key
              /\ byKID'[k].roles = k /\ byKID'[k].subject = subject
          BY <2>2, <3>1
        <4>2. coseVerifierFor(byKID[k])' = coseVerifierFor(byKID[k])
          BY <4>1 DEF coseVerifierFor
        <4>3. Registered(k)'
          BY <2>1, <4>1, <4>2 DEF IInv, Registered, RolesIn
        <4>4. byKID'[k] = [byKID[k] EXCEPT !.subject = byKID'[k].subject]
          BY <2>2, <3>1 DEF Shaped
        <4> QED
          BY <2>1, <2>2, <4>3, <4>4 DEF Stands
      <3>2. CASE k # kid
        <4>1. byKID'[k] = byKID[k]
          BY <2>2, <3>2
        <4>2. Registered(k)'
          BY <2>1, <4>1 DEF IInv, Registered, RolesIn, coseVerifierFor, Usable
        <4> QED
          BY <2>1, <2>2, <4>1, <4>2 DEF Stands, Shaped
      <3> QED
        BY <3>1, <3>2
    <2>4. Shaped'
      BY <2>2 DEF Shaped
    <2> QED
      BY <2>1, <2>2, <2>3, <2>4 DEF IInv
  <1> QED
    BY <1>1, <1>2

\* The operator's own slices are no registered key's array.
LEMMA OverwriteStep ==
    ASSUME IInv, Shaped, NEW h \in Slices, NEW roles \in RoleLists, Overwrite(h, roles)
    PROVE  IInv' /\ Shaped' /\ \A k \in DOMAIN byKID : Stands(k)
  <1>1. byKID' = byKID /\ memory' = [memory EXCEPT ![h] = roles]
    BY DEF Overwrite
  <1>2. memory \in [Slices \cup Kids -> RoleLists \cup {<<>>}] /\ DOMAIN byKID \subseteq Kids
    BY DEF IInv
  <1>3. \A k \in DOMAIN byKID : memory'[k] = memory[k]
    BY <1>1, <1>2, TrustAnchorsAssumption
  <1>4. ASSUME NEW k \in DOMAIN byKID PROVE Registered(k)' /\ Stands(k)
    BY <1>1, <1>3 DEF IInv, Shaped, Stands, Registered, coseVerifierFor, Usable, RolesIn
  <1> QED
    BY <1>1, <1>2, <1>4 DEF IInv, Shaped

LEMMA StepKeeps ==
    ASSUME IInv, Shaped, [Next]_vars
    PROVE  IInv' /\ Shaped' /\ \A k \in DOMAIN byKID : Stands(k)
  <1>1. CASE UNCHANGED vars
    BY <1>1, Unmoved DEF vars
  <1>2. ASSUME NEW kid \in Kids \cup {NoKid}, NEW h \in Slices, NEW pub \in Ed25519Keys,
               AddEd25519(kid, h, pub)
        PROVE  IInv' /\ Shaped' /\ \A k \in DOMAIN byKID : Stands(k)
    <2>1. ed25519Fault(pub) = NoError =>
              coseVerifierFor([alg |-> "ed25519", key |-> <<pub>>, roles |-> kid,
                               subject |-> Unmarked]) \in Verifiers
      BY DEF ed25519Fault, NoError, coseVerifierFor, Verifiers
    <2> QED
      BY <1>2, <2>1, RegisterStep DEF AddEd25519, Algorithms
  <1>3. ASSUME NEW kid \in Kids \cup {NoKid}, NEW h \in Slices, NEW pub \in ECDSAKeys,
               AddECDSAP256(kid, h, pub)
        PROVE  IInv' /\ Shaped' /\ \A k \in DOMAIN byKID : Stands(k)
    <2>1. ecdsaFault(pub, "P-256") = NoError =>
              coseVerifierFor([alg |-> "ecdsa-p256", key |-> pub, roles |-> kid,
                               subject |-> Unmarked]) \in Verifiers
      BY SoundECDSA DEF coseVerifierFor, Verifiers
    <2> QED
      BY <1>3, <2>1, RegisterStep DEF AddECDSAP256, Algorithms
  <1>4. ASSUME NEW kid \in Kids \cup {NoKid}, NEW h \in Slices, NEW ec \in ECDSAKeys,
               NEW ml \in MLDSAKeys, AddHybrid(kid, h, ec, ml)
        PROVE  IInv' /\ Shaped' /\ \A k \in DOMAIN byKID : Stands(k)
    <2>1. ASSUME hybridFault(ec, ml) = NoError
          PROVE  coseVerifierFor([alg |-> "hybrid-ecdsa-p384-ml-dsa-65", key |-> ec \o ml,
                                  roles |-> kid, subject |-> Unmarked]) \in Verifiers
      <3>1. ml # <<>> /\ ecdsaFault(ec, "P-384") = NoError
        BY <2>1 DEF hybridFault, NoError
      <3>2. ec = <<ec[1]>> /\ Usable(ec[1], "P-384") /\ ml = <<ml[1]>>
        BY <3>1, SoundECDSA, TrustAnchorsAssumption
      <3>3. /\ Len(<<ec[1]>> \o <<ml[1]>>) = 2
            /\ (<<ec[1]>> \o <<ml[1]>>)[1] = ec[1]
        BY Halves
      <3>4. Len(ec \o ml) = 2 /\ (ec \o ml)[1] = ec[1]
        BY <3>2, <3>3
      <3> QED
        BY <3>2, <3>4 DEF coseVerifierFor, Verifiers
    <2> QED
      BY <1>4, <2>1, RegisterStep DEF AddHybrid, Algorithms
  <1> QED
    BY <1>1, <1>2, <1>3, <1>4, SubjectStep, OverwriteStep DEF Next

LEMMA Invariant == Spec => [](IInv /\ Shaped)
  <1>1. Init => IInv /\ Shaped
    BY Starts DEF Init, NewTrustAnchorSet, Shaped
  <1>2. IInv /\ Shaped /\ [Next]_vars => IInv' /\ Shaped'
    BY StepKeeps
  <1> QED
    BY <1>1, <1>2, PTL DEF Spec

------------------------------------------------------------------------------
(* The theorems.                                                            *)

\* Every anchor is one an Add method stored under a key id in use (cose.go:138-250).
THEOREM TypeCorrect == Spec => []TypeOK
  <1>1. IInv => TypeOK
    BY DEF IInv, TypeOK, Registered
  <1> QED
    BY <1>1, Invariant, PTL

\* Every registered key has a verifier its primitive takes and vouches for some kind
\* of artifact (cose.go:109-118, 83-96).
THEOREM CanVerify == Spec => []RegisteredCanVerify
  <1>1. ASSUME IInv, NEW kid \in DOMAIN byKID
        PROVE  /\ coseVerifierFor(byKID[kid]) \in Verifiers
               /\ \E role \in SignerRoles : verifyEnvelope(SignedUnder(kid), AsVerified, role)
    <2>1. Registered(kid) /\ kid \in Kids
      BY <1>1 DEF IInv
    <2>2. Len(memory[kid]) \in Nat /\ 1 \in 1..Len(memory[kid])
      BY <1>1, <2>1, RolesCounted DEF Registered
    <2>3. memory[kid][1] \in RolesIn(memory[kid]) /\ memory[kid][1] \in SignerRoles
      BY <2>1, <2>2 DEF Registered, RolesIn
    <2>4. /\ kid \in DOMAIN AsVerified
          /\ AsVerified[kid].alg = byKID[kid].alg
          /\ AsVerified[kid].roles = RolesIn(memory[kid])
      BY <1>1, <2>1 DEF AsVerified, Registered
    <2>5. kid # ""
      BY <2>1, TrustAnchorsAssumption DEF NoKid
    <2>6. /\ SignedUnder(kid).decodes /\ SignedUnder(kid).kid = kid
          /\ SignedUnder(kid).alg = byKID[kid].alg
          /\ SignedUnder(kid).signature = AsVerified[kid].public
      BY DEF SignedUnder
    <2>7. SignatureVerifies(SignedUnder(kid), AsVerified[kid])
      BY <2>1, <2>4, <2>6 DEF SignatureVerifies, Registered
    <2>8. verifyEnvelope(SignedUnder(kid), AsVerified, memory[kid][1])
      BY <2>3, <2>4, <2>5, <2>6, <2>7 DEF verifyEnvelope
    <2> QED
      BY <2>1, <2>3, <2>8 DEF Registered
  <1>2. IInv => RegisteredCanVerify
    BY <1>1 DEF RegisteredCanVerify, Verifiers
  <1> QED
    BY <1>2, Invariant, PTL

\* What a registered key vouches for is settled by its one registration
\* (cose.go:279-293).
THEOREM RegistrationSettles == Spec => VerdictsStand
  <1> DEFINE Settled == \A kid \in DOMAIN byKID :
          /\ kid \in DOMAIN byKID'
          /\ AsVerified'[kid] = [AsVerified[kid] EXCEPT !.subject = AsVerified'[kid].subject]
  <1>1. ASSUME IInv, Shaped, [Next]_vars PROVE Settled
    <2> SUFFICES ASSUME NEW kid \in DOMAIN byKID
                 PROVE  /\ kid \in DOMAIN byKID'
                        /\ AsVerified'[kid]
                             = [AsVerified[kid] EXCEPT !.subject = AsVerified'[kid].subject]
      OBVIOUS
    <2>1. Stands(kid) /\ IInv'
      BY <1>1, StepKeeps
    <2>2. /\ kid \in DOMAIN byKID' /\ memory'[kid] = memory[kid]
          /\ byKID'[kid].alg = byKID[kid].alg /\ byKID'[kid].key = byKID[kid].key
          /\ byKID[kid].roles = kid /\ byKID'[kid].roles = kid
      <3>1. byKID[kid].roles = kid /\ kid \in DOMAIN byKID' /\ memory'[kid] = memory[kid]
        BY <1>1, <2>1 DEF IInv, Registered, Stands
      <3>2. byKID'[kid].roles = kid
        BY <2>1, <3>1 DEF IInv, Registered
      <3>3. byKID[kid] = [alg |-> byKID[kid].alg, key |-> byKID[kid].key,
                          roles |-> kid, subject |-> byKID[kid].subject]
        BY <1>1 DEF Shaped
      <3>4. byKID'[kid] = [byKID[kid] EXCEPT !.subject = byKID'[kid].subject]
        BY <2>1 DEF Stands
      <3>5. byKID'[kid].alg = byKID[kid].alg /\ byKID'[kid].key = byKID[kid].key
        BY <3>3, <3>4
      <3> QED
        BY <3>1, <3>2, <3>5
    <2>3. AsVerified[kid] =
            [alg |-> byKID[kid].alg,
             public |-> [i \in 1..Len(byKID[kid].key) |-> byKID[kid].key[i].id],
             roles |-> RolesIn(memory[kid]), subject |-> byKID[kid].subject]
      BY <2>2 DEF AsVerified
    <2>4. AsVerified'[kid] =
            [alg |-> byKID'[kid].alg,
             public |-> [i \in 1..Len(byKID'[kid].key) |-> byKID'[kid].key[i].id],
             roles |-> RolesIn(memory'[kid]), subject |-> byKID'[kid].subject]
      BY <2>2 DEF AsVerified, RolesIn
    <2> DEFINE P == [i \in 1..Len(byKID[kid].key) |-> byKID[kid].key[i].id]
               Q == [i \in 1..Len(byKID'[kid].key) |-> byKID'[kid].key[i].id]
    <2>5. P = Q
      BY <2>2
    <2>6. AsVerified[kid] = [alg |-> byKID[kid].alg, public |-> P,
                             roles |-> RolesIn(memory[kid]), subject |-> byKID[kid].subject]
      BY <2>3
    <2>7. AsVerified'[kid] = [alg |-> byKID[kid].alg, public |-> P,
                              roles |-> RolesIn(memory[kid]), subject |-> byKID'[kid].subject]
      <3>1. AsVerified'[kid] = [alg |-> byKID'[kid].alg, public |-> Q,
                                roles |-> RolesIn(memory'[kid]), subject |-> byKID'[kid].subject]
        BY <2>4
      <3> HIDE DEF P, Q
      <3> QED
        BY <2>2, <2>5, <3>1
    <2> HIDE DEF P, Q
    <2> QED
      BY <2>2, <2>6, <2>7
  <1> QED
    BY <1>1, Invariant, PTL DEF Spec, VerdictsStand

------------------------------------------------------------------------------
(* A set built from a manifest.                                             *)

KidOf(k) == manifest[k].kid_hex[1]

\* The key and the anchor an entry describes.
KeyOf(e) ==
    IF e.alg = "ed25519"
    THEN <<[id |-> e.pub_hex[1].id, length |-> e.pub_hex[1].length]>>
    ELSE <<[id |-> e.pub_hex[1].id, curve |-> e.pub_hex[1].pkix,
            coordinates |-> TRUE, onCurve |-> TRUE],
           [id |-> e.mldsa_pub_hex[1].id]>>

AnchorOf(e, subject) ==
    [alg |-> e.alg, key |-> KeyOf(e), roles |-> e.kid_hex[1], subject |-> subject]

\* The entries added so far.
Done == IF pc = "subject" THEN n ELSE n - 1

\* They describe keys, have key ids of their own, and are what the set holds.
Building ==
    /\ DOMAIN byKID = {KidOf(k) : k \in 1..Done}
    /\ \A k \in 1..Done :
          /\ KeyDescribed(manifest[k]) /\ RolesStated(manifest[k])
          /\ \A j \in 1..Done : KidOf(j) = KidOf(k) => j = k
          /\ byKID[KidOf(k)]
                = AnchorOf(manifest[k], IF k = n THEN Unmarked ELSE manifest[k].subject)
          /\ memory[KidOf(k)] = manifest[k].roles

\* The manifest gives a reason to refuse it.
Faulty ==
    \/ ~KidsDistinct
    \/ \E k \in 1..Len(manifest) : ~KeyDescribed(manifest[k]) \/ ~RolesStated(manifest[k])

MInv ==
    /\ manifest \in Manifests /\ n \in 1..(Len(manifest) + 1)
    /\ DOMAIN memory = Slices \cup Kids
    /\ pc \in {"entry", "add", "subject", "built", "refused"}
    /\ pc # "refused" => Building
    /\ pc = "add" =>
          /\ n <= Len(manifest) /\ entry.kid_hex # <<>> /\ entry.pub_hex # <<>>
          /\ RolesStated(entry) /\ memory[out] = entry.roles
    /\ pc = "subject" => n <= Len(manifest)
    /\ pc = "built" => n = Len(manifest) + 1
    /\ result = IF pc = "built" THEN <<AsVerified>> ELSE <<>>
    /\ pc = "refused" => Faulty

\* What is assumed of an entry.
LEMMA EntryDecodes ==
    ASSUME manifest \in Manifests, NEW k \in 1..Len(manifest)
    PROVE  /\ Len(manifest) \in Nat
           /\ manifest[k].roles \in Seq(RolesIn(manifest[k].roles))
           /\ Decoding(manifest[k].kid_hex) /\ Decoding(manifest[k].pub_hex)
           /\ Decoding(manifest[k].mldsa_pub_hex)
           /\ manifest[k].kid_hex # <<>> => KidOf(k) \in Kids \cup {NoKid}
  <1>1. \A m \in Manifests :
           /\ Len(m) \in Nat
           /\ \A i \in 1..Len(m) :
                 /\ m[i].roles \in Seq(RolesIn(m[i].roles))
                 /\ Decoding(m[i].kid_hex) /\ Decoding(m[i].pub_hex)
                 /\ Decoding(m[i].mldsa_pub_hex)
                 /\ m[i].kid_hex # <<>> => m[i].kid_hex[1] \in Kids \cup {NoKid}
    BY ManifestsAssumption
  <1> QED
    BY <1>1 DEF KidOf

\* Entries under the same key id have the same kid_hex.
LEMMA SameKid ==
    ASSUME manifest \in Manifests, NEW j \in 1..Len(manifest), NEW k \in 1..Len(manifest),
           manifest[j].kid_hex # <<>>, manifest[k].kid_hex # <<>>
    PROVE  KidOf(j) = KidOf(k) <=> manifest[j].kid_hex = manifest[k].kid_hex
  BY EntryDecodes DEF KidOf, Decoding

\* validRoles passes the role lists that state roles.
LEMMA RolesChecked ==
    ASSUME NEW e, e.roles \in Seq(RolesIn(e.roles))
    PROVE  validRoles(e.roles) = NoError <=> RolesStated(e)
  <1>1. Len(e.roles) = 0 <=> e.roles = <<>>
    BY EmptySeq
  <1> QED
    BY <1>1 DEF validRoles, RolesStated, NoError

LEMMA ManifestRead == MInit => MInv
  <1> SUFFICES ASSUME MInit PROVE MInv
    OBVIOUS
  <1>1. manifest \in Manifests /\ Len(manifest) \in Nat
    BY ManifestsAssumption DEF MInit
  <1>2. DOMAIN byKID = {} /\ Done = 0
    BY DEF MInit, NewTrustAnchorSet, Done
  <1>3. Building
    BY <1>2 DEF Building
  <1> QED
    BY <1>1, <1>3 DEF MInit, MInv

\* The build stops for a reason.
LEMMA StopStep ==
    ASSUME MInv, Faulty, pc \in {"entry", "add"}, Stop
    PROVE  MInv'
  BY DEF MInv, Stop, Faulty, KidsDistinct

\* Registering the key of the entry at hand.
LEMMA EntryRegistered ==
    ASSUME MInv, pc = "add", NEW keyFault,
           KidOf(n) # NoKid => (keyFault = NoError <=> KeyDescribed(entry)),
           Register(KidOf(n), out, keyFault, entry.alg, KeyOf(entry)),
           Proceed("subject"), n' = n
    PROVE  MInv'
  <1>1. /\ n \in 1..Len(manifest) /\ manifest \in Manifests /\ Len(manifest) \in Nat
        /\ entry = manifest[n] /\ entry.kid_hex # <<>> /\ RolesStated(entry)
        /\ memory[out] = entry.roles /\ Building /\ Done = n - 1
        /\ result = <<>> /\ manifest' = manifest /\ result' = <<>>
    BY ManifestsAssumption DEF MInv, entry, Done, Proceed
  <1>2. KidOf(n) \in Kids \cup {NoKid} /\ validRoles(memory[out]) = NoError
    BY <1>1, EntryDecodes, RolesChecked
  <1>3. CASE KidOf(n) # NoKid /\ keyFault = NoError /\ KidOf(n) \notin DOMAIN byKID
    <2>1. Store(KidOf(n), out, entry.alg, KeyOf(entry)) /\ pc' = "subject"
      BY <1>2, <1>3 DEF Register, Proceed, Store
    <2>2. /\ byKID' = [k \in DOMAIN byKID \cup {KidOf(n)} |->
                           IF k = KidOf(n) THEN AnchorOf(entry, Unmarked) ELSE byKID[k]]
          /\ memory' = [memory EXCEPT ![KidOf(n)] = memory[out]]
      BY <1>1, <2>1 DEF Store, Put, AnchorOf, KidOf
    <2>3. KidOf(n) \in Kids /\ DOMAIN memory = Slices \cup Kids
      BY <1>2, <1>3 DEF MInv
    <2>4. DOMAIN memory' = Slices \cup Kids /\ memory'[KidOf(n)] = entry.roles
      BY <1>1, <2>2, <2>3
    <2>5. KidOf(n) \notin DOMAIN byKID /\ DOMAIN byKID = {KidOf(k) : k \in 1..(n - 1)}
      BY <1>1, <1>3 DEF Building
    <2>6. \A k \in 1..(n - 1) : KidOf(k) # KidOf(n) /\ KidOf(k) \in Kids
      <3> SUFFICES ASSUME NEW k \in 1..(n - 1)  PROVE KidOf(k) # KidOf(n) /\ KidOf(k) \in Kids
        OBVIOUS
      <3>1. KidOf(k) # KidOf(n)
        BY <2>5
      <3>2. k \in 1..Len(manifest) /\ KeyDescribed(manifest[k])
        BY <1>1 DEF Building
      <3> QED
        BY <1>1, <3>1, <3>2, EntryDecodes DEF KeyDescribed, KidOf
    <2>7. /\ DOMAIN byKID' = {KidOf(k) : k \in 1..n}
          /\ byKID'[KidOf(n)] = AnchorOf(entry, Unmarked)
          /\ \A k \in 1..(n - 1) : byKID'[KidOf(k)] = byKID[KidOf(k)]
      <3>1. DOMAIN byKID' = DOMAIN byKID \cup {KidOf(n)}
        BY <2>2
      <3>2. 1..n = (1..(n - 1)) \cup {n}
        BY <1>1
      <3>3. {KidOf(k) : k \in 1..n} = {KidOf(k) : k \in 1..(n - 1)} \cup {KidOf(n)}
        BY <3>2
      <3> QED
        BY <2>2, <2>5, <2>6, <3>1, <3>3
    <2>8. \A k \in 1..(n - 1) : memory'[KidOf(k)] = memory[KidOf(k)]
      BY <2>2, <2>3, <2>6
    <2>9. KeyDescribed(entry)
      BY <1>3
    <2>10. Building'
      <3>1. Done' = n /\ n' = n /\ manifest' = manifest
        BY <1>1, <2>1 DEF Done
      <3>2. \A k \in 1..n : KidOf(k)' = KidOf(k)
        BY <1>1 DEF KidOf
      <3>3. DOMAIN byKID' = {KidOf(k)' : k \in 1..n}
        BY <2>7, <3>2
      <3>4. ASSUME NEW k \in 1..n
            PROVE  /\ KeyDescribed(manifest[k]) /\ RolesStated(manifest[k])
                   /\ \A j \in 1..n : KidOf(j) = KidOf(k) => j = k
                   /\ byKID'[KidOf(k)]
                         = AnchorOf(manifest[k], IF k = n THEN Unmarked ELSE manifest[k].subject)
                   /\ memory'[KidOf(k)] = manifest[k].roles
        <4>1. CASE k = n
          <5>1. \A j \in 1..n : KidOf(j) = KidOf(k) => j = k
            BY <1>1, <2>6, <4>1
          <5> QED
            BY <1>1, <2>4, <2>7, <2>9, <4>1, <5>1
        <4>2. CASE k \in 1..(n - 1)
          <5>1. /\ KeyDescribed(manifest[k]) /\ RolesStated(manifest[k])
                /\ \A j \in 1..(n - 1) : KidOf(j) = KidOf(k) => j = k
                /\ byKID[KidOf(k)] = AnchorOf(manifest[k], manifest[k].subject)
                /\ memory[KidOf(k)] = manifest[k].roles
            BY <1>1, <4>2 DEF Building
          <5>2. \A j \in 1..n : KidOf(j) = KidOf(k) => j = k
            BY <1>1, <2>6, <4>2, <5>1
          <5> QED
            BY <1>1, <2>7, <2>8, <4>2, <5>1, <5>2
        <4> QED
          BY <1>1, <4>1, <4>2
      <3> QED
        BY <3>1, <3>2, <3>3, <3>4 DEF Building
    <2> QED
      BY <1>1, <2>1, <2>4, <2>10 DEF MInv
  <1>4. CASE ~(KidOf(n) # NoKid /\ keyFault = NoError /\ KidOf(n) \notin DOMAIN byKID)
    <2>1. err' # NoError /\ UNCHANGED <<byKID, memory>> /\ pc' = "refused"
      BY <1>2, <1>4 DEF Register, Refuse, Proceed, NoError
    <2>2. Faulty
      <3>1. CASE KidOf(n) = NoKid
        BY <1>1, <3>1 DEF KeyDescribed, Faulty, KidOf
      <3>2. CASE KidOf(n) # NoKid /\ keyFault # NoError
        BY <1>1, <3>2 DEF Faulty
      <3>3. CASE KidOf(n) \in DOMAIN byKID
        <4>1. PICK k \in 1..(n - 1) : KidOf(k) = KidOf(n)
          BY <1>1, <3>3 DEF Building
        <4>2. k \in 1..Len(manifest) /\ k # n /\ manifest[k].kid_hex # <<>>
          BY <1>1, <4>1 DEF Building, KeyDescribed
        <4>3. manifest[k].kid_hex = manifest[n].kid_hex
          BY <1>1, <4>1, <4>2, SameKid
        <4> QED
          BY <1>1, <4>2, <4>3 DEF Faulty, KidsDistinct
      <3> QED
        BY <1>4, <3>1, <3>2, <3>3
    <2> QED
      BY <1>1, <2>1, <2>2 DEF MInv, Faulty, KidsDistinct
  <1> QED
    BY <1>3, <1>4

LEMMA DecodeStep ==
    ASSUME MInv, Decode
    PROVE  MInv'
  <1>1. /\ pc = "entry" /\ n \in 1..Len(manifest) /\ entry = manifest[n]
        /\ manifest \in Manifests /\ Building /\ Done = n - 1 /\ result = <<>>
        /\ DOMAIN memory = Slices \cup Kids
    BY ManifestsAssumption DEF MInv, Decode, entry, Done
  <1>2. validRoles(entry.roles) = NoError <=> RolesStated(entry)
    BY <1>1, EntryDecodes, RolesChecked
  <1>3. CASE validRoles(entry.roles) # NoError \/ entry.kid_hex = <<>> \/ entry.pub_hex = <<>>
    <2>1. Stop
      BY <1>3 DEF Decode
    <2>2. ~RolesStated(entry) \/ ~KeyDescribed(entry)
      BY <1>2, <1>3 DEF KeyDescribed
    <2>3. Faulty
      BY <1>1, <2>2 DEF Faulty
    <2> QED
      BY <1>1, <2>1, <2>3, StopStep
  <1>4. CASE ~(validRoles(entry.roles) # NoError \/ entry.kid_hex = <<>> \/ entry.pub_hex = <<>>)
    <2>1. /\ memory' = [memory EXCEPT ![out] = entry.roles] /\ pc' = "add"
          /\ UNCHANGED <<byKID, err, manifest, n, result>>
      BY <1>4 DEF Decode
    <2>2. /\ DOMAIN memory' = Slices \cup Kids /\ memory'[out] = entry.roles
          /\ \A kid \in Kids : memory'[kid] = memory[kid]
      BY <1>1, <2>1, ManifestsAssumption, TrustAnchorsAssumption
    <2>3. Done' = n - 1 /\ entry' = entry /\ \A k \in 1..(n - 1) : KidOf(k)' = KidOf(k)
      BY <2>1 DEF Done, entry, KidOf
    <2>4. \A k \in 1..(n - 1) : KidOf(k) \in Kids
      BY <1>1, EntryDecodes DEF Building, KeyDescribed, KidOf
    <2>5. Building'
      BY <1>1, <2>1, <2>2, <2>3, <2>4 DEF Building
    <2>6. RolesStated(entry) /\ entry.kid_hex # <<>> /\ entry.pub_hex # <<>>
      BY <1>2, <1>4
    <2> QED
      BY <1>1, <2>1, <2>2, <2>3, <2>5, <2>6 DEF MInv
  <1> QED
    BY <1>3, <1>4

LEMMA AddStep ==
    ASSUME MInv, Add
    PROVE  MInv'
  <1>1. /\ pc = "add" /\ n \in 1..Len(manifest) /\ entry = manifest[n]
        /\ manifest \in Manifests /\ entry.kid_hex # <<>> /\ entry.pub_hex # <<>>
        /\ entry.kid_hex[1] = KidOf(n)
    BY ManifestsAssumption DEF MInv, Add, entry, KidOf
  <1> DEFINE ed == [id |-> entry.pub_hex[1].id, length |-> entry.pub_hex[1].length]
             ml == [id |-> entry.mldsa_pub_hex[1].id]
  <1>2. CASE /\ entry.alg = "ed25519" /\ AddEd25519(KidOf(n), out, ed)
             /\ Proceed("subject") /\ UNCHANGED n
    <2>1. KeyOf(entry) = <<ed>>
      BY <1>2 DEF KeyOf
    <2>2. KidOf(n) # NoKid => (ed25519Fault(ed) = NoError <=> KeyDescribed(entry))
      BY <1>1, <1>2 DEF ed25519Fault, NoError, KeyDescribed
    <2> QED
      BY <1>1, <1>2, <2>1, <2>2, EntryRegistered DEF AddEd25519
  <1>3. CASE /\ entry.alg = "hybrid-ecdsa-p384-ml-dsa-65" /\ Parses
             /\ AddHybrid(KidOf(n), out, <<ParsedKey>>, <<ml>>)
             /\ Proceed("subject") /\ UNCHANGED n
    <2>1. <<ParsedKey>> \o <<ml>> = <<ParsedKey, ml>>
      BY Pair
    <2>2. KeyOf(entry) = <<ParsedKey>> \o <<ml>>
      BY <1>3, <2>1 DEF KeyOf, ParsedKey
    <2>3. \A x : <<x>> # <<>> /\ <<x>>[1] = x
      OBVIOUS
    <2>4. hybridFault(<<ParsedKey>>, <<ml>>) = NoError <=> entry.pub_hex[1].pkix = "P-384"
      <3>1. hybridFault(<<ParsedKey>>, <<ml>>) = ecdsaFault(<<ParsedKey>>, "P-384")
        BY <2>3 DEF hybridFault
      <3>2. /\ ParsedKey.curve = entry.pub_hex[1].pkix
            /\ ParsedKey.coordinates /\ ParsedKey.onCurve
        BY DEF ParsedKey
      <3> QED
        BY <2>3, <3>1, <3>2 DEF ecdsaFault, NoError
    <2>5. KidOf(n) # NoKid =>
             (hybridFault(<<ParsedKey>>, <<ml>>) = NoError <=> KeyDescribed(entry))
      BY <1>1, <1>3, <2>4 DEF KeyDescribed, Parses
    <2> QED
      BY <1>1, <1>3, <2>2, <2>5, EntryRegistered DEF AddHybrid
  <1>4. CASE entry.alg = "hybrid-ecdsa-p384-ml-dsa-65" /\ ~Parses /\ Stop
    <2>1. ~KeyDescribed(entry)
      BY <1>4 DEF KeyDescribed, Parses
    <2> QED
      BY <1>1, <1>4, <2>1, StopStep DEF Faulty
  <1>5. CASE entry.alg \notin {"ed25519", "hybrid-ecdsa-p384-ml-dsa-65"} /\ Stop
    <2>1. ~KeyDescribed(entry)
      BY <1>5 DEF KeyDescribed
    <2> QED
      BY <1>1, <1>5, <2>1, StopStep DEF Faulty
  <1> QED
    BY <1>1, <1>2, <1>3, <1>4, <1>5 DEF Add

\* The key was registered a moment ago: marking it never fails.
LEMMA MarkStep ==
    ASSUME MInv, Mark
    PROVE  MInv'
  <1>1. /\ pc = "subject" /\ n \in 1..Len(manifest) /\ n' = n + 1 /\ Len(manifest) \in Nat
        /\ entry = manifest[n] /\ entry.kid_hex[1] = KidOf(n)
        /\ manifest \in Manifests /\ Building /\ Done = n /\ result = <<>>
        /\ DOMAIN memory = Slices \cup Kids
    BY ManifestsAssumption DEF MInv, Mark, entry, Done, KidOf
  <1>2. /\ KidOf(n) \in DOMAIN byKID
        /\ byKID[KidOf(n)] = AnchorOf(entry, Unmarked)
    BY <1>1 DEF Building
  <1>3. /\ pc' = "entry" /\ UNCHANGED <<memory, manifest, result>>
        /\ DOMAIN byKID' = DOMAIN byKID
        /\ byKID'[KidOf(n)] = AnchorOf(entry, entry.subject)
        /\ \A kid \in DOMAIN byKID : kid # KidOf(n) => byKID'[kid] = byKID[kid]
    <2>1. CASE entry.subject = Unmarked
      BY <1>1, <1>2, <2>1 DEF Mark
    <2>2. CASE entry.subject # Unmarked
      <3>1. SetSubject(KidOf(n), entry.subject) /\ Proceed("entry")
        BY <1>1, <2>2 DEF Mark
      <3>2. /\ byKID' = [k \in DOMAIN byKID \cup {KidOf(n)} |->
                             IF k = KidOf(n) THEN [byKID[KidOf(n)] EXCEPT !.subject = entry.subject]
                             ELSE byKID[k]]
            /\ err' = NoError /\ memory' = memory
        BY <1>2, <3>1 DEF SetSubject, Put
      <3>3. [AnchorOf(entry, Unmarked) EXCEPT !.subject = entry.subject]
               = AnchorOf(entry, entry.subject)
        <4> DEFINE a == entry.alg
                   y == KeyOf(entry)
                   r == entry.kid_hex[1]
                   u == entry.subject
        <4> HIDE DEF a, y, r, u
        <4>1. [[alg |-> a, key |-> y, roles |-> r, subject |-> Unmarked] EXCEPT !.subject = u]
                 = [alg |-> a, key |-> y, roles |-> r, subject |-> u]
          OBVIOUS
        <4> QED
          BY <4>1 DEF AnchorOf, a, y, r, u
      <3> QED
        BY <1>2, <3>1, <3>2, <3>3 DEF Proceed
    <2> QED
      BY <2>1, <2>2
  <1>4. Building'
    <2>1. Done' = n /\ \A k \in 1..n : KidOf(k)' = KidOf(k)
      BY <1>1, <1>3 DEF Done, KidOf
    <2>2. DOMAIN byKID' = {KidOf(k)' : k \in 1..n}
      BY <1>1, <1>3, <2>1 DEF Building
    <2>3. ASSUME NEW k \in 1..n
          PROVE  /\ KeyDescribed(manifest[k]) /\ RolesStated(manifest[k])
                 /\ \A j \in 1..n : KidOf(j) = KidOf(k) => j = k
                 /\ byKID'[KidOf(k)] = AnchorOf(manifest[k], manifest[k].subject)
                 /\ memory[KidOf(k)] = manifest[k].roles
      <3>1. /\ KeyDescribed(manifest[k]) /\ RolesStated(manifest[k])
            /\ \A j \in 1..n : KidOf(j) = KidOf(k) => j = k
            /\ memory[KidOf(k)] = manifest[k].roles
            /\ KidOf(k) \in DOMAIN byKID
            /\ k # n => byKID[KidOf(k)] = AnchorOf(manifest[k], manifest[k].subject)
        BY <1>1 DEF Building
      <3> QED
        BY <1>1, <1>3, <3>1
    <2>4. \A k \in 1..n : k # n'
      BY <1>1
    <2> QED
      BY <1>3, <2>1, <2>2, <2>3, <2>4 DEF Building
  <1> QED
    BY <1>1, <1>3, <1>4 DEF MInv

LEMMA ReturnStep ==
    ASSUME MInv, Return
    PROVE  MInv'
  <1>1. /\ pc = "entry" /\ pc' = "built" /\ result' = <<AsVerified>>
        /\ UNCHANGED <<byKID, memory, err, manifest, n>>
        /\ n = Len(manifest) + 1 /\ Building /\ Done = n - 1
    BY ManifestsAssumption DEF MInv, Return, Done
  <1>2. Done' = Done /\ AsVerified' = AsVerified
    BY <1>1 DEF Done, AsVerified, RolesIn
  <1>3. Building'
    BY <1>1, <1>2 DEF Building, KidOf
  <1> QED
    BY <1>1, <1>2, <1>3 DEF MInv

LEMMA BuildInvariant == MSpec => []MInv
  <1>1. MInv /\ [MNext]_mvars => MInv'
    <2>1. ASSUME MInv, UNCHANGED mvars PROVE MInv'
      <3>1. UNCHANGED <<byKID, memory, err, manifest, n, pc, result>>
        BY <2>1 DEF mvars
      <3>2. Done' = Done /\ AsVerified' = AsVerified /\ entry' = entry
        BY <3>1 DEF Done, AsVerified, RolesIn, entry
      <3>3. Building' <=> Building
        BY <3>1, <3>2 DEF Building, KidOf
      <3> QED
        BY <2>1, <3>1, <3>2, <3>3 DEF MInv, Faulty, KidsDistinct
    <2> QED
      BY <2>1, DecodeStep, AddStep, MarkStep, ReturnStep DEF MNext
  <1> QED
    BY <1>1, ManifestRead, PTL DEF MSpec

\* ConfiguredAsStated: for any manifest, a set is returned exactly when every entry
\* describes a key, states its roles and has a key id of its own, and it then holds
\* those anchors and no other (conformance.go:33-76).
THEOREM BuiltAsStated == MSpec => []ConfiguredAsStated
  <1>1. ASSUME MInv, pc = "built"
        PROVE  /\ \A k \in 1..Len(manifest) :
                      KeyDescribed(manifest[k]) /\ RolesStated(manifest[k])
               /\ KidsDistinct
               /\ DOMAIN result[1] = {manifest[k].kid_hex[1] : k \in 1..Len(manifest)}
               /\ \A k \in 1..Len(manifest) :
                      result[1][manifest[k].kid_hex[1]] = Stated(manifest[k])
    <2>1. /\ manifest \in Manifests /\ Len(manifest) \in Nat /\ Building
          /\ Done = Len(manifest) /\ n = Len(manifest) + 1 /\ result[1] = AsVerified
      BY <1>1, ManifestsAssumption DEF MInv, Done
    <2>2. \A k \in 1..Len(manifest) :
             /\ KeyDescribed(manifest[k]) /\ RolesStated(manifest[k])
             /\ \A j \in 1..Len(manifest) : KidOf(j) = KidOf(k) => j = k
             /\ KidOf(k) \in DOMAIN byKID
             /\ byKID[KidOf(k)] = AnchorOf(manifest[k], manifest[k].subject)
             /\ memory[KidOf(k)] = manifest[k].roles
      BY <2>1 DEF Building
    <2>3. KidsDistinct
      <3> SUFFICES ASSUME NEW j \in 1..Len(manifest), NEW k \in 1..Len(manifest),
                          manifest[j].kid_hex = manifest[k].kid_hex
                   PROVE  j = k
        BY DEF KidsDistinct
      <3> QED
        BY <2>2 DEF KidOf
    <2>4. DOMAIN AsVerified = {manifest[k].kid_hex[1] : k \in 1..Len(manifest)}
      BY <2>1 DEF AsVerified, Building, KidOf
    <2>5. ASSUME NEW k \in 1..Len(manifest)
          PROVE  AsVerified[KidOf(k)] = Stated(manifest[k])
      <3> DEFINE e == manifest[k]
                 anchor == byKID[KidOf(k)]
                 public == [i \in 1..Len(anchor.key) |-> anchor.key[i].id]
      <3>1. AsVerified[KidOf(k)] = [alg |-> anchor.alg, public |-> public,
                                    roles |-> RolesIn(memory[anchor.roles]),
                                    subject |-> anchor.subject]
        <4>1. KidOf(k) \in DOMAIN byKID
          BY <2>2
        <4> QED
          BY <4>1, Zenon DEF AsVerified
      <3>2. /\ anchor.alg = e.alg /\ anchor.key = KeyOf(e)
            /\ anchor.roles = KidOf(k) /\ anchor.subject = e.subject
        <4>1. anchor = AnchorOf(e, e.subject)
          BY <2>2
        <4>2. e.kid_hex[1] = KidOf(k)
          BY DEF KidOf
        <4> HIDE DEF e, anchor
        <4> QED
          BY <4>1, <4>2 DEF AnchorOf
      <3>3. public = IF e.alg = "ed25519" THEN <<e.pub_hex[1].id>>
                     ELSE <<e.pub_hex[1].id, e.mldsa_pub_hex[1].id>>
        <4>1. CASE e.alg = "ed25519"
          <5> DEFINE x == [id |-> e.pub_hex[1].id, length |-> e.pub_hex[1].length]
          <5>1. anchor.key = <<x>> /\ x.id = e.pub_hex[1].id
            BY <3>2, <4>1 DEF KeyOf
          <5> HIDE DEF x
          <5>2. public = <<x.id>>
            BY <5>1
          <5> QED
            BY <4>1, <5>1, <5>2
        <4>2. CASE e.alg # "ed25519"
          <5> DEFINE x == [id |-> e.pub_hex[1].id, curve |-> e.pub_hex[1].pkix,
                           coordinates |-> TRUE, onCurve |-> TRUE]
                     y == [id |-> e.mldsa_pub_hex[1].id]
          <5>1. anchor.key = <<x, y>> /\ x.id = e.pub_hex[1].id /\ y.id = e.mldsa_pub_hex[1].id
            BY <3>2, <4>2 DEF KeyOf
          <5> HIDE DEF x, y
          <5>2. public = <<x.id, y.id>>
            BY <5>1
          <5> QED
            BY <4>2, <5>1, <5>2
        <4> QED
          BY <4>1, <4>2
      <3>4. memory[KidOf(k)] = e.roles
        BY <2>2
      <3> HIDE DEF e, anchor, public
      <3>5. AsVerified[KidOf(k)] = [alg |-> e.alg, public |-> public,
                                    roles |-> RolesIn(e.roles), subject |-> e.subject]
        BY <3>1, <3>2, <3>4
      <3> QED
        BY <3>3, <3>5 DEF Stated, e
    <2> QED
      BY <2>1, <2>2, <2>3, <2>4, <2>5 DEF KidOf
  <1>2. ASSUME MInv, pc = "refused"
        PROVE  result = <<>> /\ Faulty
    BY <1>2 DEF MInv
  <1>3. MInv => ConfiguredAsStated
    BY <1>1, <1>2 DEF ConfiguredAsStated, Faulty
  <1> QED
    BY <1>3, BuildInvariant, PTL
=============================================================================
