--------------------------- MODULE MCTrustAnchors ---------------------------
(***************************************************************************)
(* Calls: three key ids, one role slice in the operator's code, and one    *)
(* key of each algorithm beside one key for every reason to refuse it.     *)
(* Manifests: one entry of every description, two entries each good or     *)
(* wrong in one field, and three good entries.                             *)
(***************************************************************************)
EXTENDS AnchorManifest

MCKids == {"k1", "k2", "k3"}
MCSubjects == {"ep-1", "ep-2"}
MCSlices == {"out"}
MCRoleLists == {<<>>, <<"issuer">>, <<"issuer", "agent">>, <<"agent", "root">>}

------------------------------------------------------------------------------

MCEd25519Keys == {[id |-> "ed", length |-> 32], [id |-> "spki", length |-> 44]}

EC(id, curve, coordinates, onCurve) ==
    [id |-> id, curve |-> curve, coordinates |-> coordinates, onCurve |-> onCurve]

MCECDSAKeys == {<<>>}
    \cup {<<EC("ec", curve, TRUE, TRUE)>> : curve \in {"nil", "P-256", "P-384"}}
    \cup {<<EC("ec", "P-256", FALSE, FALSE)>>, <<EC("ec", "P-384", TRUE, FALSE)>>}

MCMLDSAKeys == {<<>>, <<[id |-> "ml"]>>}

------------------------------------------------------------------------------

Bytes(id, length, pkix, mldsa) == [id |-> id, length |-> length, pkix |-> pkix, mldsa |-> mldsa]

PubHexes == {<<>>, <<Bytes("ed", 32, "none", FALSE)>>, <<Bytes("rsa", 294, "other", FALSE)>>,
             <<Bytes("p256", 91, "P-256", FALSE)>>, <<Bytes("p384", 120, "P-384", FALSE)>>}
MLDSAHexes == {<<>>, <<Bytes("ml", 1952, "none", TRUE)>>, <<Bytes("short", 12, "none", FALSE)>>}
KidHexes == {<<>>, <<NoKid>>} \cup {<<kid>> : kid \in MCKids}
Algs == Algorithms \cup {"rs256"}

Entries(kids, algs, pubs, mldsas, roles, subjects) ==
    [kid_hex : kids, alg : algs, pub_hex : pubs, mldsa_pub_hex : mldsas,
     roles : roles, subject : subjects]

AnyEntry == Entries(KidHexes, Algs, PubHexes, MLDSAHexes, MCRoleLists, {"", "ep-1"})

Good ==
    Entries({<<"k1">>, <<"k2">>, <<"k3">>}, {"ed25519"}, {<<Bytes("ed", 32, "none", FALSE)>>},
            {<<>>}, {<<"issuer">>}, {"", "ep-1"})
    \cup Entries({<<"k1">>, <<"k2">>}, {"hybrid-ecdsa-p384-ml-dsa-65"},
                 {<<Bytes("p384", 120, "P-384", FALSE)>>},
                 {<<Bytes("ml", 1952, "none", TRUE)>>}, {<<"issuer", "agent">>}, {"ep-1"})

Spoilt == UNION {{[e EXCEPT !.kid_hex = <<NoKid>>], [e EXCEPT !.pub_hex = <<>>],
                  [e EXCEPT !.roles = <<>>], [e EXCEPT !.alg = "ecdsa-p256"]} : e \in Good}

Two == Good \cup Spoilt

MCManifests ==
    {<<>>} \cup {<<e>> : e \in AnyEntry} \cup {<<e, f>> : e \in Two, f \in Two}
    \cup {<<e, f, g>> : e \in Good, f \in Good, g \in Good}
=============================================================================
