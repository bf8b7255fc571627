--------------------------- MODULE MCConformance ---------------------------
(***************************************************************************)
(* Vectors of every kind over a disk of a few artifacts, each also in a    *)
(* broken version: missing, under a signature nobody made, or breaking a   *)
(* rule. The verifier reports the checks that read the receipt and the     *)
(* optional inputs of a vector. Manifests hold one vector of any kind, or  *)
(* two that share their files or differ in their expectation.              *)
(***************************************************************************)
EXTENDS Conformance, MCInputs, TLC

Root == [BaseMAT EXCEPT !.delegation = [allowed |-> TRUE, max_depth |-> 1]]
ChildOf(m, id) == [m EXCEPT !.id = id, !.instance_id = id, !.parent_id = m.id]
Bolder == [ChildOf(Root, "mat2") EXCEPT !.boundary.max_impact = 2]

Forged(env) == [env EXCEPT !.signature = <<"none">>]

Permit ==
    [ReceiptOver(Root, BaseContext, CommitmentTo(Root), Read, SvcA, "permit", {},
                 At(2000), At(2050), 50) EXCEPT !.rationale_codes = MCKnownCodes,
                                             !.compliance = <<[action |-> Read, code |-> ""]>>]
Derived ==
    [BlankReceipt EXCEPT !.id = "d1", !.commitment_digest = OtherDigest,
                         !.compliance = <<[action |-> Read, code |-> "COMPLIANCE"]>>]

MCDisk ==
    "" :> <<>> @@ "missing" :> <<>>
    @@ "root" :> <<Sealed("ki", "mat", Root)>>
    @@ "root_forged" :> <<Forged(Sealed("ki", "mat", Root))>>
    @@ "child" :> <<Sealed("ki", "mat", ChildOf(Root, "mat2"))>>
    @@ "bolder" :> <<Sealed("ki", "mat", Bolder)>>
    @@ "com" :> <<Sealed("ka", "commitment", CommitmentTo(Root))>>
    @@ "com_other" :> <<Sealed("ka", "commitment", [CommitmentTo(Root) EXCEPT !.artifact_id = "x"])>>
    @@ "ctx" :> <<BaseContext>>
    @@ "permit" :> <<Sealed("ke", "receipt", Permit)>>
    @@ "permit_forged" :> <<Forged(Sealed("ke", "receipt", Permit))>>
    @@ "derived" :> <<Sealed("ke", "receipt", Derived)>>
    @@ "prior" :> <<Sealed("ke", "receipt", Prior)>>
    @@ "speculated" :> <<Sealed("ke", "receipt", Speculated)>>

Status(name, status) == [name |-> name, status |-> status]

\* What Verify reports of the inputs a vector chooses.
MCReported(in) ==
    LET rc == in.receipt.payload IN
    IF ~ReceiptParses(in.receipt, MCAnchors) THEN {Status("receipt_signature", "failed")}
    ELSE {Status("receipt_signature", "passed"),
          Status("replay_receipt_unseen",
                 Judge(in.replay # <<>>, Digest(rc) \notin in.replay[1])),
          Status("receipt_final", PassIf(~rc.speculative)),
          Status("confirmation_link", ConfirmationLink(rc, in.confirmed)),
          Status("chain_link", Judge(in.prior # <<>>, ChainLink(rc, in.prior[1]))),
          Status("context_digest",
                 Judge(in.context # <<>>, rc.context_digest = Digest(in.context[1])))}
         \cup (IF in.mat = <<>> THEN {}
               ELSE {Status("mat_signature", PassIf(MATParses(in.mat[1], MCAnchors)))})
         \cup (IF in.commitment = <<>> THEN {}
               ELSE {Status("commitment_signature",
                            PassIf(CommitmentParses(in.commitment[1], MCAnchors)))})

Blank ==
    [kind |-> "receipt", expect |-> "valid", mat |-> "", parent |-> "", mats |-> <<>>,
     commitment |-> "", receipt |-> "", receipts |-> <<>>, context |-> "", prior |-> "",
     confirmed |-> "", at |-> <<>>, replay |-> "", expect_checks |-> <<>>,
     expect_code |-> "", expect_digest |-> <<>>]

Expects == {"valid", "invalid", "Invalid"}

ReceiptVectors ==
    {[Blank EXCEPT !.expect = e, !.receipt = r, !.replay = m, !.prior = p, !.confirmed = c] :
        e \in Expects, r \in {"", "permit", "permit_forged", "speculated", "missing"},
        m \in {"", "fresh", "seen", "sometimes"},
        p \in {"", "prior", "permit_forged"}, c \in {"", "speculated", "prior"}}
    \cup {[Blank EXCEPT !.receipt = "permit", !.mat = m, !.commitment = k, !.context = x] :
             m \in {"", "root", "root_forged", "missing"}, k \in {"", "com", "missing"},
             x \in {"", "ctx", "missing"}}
    \cup {[Blank EXCEPT !.receipt = r, !.expect_code = code] :
             r \in {"permit", "derived"}, code \in MCKnownCodes \cup {"COMPLIANCE"}}

\* Vectors that pin what they expect of the replay check.
PinningVectors ==
    {[Blank EXCEPT !.expect = e, !.receipt = "permit", !.replay = m,
                   !.expect_checks = "replay_receipt_unseen" :> s] :
        e \in {"valid", "invalid"}, m \in {"", "fresh", "seen"}, s \in Statuses}
    \cup {[Blank EXCEPT !.receipt = "permit", !.expect_checks = "ghost" :> "passed"]}

OtherVectors ==
    {[Blank EXCEPT !.kind = "mat", !.expect = e, !.mat = f, !.at = at] :
        e \in Expects, f \in {"root", "root_forged", "missing"},
        at \in {<<>>, <<At(2000)>>, <<At(9001)>>, <<Malformed>>}}
    \cup {[Blank EXCEPT !.kind = "delegation", !.expect = e, !.parent = f, !.mat = g] :
             e \in Expects, f \in {"root", "root_forged", "missing"},
             g \in {"child", "bolder", "missing"}}
    \cup {[Blank EXCEPT !.kind = "delegation_chain", !.expect = e, !.mats = s] :
             e \in Expects, s \in {<<>>, <<"root">>, <<"root", "child">>, <<"child">>,
                                   <<"root", "bolder">>, <<"root", "missing">>, <<"root", "root">>}}
    \cup {[Blank EXCEPT !.kind = "commitment_binding", !.expect = e, !.commitment = k, !.mat = f] :
             e \in Expects, k \in {"com", "com_other", "missing"},
             f \in {"root", "root_forged", "missing"}}
    \cup {[Blank EXCEPT !.kind = "provenance", !.expect = e, !.receipts = s] :
             e \in Expects, s \in {<<>>, <<"derived">>, <<"prior">>, <<"derived", "missing">>}}
    \cup {[Blank EXCEPT !.kind = "canon", !.context = f, !.expect_digest = d] :
             f \in {"ctx", "missing"}, d \in {Digest(BaseContext), OtherDigest}}
    \cup {[Blank EXCEPT !.kind = "session"]}

Single == ReceiptVectors \cup PinningVectors \cup OtherVectors

Delegations == {x \in OtherVectors : x.kind \in {"delegation", "delegation_chain"}}

MCManifests ==
    {<<>>} \cup {<<x>> : x \in Single}
    \cup {<<x, y>> : x \in PinningVectors, y \in PinningVectors}
    \cup {<<x, y>> : x \in Delegations, y \in PinningVectors \cup Delegations}
=============================================================================
