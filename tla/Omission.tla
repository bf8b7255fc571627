------------------------------ MODULE Omission ------------------------------
(***************************************************************************)
(* A verifier that is asked twice about one receipt: first with all the    *)
(* inputs of a presentation, then with some of the optional ones withheld. *)
(* Whoever presents a receipt chooses what accompanies it, so what a       *)
(* missing input may change is a property of two calls (verify.go:623-638, *)
(* 795-824). Verify keeps nothing from one call to the next.               *)
(***************************************************************************)
EXTENDS Verify

CONSTANT Withholdings   \* the sets of optional inputs that may be withheld together

VARIABLE full   \* <<>>, or what the first call was given and what it answered

Optional == {"mat", "context", "prior", "confirmed", "commitment", "replay"}

ASSUME WithholdingsAssumption ==
    /\ Withholdings \subseteq SUBSET Optional
    /\ \A x \in Inputs : DOMAIN x = Optional \cup {"receipt"}

Withhold(x, W) == [f \in DOMAIN x |-> IF f \in W THEN <<>> ELSE x[f]]

PairInit == Init /\ full = <<>>

Verifying == Next /\ UNCHANGED full

\* The first call has returned; the second begins.
Again ==
    /\ pc = "done" /\ full = <<>>
    /\ full' = <<[in |-> in, checks |-> checks]>>
    /\ \E W \in Withholdings : in' = Withhold(in, W)
    /\ pc' = "receipt_signature"
    /\ mat' = <<>> /\ com' = <<>>
    /\ checks' = <<>> /\ valid' = TRUE /\ notPerformed' = {}
    /\ header' = EmptyHeader
    /\ emitted' = {} /\ next' = 1

PairNext == Verifying \/ Again

PairSpec == PairInit /\ [][PairNext]_<<vars, full>>

------------------------------------------------------------------------------

Statused(s, name) == {s[i].status : i \in {j \in 1..Len(s) : s[j].name = name}}

\* What a withheld artifact claims for itself.
OwnClaims(x, y) ==
    (IF x.mat # <<>> /\ y.mat = <<>> THEN {"mat_signature"} ELSE {})
    \cup (IF x.commitment # <<>> /\ y.commitment = <<>> THEN CommitmentChecks ELSE {})

\* What may fall silent: those, and with the commitment the receipt's claims about
\* it as well, although the receipt still makes them and two of them are judged by
\* the MAT (verify.go:673-692, all inside the branch of a parsed commitment).
LeavesWith(x, y) ==
    OwnClaims(x, y)
    \cup (IF x.commitment # <<>> /\ y.commitment = <<>> THEN ClaimChecks ELSE {})

\* Withholding inputs never gains anything: each check reports what it reported
\* with all of them, or not_performed, and none turns into a pass or a refutation.
\* Only a withheld artifact's own checks may fall silent and, when that is the
\* commitment, the checks of what the receipt claims about it (verify.go:623-638,
\* 795-824); a refutation among the latter is lost with it, which the comments do
\* not allow for: NothingClaimedUnreported of Verify states their case.
OmissionOnlyDegrades ==
    (pc = "done" /\ full # <<>>) =>
        \A name \in VerifierChecks :
            \/ StatusOf(name) = Statused(full[1].checks, name)
            \/ StatusOf(name) = {"not_performed"}
            \/ StatusOf(name) = {} /\ name \in LeavesWith(full[1].in, in)
=============================================================================
