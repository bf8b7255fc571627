---------------------------- MODULE VerifyProofs ----------------------------
(***************************************************************************)
(* What holds of Verify for every anchor set, every set of inputs and every*)
(* code registry, in five parts.                                           *)
(*                                                                         *)
(* 1. The type invariant, that no check is reported twice, that nothing    *)
(*    goes missing, that only the catalogue's checks are reported, and that*)
(*    the machine implements Verdict. None of these is inductive: that a   *)
(*    step reports a check for the first time depends on what the steps    *)
(*    before it may have reported. The invariant Progress says that for    *)
(*    each step: the checks reported when it is about to run lie between   *)
(*    two fixed sets.                                                      *)
(* 2. That the result is a function of the input: each step reports what   *)
(*    its input alone decides (Answering).                                 *)
(* 3. What a presenter gains by leaving things out, for every presentation *)
(*    and every set of inputs withheld: nothing. By part 2 the checks of a *)
(*    call are those Answers gives for its input; each step's part of      *)
(*    Answers is compared for an input and for what is left of it          *)
(*    (Lowered), and the comparisons are put together, as no call names a  *)
(*    check twice.                                                         *)
(* 4. What a valid result means: a permit it vouches for is authorised, and*)
(*    a commitment it accepts narrows the governing MAT. While the result  *)
(*    is still valid, every step that has run left a fact about the input  *)
(*    behind: none of its checks failed, and a check it could not perform  *)
(*    is listed. The invariant Vouching collects these facts; none of them *)
(*    mentions the list of checks.                                         *)
(* 5. That an honest enforcement point is never refuted, for every set of  *)
(*    occasions. By part 2 it is enough that no step's part of Answers     *)
(*    fails on what an occasion presents (NothingFails): one lemma a step, *)
(*    and under them what cutting the clock to whole seconds can do.       *)
(***************************************************************************)
EXTENDS Omission, Honest, WellFoundedInduction, TLAPS

\* The checks each step may emit.
FromStructure == {"receipt_version", "decision_valid", "rationale_codes_known",
                  "controls_declared"}
FromTiming == {"timing_within_bound", "timing_self_consistent"}
FromMAT == {"mat_signature", "artifact_binding"}
FromEvidence == {"evidence_covers_obligations", "evidence_asserted_fresh"}
FromBudget == {"timing_within_authorized_bound", "policy_digest",
               "evaluation_within_validity"}
FromContext == {"context_digest", "resource_state_digest"}
FromOutcomes == {"constraint_outcomes", "decision_consistent"}
FromAuthority == {"commitment_binding", "commitment_scope"}
FromCompliance == {"compliance_commitment_check", "compliance_scope_check",
                   "compliance_boundary_check"}
FromWindows == {"commitment_temporal", "commitment_action_window"}
FromIdentity == {"agent_identity_wellformed", "agent_identity_binding"}

\* The checks that may have been reported when a step is about to run.
AtStructure == {"receipt_signature"}
AtReplay == AtStructure \cup FromStructure
AtFinal == AtReplay \cup {"replay_receipt_unseen"}
AtPoint == AtFinal \cup {"receipt_final"}
AtTiming == AtPoint \cup {"enforcement_point_binding"}
AtMAT == AtTiming \cup FromTiming
AtScope == AtMAT \cup FromMAT
AtEvidence == AtScope \cup {"scope_check"}
AtBudget == AtEvidence \cup FromEvidence
AtContext == AtBudget \cup FromBudget
AtOutcomes == AtContext \cup FromContext
AtConfirmation == AtOutcomes \cup FromOutcomes
AtChain == AtConfirmation \cup {"confirmation_link"}
AtCommitment == AtChain \cup {"chain_link"}
AtAuthority == AtCommitment \cup {"commitment_signature"}
AtCompliance == AtAuthority \cup FromAuthority
AtProvenance == AtCompliance \cup FromCompliance
AtWindows == AtProvenance \cup {"provenance_agreement"}
AtIdentity == AtWindows \cup FromWindows
AtDigest == AtIdentity \cup FromIdentity
AtInventory == AtDigest \cup {"commitment_digest"}

Between(low, high) == low \subseteq Reported /\ Reported \subseteq high

\* The commitment's own checks so far, when there is a commitment.
Authorised == OwnChecks \cup {"commitment_signature"} \cup FromAuthority

Progress ==
    /\ pc = "receipt_signature" => checks = <<>>
    /\ pc = "structure" => Between(AtStructure, AtStructure)
    /\ pc = "replay" => Between(AtReplay, AtReplay)
    /\ pc = "final" => Between(AtFinal, AtFinal)
    /\ pc = "enforcement_point" => Between(AtPoint, AtPoint)
    /\ pc = "timing" => Between(AtTiming, AtTiming)
    /\ pc = "mat" => Between(AtMAT, AtMAT)
    /\ pc = "scope" => Between(AtMAT, AtScope)
    /\ pc = "evidence" => Between(AtMAT, AtEvidence)
    /\ pc = "budget" => Between(AtMAT, AtBudget)
    /\ pc = "context" => Between(AtMAT, AtContext)
    /\ pc = "outcomes" => Between(AtMAT, AtOutcomes)
    /\ pc = "confirmation" => Between(AtMAT, AtConfirmation)
    /\ pc = "chain" => Between(OwnChecks, AtChain)
    /\ pc = "commitment" => Between(OwnChecks, AtCommitment)
    /\ pc = "authority" => Between(OwnChecks \cup {"commitment_signature"}, AtAuthority)
    /\ pc = "compliance" => Between(Authorised, AtCompliance)
    /\ pc = "provenance" => Between(Authorised, AtProvenance)
    /\ pc = "windows" => Between(Authorised, AtWindows)
    /\ pc = "identity" => Between(Authorised \cup FromWindows, AtIdentity)
    /\ pc = "commitment_digest" => Between(OwnChecks \cup CommitmentChecks, AtDigest)
    /\ pc = "inventory" => Between(OwnChecks, AtInventory)
    /\ pc = "reconcile" => Between(OwnChecks, VerifierChecks)

\* The steps before the governing MAT and before the commitment are decided.
BeforeMAT == {"receipt_signature", "structure", "replay", "final", "enforcement_point",
              "timing", "mat"}
BeforeCommitment == BeforeMAT \cup {"scope", "evidence", "budget", "context", "outcomes",
                                    "confirmation", "chain", "commitment"}
OnCommitment == {"authority", "compliance", "provenance", "windows", "identity",
                 "commitment_digest"}

\* The three parts of ClaimsMade, each answered by a step of its own.
ComplianceClaims ==
    IF rc.compliance # <<>> /\ rc.compliance[1].action # <<>> THEN FromCompliance ELSE {}
ProvenanceClaims == IF rc.provenance # <<>> THEN {"provenance_agreement"} ELSE {}
DigestClaims == IF rc.commitment_digest # <<>> THEN {"commitment_digest"} ELSE {}

\* What a supplied MAT, a supplied commitment and the claims of a receipt under a
\* commitment that verifies oblige the steps after them to have reported.
Answered ==
    /\ (pc \notin BeforeMAT \cup {"done"} /\ in.mat # <<>>) => "mat_signature" \in Reported
    /\ (pc \in {"inventory", "reconcile"} \cup OnCommitment /\ in.commitment # <<>>)
          => "commitment_signature" \in Reported
    /\ pc \in BeforeCommitment => com = <<>>
    /\ pc \in {"provenance", "windows", "identity", "commitment_digest"}
          => ComplianceClaims \subseteq Reported
    /\ pc \in {"windows", "identity", "commitment_digest"} => ProvenanceClaims \subseteq Reported
    /\ (pc \in {"inventory", "reconcile"} /\ com # <<>>)
          => CommitmentChecks \cup ClaimsMade \subseteq Reported

\* The loop: what has been reported is what the steps emitted and the part of the
\* inventory walked so far.
Walked(n) == {receiptCarriedChecks[i] : i \in 1..(n - 1)}

Reconciling ==
    /\ pc \notin {"reconcile", "done"} => next = 1
    /\ pc = "reconcile" => /\ emitted \subseteq Reported
                           /\ Reported \subseteq emitted \cup Walked(next)
                           /\ Walked(next) \subseteq Reported

\* The checks that may be appended to a result.
Emittable == {c \in CheckRecords : c.status = "not_performed"
                                      => c.name \in NotPerformedCapableChecks}

NoRepeat(s) == \A i, j \in 1..Len(s) : s[i].name = s[j].name => i = j

NoneFailed(s) == \A i \in 1..Len(s) : s[i].status # "failed"

Unperformed(s) == {s[i].name : i \in {j \in 1..Len(s) : s[j].status = "not_performed"}}

\* The summary fields agree with the checks.
Summarised == valid = NoneFailed(checks) /\ notPerformed = Unperformed(checks)

Tallied ==
    /\ checks \in Seq(Emittable)
    /\ ReportedOnce
    /\ Summarised

\* A finished call has answered by the signature alone or completely.
Finished ==
    pc = "done" =>
        \/ checks = <<Check("receipt_signature", "failed")>>
        \/ /\ OwnChecks \cup Carried \subseteq Reported
           /\ in.mat # <<>> => "mat_signature" \in Reported
           /\ in.commitment # <<>> => "commitment_signature" \in Reported
           /\ com # <<>> => CommitmentChecks \cup ClaimsMade \subseteq Reported

IInv ==
    /\ TypeOK
    /\ Tallied
    /\ Progress
    /\ Answered
    /\ Reconciling
    /\ Finished

\* The claims are the receipt's, which no step changes.
LEMMA ClaimsKept ==
    ASSUME in' = in
    PROVE  /\ ComplianceClaims' = ComplianceClaims
           /\ ProvenanceClaims' = ProvenanceClaims
           /\ ClaimsMade' = ClaimsMade
  BY DEF ComplianceClaims, ProvenanceClaims, ClaimsMade, rc

LEMMA ClaimsInParts == ClaimsMade = ComplianceClaims \cup ProvenanceClaims \cup DigestClaims
  BY DEF ClaimsMade, ComplianceClaims, ProvenanceClaims, DigestClaims, FromCompliance

------------------------------------------------------------------------------
(* Lists of checks.                                                         *)

\* A check whose status is one of the three, under a name of the catalogue that
\* may carry it, can be appended to a result.
LEMMA CheckEmittable ==
    ASSUME NEW n \in VerifierChecks, NEW st \in Statuses,
           st = "not_performed" => n \in NotPerformedCapableChecks
    PROVE  Check(n, st) \in Emittable
  BY DEF Check, Emittable, CheckRecords

\* Appending s to a result c, when they name no check in common: the names
\* add up, none is repeated and the summaries combine.
LEMMA Appending ==
    ASSUME NEW c \in Seq(Emittable), NEW s \in Seq(Emittable),
           NoRepeat(c), NoRepeat(s), NamesOf(c) \cap NamesOf(s) = {}
    PROVE  /\ c \o s \in Seq(Emittable)
           /\ NamesOf(c \o s) = NamesOf(c) \cup NamesOf(s)
           /\ NoRepeat(c \o s)
           /\ NoneFailed(c \o s) <=> (NoneFailed(c) /\ NoneFailed(s))
           /\ Unperformed(c \o s) = Unperformed(c) \cup Unperformed(s)
  <1> DEFINE t == c \o s
  <1>1. /\ t \in Seq(Emittable)
        /\ Len(c) \in Nat /\ Len(s) \in Nat /\ Len(t) = Len(c) + Len(s)
    OBVIOUS
  <1>2. \A i \in 1..Len(c) : i \in 1..Len(t) /\ t[i] = c[i]
    BY <1>1
  <1>3. \A k \in 1..Len(s) : Len(c) + k \in 1..Len(t) /\ t[Len(c) + k] = s[k]
    BY <1>1
  <1>4. \A i \in 1..Len(t) : i \in 1..Len(c) \/ \E k \in 1..Len(s) : i = Len(c) + k
    <2> SUFFICES ASSUME NEW i \in 1..Len(t), i \notin 1..Len(c)
                 PROVE  \E k \in 1..Len(s) : i = Len(c) + k
      OBVIOUS
    <2>1. i - Len(c) \in 1..Len(s) /\ i = Len(c) + (i - Len(c))
      BY <1>1
    <2> QED
      BY <2>1
  <1>5. \A i \in 1..Len(t) : \/ i \in 1..Len(c) /\ t[i] = c[i]
                             \/ \E k \in 1..Len(s) : i = Len(c) + k /\ t[i] = s[k]
    BY <1>2, <1>3, <1>4
  <1> HIDE DEF t
  <1>6. NamesOf(t) = NamesOf(c) \cup NamesOf(s)
    <2>1. \A x \in NamesOf(t) : x \in NamesOf(c) \cup NamesOf(s)
      BY <1>5 DEF NamesOf
    <2>2. \A x \in NamesOf(c) : x \in NamesOf(t)
      BY <1>2 DEF NamesOf
    <2>3. \A x \in NamesOf(s) : x \in NamesOf(t)
      BY <1>3 DEF NamesOf
    <2> QED
      BY <2>1, <2>2, <2>3
  <1>7. NoRepeat(t)
    <2> SUFFICES ASSUME NEW i \in 1..Len(t), NEW j \in 1..Len(t), t[i].name = t[j].name
                 PROVE  i = j
      BY DEF NoRepeat
    <2>1. \A x \in 1..Len(c), k \in 1..Len(s) : c[x].name # s[k].name
      BY DEF NamesOf
    <2>2. CASE i \in 1..Len(c) /\ j \in 1..Len(c)
      <3>1. c[i].name = c[j].name
        BY <1>2, <2>2
      <3> QED
        BY <2>2, <3>1 DEF NoRepeat
    <2>3. CASE i \notin 1..Len(c) /\ j \notin 1..Len(c)
      <3>1. PICK k \in 1..Len(s), l \in 1..Len(s) :
                   i = Len(c) + k /\ t[i] = s[k] /\ j = Len(c) + l /\ t[j] = s[l]
        BY <1>5, <2>3
      <3>2. s[k].name = s[l].name
        BY <3>1
      <3> QED
        BY <3>1, <3>2 DEF NoRepeat
    <2>4. CASE i \in 1..Len(c) /\ j \notin 1..Len(c)
      BY <1>2, <1>5, <2>1, <2>4
    <2>5. CASE i \notin 1..Len(c) /\ j \in 1..Len(c)
      BY <1>2, <1>5, <2>1, <2>5
    <2> QED
      BY <2>2, <2>3, <2>4, <2>5
  <1>8. NoneFailed(t) <=> (NoneFailed(c) /\ NoneFailed(s))
    <2>1. NoneFailed(t) => NoneFailed(c)
      BY <1>2 DEF NoneFailed
    <2>2. NoneFailed(t) => NoneFailed(s)
      BY <1>3 DEF NoneFailed
    <2>3. NoneFailed(c) /\ NoneFailed(s) => NoneFailed(t)
      BY <1>5 DEF NoneFailed
    <2> QED
      BY <2>1, <2>2, <2>3 DEF NoneFailed
  <1>9. Unperformed(t) = Unperformed(c) \cup Unperformed(s)
    <2>1. \A x \in Unperformed(t) : x \in Unperformed(c) \cup Unperformed(s)
      BY <1>5 DEF Unperformed
    <2>2. \A x \in Unperformed(c) : x \in Unperformed(t)
      BY <1>2 DEF Unperformed
    <2>3. \A x \in Unperformed(s) : x \in Unperformed(t)
      BY <1>3 DEF Unperformed
    <2> QED
      BY <2>1, <2>2, <2>3
  <1> QED
    BY <1>1, <1>6, <1>7, <1>8, <1>9 DEF t

\* The lists the steps append, of at most four checks.
LEMMA Nothing ==
    <<>> \in Seq(Emittable) /\ NamesOf(<<>>) = {} /\ NoRepeat(<<>>)
  BY DEF NamesOf, NoRepeat

LEMMA OneCheck ==
    ASSUME NEW a \in Emittable
    PROVE  <<a>> \in Seq(Emittable) /\ NamesOf(<<a>>) = {a.name} /\ NoRepeat(<<a>>)
  BY DEF NamesOf, NoRepeat

LEMMA TwoChecks ==
    ASSUME NEW a \in Emittable, NEW b \in Emittable, a.name # b.name
    PROVE  /\ <<a, b>> \in Seq(Emittable)
           /\ NamesOf(<<a, b>>) = {a.name, b.name}
           /\ NoRepeat(<<a, b>>)
  BY DEF NamesOf, NoRepeat

LEMMA ThreeChecks ==
    ASSUME NEW a \in Emittable, NEW b \in Emittable, NEW c \in Emittable,
           a.name # b.name, a.name # c.name, b.name # c.name
    PROVE  /\ <<a, b, c>> \in Seq(Emittable)
           /\ NamesOf(<<a, b, c>>) = {a.name, b.name, c.name}
           /\ NoRepeat(<<a, b, c>>)
  BY DEF NamesOf, NoRepeat

LEMMA FourChecks ==
    ASSUME NEW a \in Emittable, NEW b \in Emittable, NEW c \in Emittable,
           NEW d \in Emittable,
           a.name # b.name, a.name # c.name, b.name # c.name,
           a.name # d.name, b.name # d.name, c.name # d.name
    PROVE  /\ <<a, b, c, d>> \in Seq(Emittable)
           /\ NamesOf(<<a, b, c, d>>) = {a.name, b.name, c.name, d.name}
           /\ NoRepeat(<<a, b, c, d>>)
  BY DEF NamesOf, NoRepeat

------------------------------------------------------------------------------
(* The inventory.                                                           *)

\* The twelve names of the inventory, as a set and one by one.
LEMMA Twelve ==
    /\ Len(receiptCarriedChecks) = 12
    /\ receiptCarriedChecks[1] = "artifact_binding"
    /\ receiptCarriedChecks[2] = "scope_check"
    /\ receiptCarriedChecks[3] = "evidence_covers_obligations"
    /\ receiptCarriedChecks[4] = "evidence_asserted_fresh"
    /\ receiptCarriedChecks[5] = "timing_within_authorized_bound"
    /\ receiptCarriedChecks[6] = "policy_digest"
    /\ receiptCarriedChecks[7] = "evaluation_within_validity"
    /\ receiptCarriedChecks[8] = "context_digest"
    /\ receiptCarriedChecks[9] = "resource_state_digest"
    /\ receiptCarriedChecks[10] = "constraint_outcomes"
    /\ receiptCarriedChecks[11] = "decision_consistent"
    /\ receiptCarriedChecks[12] = "chain_link"
  BY DEF receiptCarriedChecks

LEMMA CarriedNames ==
    Carried = {"artifact_binding", "scope_check", "evidence_covers_obligations",
               "evidence_asserted_fresh", "timing_within_authorized_bound", "policy_digest",
               "evaluation_within_validity", "context_digest", "resource_state_digest",
               "constraint_outcomes", "decision_consistent", "chain_link"}
  <1>1. 1..12 = {1, 2, 3, 4, 5, 6, 7, 8, 9, 10, 11, 12}
    OBVIOUS
  <1> QED
    BY <1>1, Twelve DEF Carried

\* No name stands in the inventory twice.
LEMMA CarriedOnce ==
    \A i, j \in 1..12 : receiptCarriedChecks[i] = receiptCarriedChecks[j] => i = j
  <1>1. 1..12 = {1, 2, 3, 4, 5, 6, 7, 8, 9, 10, 11, 12}
    OBVIOUS
  <1> QED
    BY <1>1, Twelve

------------------------------------------------------------------------------
(* Steps.                                                                   *)

\* A step that reports new, distinct checks of the catalogue keeps the result
\* well formed and adds exactly their names.
LEMMA Stepping ==
    ASSUME IInv, NEW here \in Steps, NEW there \in Steps, NEW s \in Seq(Emittable),
           NoRepeat(s), NamesOf(s) \cap Reported = {}, Step(here, there, s)
    PROVE  /\ pc = here /\ pc' = there /\ in' = in
           /\ checks' = checks \o s
           /\ Tallied' /\ Reported' = Reported \cup NamesOf(s)
           /\ checks' \in Seq(CheckRecords) /\ valid' \in BOOLEAN
           /\ notPerformed' \subseteq VerifierChecks
  <1>1. /\ pc = here /\ pc' = there /\ in' = in
        /\ checks' = checks \o s
        /\ valid' = (valid /\ NoneFailed(s))
        /\ notPerformed' = notPerformed \cup Unperformed(s)
    BY DEF Step, Report, NoneFailed, Unperformed
  <1>2. /\ checks \in Seq(Emittable) /\ NoRepeat(checks)
        /\ valid = NoneFailed(checks) /\ notPerformed = Unperformed(checks)
    BY DEF IInv, Tallied, ReportedOnce, NoRepeat, Summarised
  <1>3. /\ checks \o s \in Seq(Emittable)
        /\ NamesOf(checks \o s) = Reported \cup NamesOf(s)
        /\ NoRepeat(checks \o s)
        /\ NoneFailed(checks \o s) <=> (NoneFailed(checks) /\ NoneFailed(s))
        /\ Unperformed(checks \o s) = Unperformed(checks) \cup Unperformed(s)
    BY <1>2, Appending DEF Reported
  <1>4. /\ checks' \in Seq(Emittable)
        /\ Reported' = Reported \cup NamesOf(s)
        /\ ReportedOnce'
    BY <1>1, <1>3, Zenon DEF Reported, ReportedOnce, NoRepeat, NamesOf
  <1>5. valid' = NoneFailed(checks') /\ valid' \in BOOLEAN
    BY <1>1, <1>2, <1>3, Zenon DEF NoneFailed
  <1>6. notPerformed' = Unperformed(checks')
    BY <1>1, <1>2, <1>3
  <1>7. checks' \in Seq(CheckRecords)
    BY <1>4 DEF Emittable
  <1>8. notPerformed' \subseteq VerifierChecks
    BY <1>4, <1>6 DEF Unperformed, Emittable, CheckRecords
  <1>9. Summarised'
    BY <1>5, <1>6, Zenon DEF Summarised, NoneFailed, Unperformed
  <1> QED
    BY <1>1, <1>4, <1>5, <1>7, <1>8, <1>9 DEF Tallied

\* A step that leaves the artifacts and the loop alone also keeps the types.
LEMMA PlainStepping ==
    ASSUME IInv, NEW here \in Steps, NEW there \in Steps, NEW s \in Seq(Emittable),
           NoRepeat(s), NamesOf(s) \cap Reported = {}, Step(here, there, s),
           UNCHANGED <<mat, com, emitted, next>>
    PROVE  /\ pc' = there
           /\ UNCHANGED <<in, mat, com, emitted, next>>
           /\ TypeOK' /\ Tallied' /\ Reported' = Reported \cup NamesOf(s)
  <1>1. /\ pc' = there /\ in' = in
        /\ Tallied' /\ Reported' = Reported \cup NamesOf(s)
        /\ checks' \in Seq(CheckRecords) /\ valid' \in BOOLEAN
        /\ notPerformed' \subseteq VerifierChecks
    BY Stepping
  <1>2. TypeOK'
    BY <1>1 DEF IInv, TypeOK
  <1> QED
    BY <1>1, <1>2

------------------------------------------------------------------------------
(* The invariant, action by action.                                         *)

LEMMA StructureInv == ASSUME IInv, Structure PROVE IInv'
  <1> DEFINE a == PassIf(rc.version = ProtocolVersion)
             b == PassIf(rc.decision \in Decisions)
             c == PassIf(RationaleCodesKnown(rc))
             d == PassIf(ControlsDeclared(rc))
             s == <<Check("receipt_version", a),
                    Check("decision_valid", b),
                    Check("rationale_codes_known", c),
                    Check("controls_declared", d)>>
  <1>1. {a, b, c, d} \subseteq {"passed", "failed"}
    BY DEF PassIf
  <1>2. Step("structure", "replay", s) /\ UNCHANGED <<mat, com, emitted, next>>
    BY DEF Structure, PlainStep
  <1> HIDE DEF a, b, c, d
  <1>3. {Check("receipt_version", a),
         Check("decision_valid", b),
         Check("rationale_codes_known", c),
         Check("controls_declared", d)} \subseteq Emittable
    BY <1>1, CheckEmittable, CarriedNames DEF Statuses, VerifierChecks, OwnChecks,
       CommitmentChecks, ClaimChecks, NotPerformedCapableChecks
  <1>5. s \in Seq(Emittable) /\ NoRepeat(s) /\ NamesOf(s) = FromStructure
    BY <1>3, FourChecks DEF Check, FromStructure
  <1> HIDE DEF s
  <1>6. pc = "structure" /\ Between(AtStructure, AtStructure)
    BY <1>2 DEF Step, IInv, Progress
  <1>7. NamesOf(s) \cap Reported = {}
    BY <1>5, <1>6 DEF Between, AtStructure, FromStructure
  <1>8. /\ pc' = "replay" /\ TypeOK' /\ Tallied'
        /\ UNCHANGED <<in, mat, com, emitted, next>>
        /\ Reported' = Reported \cup NamesOf(s)
    BY <1>2, <1>5, <1>7, PlainStepping DEF Steps
  <1>9. Between(AtReplay, AtReplay)'
    BY <1>5, <1>6, <1>8 DEF Between, AtReplay
  <1>10. Progress'
    BY <1>8, <1>9 DEF Progress
  <1>11. Answered' /\ Reconciling' /\ Finished'
    BY <1>6, <1>8 DEF IInv, Answered, Reconciling, Finished, BeforeMAT, BeforeCommitment,
       OnCommitment
  <1> QED
    BY <1>8, <1>10, <1>11 DEF IInv

LEMMA ReplayUnseenInv == ASSUME IInv, ReplayUnseen PROVE IInv'
  <1> DEFINE a == Judge(in.replay # <<>>, Digest(rc) \notin in.replay[1])
             s == <<Check("replay_receipt_unseen", a)>>
  <1>1. {a} \subseteq Statuses
    BY DEF PassIf, Judge, Statuses
  <1>2. Step("replay", "final", s) /\ UNCHANGED <<mat, com, emitted, next>>
    BY DEF ReplayUnseen, PlainStep
  <1> HIDE DEF a
  <1>3. {Check("replay_receipt_unseen", a)} \subseteq Emittable
    BY <1>1, CheckEmittable, CarriedNames DEF Statuses, VerifierChecks, OwnChecks,
       CommitmentChecks, ClaimChecks, NotPerformedCapableChecks
  <1>5. s \in Seq(Emittable) /\ NoRepeat(s) /\ NamesOf(s) = {"replay_receipt_unseen"}
    BY <1>3, OneCheck DEF Check
  <1> HIDE DEF s
  <1>6. pc = "replay" /\ Between(AtReplay, AtReplay)
    BY <1>2 DEF Step, IInv, Progress
  <1>7. NamesOf(s) \cap Reported = {}
    BY <1>5, <1>6 DEF Between, AtStructure, AtReplay, FromStructure
  <1>8. /\ pc' = "final" /\ TypeOK' /\ Tallied'
        /\ UNCHANGED <<in, mat, com, emitted, next>>
        /\ Reported' = Reported \cup NamesOf(s)
    BY <1>2, <1>5, <1>7, PlainStepping DEF Steps
  <1>9. Between(AtFinal, AtFinal)'
    BY <1>5, <1>6, <1>8 DEF Between, AtFinal
  <1>10. Progress'
    BY <1>8, <1>9 DEF Progress
  <1>11. Answered' /\ Reconciling' /\ Finished'
    BY <1>6, <1>8 DEF IInv, Answered, Reconciling, Finished, BeforeMAT, BeforeCommitment,
       OnCommitment
  <1> QED
    BY <1>8, <1>10, <1>11 DEF IInv

LEMMA ReceiptFinalInv == ASSUME IInv, ReceiptFinal PROVE IInv'
  <1> DEFINE a == PassIf(~rc.speculative)
             s == <<Check("receipt_final", a)>>
  <1>1. {a} \subseteq {"passed", "failed"}
    BY DEF PassIf
  <1>2. Step("final", "enforcement_point", s) /\ UNCHANGED <<mat, com, emitted, next>>
    BY DEF ReceiptFinal
  <1> HIDE DEF a
  <1>3. {Check("receipt_final", a)} \subseteq Emittable
    BY <1>1, CheckEmittable, CarriedNames DEF Statuses, VerifierChecks, OwnChecks,
       CommitmentChecks, ClaimChecks, NotPerformedCapableChecks
  <1>5. s \in Seq(Emittable) /\ NoRepeat(s) /\ NamesOf(s) = {"receipt_final"}
    BY <1>3, OneCheck DEF Check
  <1> HIDE DEF s
  <1>6. pc = "final" /\ Between(AtFinal, AtFinal)
    BY <1>2 DEF Step, IInv, Progress
  <1>7. NamesOf(s) \cap Reported = {}
    BY <1>5, <1>6 DEF Between, AtStructure, AtReplay, FromStructure, AtFinal
  <1>8. /\ pc' = "enforcement_point" /\ TypeOK' /\ Tallied'
        /\ UNCHANGED <<in, mat, com, emitted, next>>
        /\ Reported' = Reported \cup NamesOf(s)
    BY <1>2, <1>5, <1>7, PlainStepping DEF Steps
  <1>9. Between(AtPoint, AtPoint)'
    BY <1>5, <1>6, <1>8 DEF Between, AtPoint
  <1>10. Progress'
    BY <1>8, <1>9 DEF Progress
  <1>11. Answered' /\ Reconciling' /\ Finished'
    BY <1>6, <1>8 DEF IInv, Answered, Reconciling, Finished, BeforeMAT, BeforeCommitment,
       OnCommitment
  <1> QED
    BY <1>8, <1>10, <1>11 DEF IInv

LEMMA EnforcementPointInv == ASSUME IInv, EnforcementPoint PROVE IInv'
  <1> DEFINE a == EnforcementPointBinding(rc, in.receipt.kid, SubjectOf(Anchors, in.receipt.kid))
             s == <<Check("enforcement_point_binding", a)>>
  <1>1. {a} \subseteq Statuses
    BY DEF PassIf, Judge, Statuses, EnforcementPointBinding
  <1>2. Step("enforcement_point", "timing", s) /\ UNCHANGED <<mat, com, emitted, next>>
    BY DEF EnforcementPoint, PlainStep
  <1> HIDE DEF a
  <1>3. {Check("enforcement_point_binding", a)} \subseteq Emittable
    BY <1>1, CheckEmittable, CarriedNames DEF Statuses, VerifierChecks, OwnChecks,
       CommitmentChecks, ClaimChecks, NotPerformedCapableChecks
  <1>5. s \in Seq(Emittable) /\ NoRepeat(s) /\ NamesOf(s) = {"enforcement_point_binding"}
    BY <1>3, OneCheck DEF Check
  <1> HIDE DEF s
  <1>6. pc = "enforcement_point" /\ Between(AtPoint, AtPoint)
    BY <1>2 DEF Step, IInv, Progress
  <1>7. NamesOf(s) \cap Reported = {}
    BY <1>5, <1>6 DEF Between, AtStructure, AtReplay, FromStructure, AtFinal, AtPoint
  <1>8. /\ pc' = "timing" /\ TypeOK' /\ Tallied'
        /\ UNCHANGED <<in, mat, com, emitted, next>>
        /\ Reported' = Reported \cup NamesOf(s)
    BY <1>2, <1>5, <1>7, PlainStepping DEF Steps
  <1>9. Between(AtTiming, AtTiming)'
    BY <1>5, <1>6, <1>8 DEF Between, AtTiming
  <1>10. Progress'
    BY <1>8, <1>9 DEF Progress
  <1>11. Answered' /\ Reconciling' /\ Finished'
    BY <1>6, <1>8 DEF IInv, Answered, Reconciling, Finished, BeforeMAT, BeforeCommitment,
       OnCommitment
  <1> QED
    BY <1>8, <1>10, <1>11 DEF IInv

LEMMA SelfTimingInv == ASSUME IInv, SelfTiming PROVE IInv'
  <1> DEFINE a == PassIf(TimingWithinBound(rc))
             b == timingSelfConsistent(rc)
             s == <<Check("timing_within_bound", a),
                    Check("timing_self_consistent", b)>>
  <1>1. {a} \subseteq {"passed", "failed"} /\ {b} \subseteq Statuses
    BY DEF PassIf, Judge, Statuses, timingSelfConsistent
  <1>2. Step("timing", "mat", s) /\ UNCHANGED <<mat, com, emitted, next>>
    BY DEF SelfTiming, PlainStep
  <1> HIDE DEF a, b
  <1>3. {Check("timing_within_bound", a),
         Check("timing_self_consistent", b)} \subseteq Emittable
    BY <1>1, CheckEmittable, CarriedNames DEF Statuses, VerifierChecks, OwnChecks,
       CommitmentChecks, ClaimChecks, NotPerformedCapableChecks
  <1>5. s \in Seq(Emittable) /\ NoRepeat(s) /\ NamesOf(s) = FromTiming
    BY <1>3, TwoChecks DEF Check, FromTiming
  <1> HIDE DEF s
  <1>6. pc = "timing" /\ Between(AtTiming, AtTiming)
    BY <1>2 DEF Step, IInv, Progress
  <1>7. NamesOf(s) \cap Reported = {}
    BY <1>5, <1>6 DEF Between, AtStructure, AtReplay, FromStructure, AtFinal, AtPoint, AtTiming, FromTiming
  <1>8. /\ pc' = "mat" /\ TypeOK' /\ Tallied'
        /\ UNCHANGED <<in, mat, com, emitted, next>>
        /\ Reported' = Reported \cup NamesOf(s)
    BY <1>2, <1>5, <1>7, PlainStepping DEF Steps
  <1>9. Between(AtMAT, AtMAT)'
    BY <1>5, <1>6, <1>8 DEF Between, AtMAT
  <1>10. Progress'
    BY <1>8, <1>9 DEF Progress
  <1>11. Answered' /\ Reconciling' /\ Finished'
    BY <1>6, <1>8 DEF IInv, Answered, Reconciling, Finished, BeforeMAT, BeforeCommitment,
       OnCommitment
  <1> QED
    BY <1>8, <1>10, <1>11 DEF IInv

LEMMA ScopeCheckInv == ASSUME IInv, ScopeCheck PROVE IInv'
  <1> DEFINE a == ScopeStatus(rc, mat[1])
             emits == <<Check("scope_check", a)>>
             s == IF mat = <<>> THEN <<>> ELSE emits
  <1>1. {a} \subseteq Statuses
    BY DEF PassIf, Judge, Statuses, ScopeStatus
  <1>2. Step("scope", "evidence", s) /\ UNCHANGED <<mat, com, emitted, next>>
    BY DEF ScopeCheck, PlainStep, IfMAT
  <1> HIDE DEF a
  <1>3. {Check("scope_check", a)} \subseteq Emittable
    BY <1>1, CheckEmittable, CarriedNames DEF Statuses, VerifierChecks, OwnChecks,
       CommitmentChecks, ClaimChecks, NotPerformedCapableChecks
  <1>4. emits \in Seq(Emittable) /\ NoRepeat(emits) /\ NamesOf(emits) = {"scope_check"}
    BY <1>3, OneCheck DEF Check
  <1> HIDE DEF emits
  <1>5. s \in Seq(Emittable) /\ NoRepeat(s) /\ NamesOf(s) \in {{}, {"scope_check"}}
    BY <1>4, Nothing
  <1> HIDE DEF s
  <1>6. pc = "scope" /\ Between(AtMAT, AtScope)
    BY <1>2 DEF Step, IInv, Progress
  <1>7. NamesOf(s) \cap Reported = {}
    BY <1>5, <1>6 DEF Between, AtStructure, AtReplay, FromStructure, AtFinal, AtPoint, AtTiming, AtMAT,
       FromTiming, AtScope, FromMAT
  <1>8. /\ pc' = "evidence" /\ TypeOK' /\ Tallied'
        /\ UNCHANGED <<in, mat, com, emitted, next>>
        /\ Reported' = Reported \cup NamesOf(s)
    BY <1>2, <1>5, <1>7, PlainStepping DEF Steps
  <1>9. Between(AtMAT, AtEvidence)'
    BY <1>5, <1>6, <1>8 DEF Between, AtEvidence, AtMAT
  <1>10. Progress'
    BY <1>8, <1>9 DEF Progress
  <1>11. Answered' /\ Reconciling' /\ Finished'
    BY <1>6, <1>8 DEF IInv, Answered, Reconciling, Finished, BeforeMAT, BeforeCommitment,
       OnCommitment
  <1> QED
    BY <1>8, <1>10, <1>11 DEF IInv

LEMMA EvidenceInv == ASSUME IInv, Evidence PROVE IInv'
  <1> DEFINE a == EvidenceCovers(rc, mat[1])
             b == EvidenceFresh(rc, mat[1])
             emits == <<Check("evidence_covers_obligations", a),
                        Check("evidence_asserted_fresh", b)>>
             s == IF mat = <<>> \/ mat[1].proof_obligations = <<>> THEN <<>> ELSE emits
  <1>1. {a, b} \subseteq Statuses
    BY DEF PassIf, Judge, Statuses, EvidenceCovers, EvidenceFresh
  <1>2. Step("evidence", "budget", s) /\ UNCHANGED <<mat, com, emitted, next>>
    BY DEF Evidence, PlainStep
  <1> HIDE DEF a, b
  <1>3. {Check("evidence_covers_obligations", a),
         Check("evidence_asserted_fresh", b)} \subseteq Emittable
    BY <1>1, CheckEmittable, CarriedNames DEF Statuses, VerifierChecks, OwnChecks,
       CommitmentChecks, ClaimChecks, NotPerformedCapableChecks
  <1>4. emits \in Seq(Emittable) /\ NoRepeat(emits) /\ NamesOf(emits) = FromEvidence
    BY <1>3, TwoChecks DEF Check, FromEvidence
  <1> HIDE DEF emits
  <1>5. s \in Seq(Emittable) /\ NoRepeat(s) /\ NamesOf(s) \in {{}, FromEvidence}
    BY <1>4, Nothing
  <1> HIDE DEF s
  <1>6. pc = "evidence" /\ Between(AtMAT, AtEvidence)
    BY <1>2 DEF Step, IInv, Progress
  <1>7. NamesOf(s) \cap Reported = {}
    BY <1>5, <1>6 DEF Between, AtStructure, AtReplay, FromStructure, AtFinal, AtPoint, AtTiming, AtMAT,
       FromTiming, AtScope, FromMAT, AtEvidence, FromEvidence
  <1>8. /\ pc' = "budget" /\ TypeOK' /\ Tallied'
        /\ UNCHANGED <<in, mat, com, emitted, next>>
        /\ Reported' = Reported \cup NamesOf(s)
    BY <1>2, <1>5, <1>7, PlainStepping DEF Steps
  <1>9. Between(AtMAT, AtBudget)'
    BY <1>5, <1>6, <1>8 DEF Between, AtBudget, AtMAT
  <1>10. Progress'
    BY <1>8, <1>9 DEF Progress
  <1>11. Answered' /\ Reconciling' /\ Finished'
    BY <1>6, <1>8 DEF IInv, Answered, Reconciling, Finished, BeforeMAT, BeforeCommitment,
       OnCommitment
  <1> QED
    BY <1>8, <1>10, <1>11 DEF IInv

LEMMA AuthorizedBudgetInv == ASSUME IInv, AuthorizedBudget PROVE IInv'
  <1> DEFINE a == AuthorizedTiming(rc, mat[1])
             b == PolicyDigest(rc, mat[1])
             c == withinWindow(rc.start, mat[1].not_before, mat[1].not_after)
             emits == <<Check("timing_within_authorized_bound", a),
                        Check("policy_digest", b),
                        Check("evaluation_within_validity", c)>>
             s == IF mat = <<>> THEN <<>> ELSE emits
  <1>1. {a, b, c} \subseteq Statuses
    BY DEF PassIf, Judge, Statuses, AuthorizedTiming, PolicyDigest, withinWindow
  <1>2. Step("budget", "context", s) /\ UNCHANGED <<mat, com, emitted, next>>
    BY DEF AuthorizedBudget, PlainStep, IfMAT
  <1> HIDE DEF a, b, c
  <1>3. {Check("timing_within_authorized_bound", a),
         Check("policy_digest", b),
         Check("evaluation_within_validity", c)} \subseteq Emittable
    BY <1>1, CheckEmittable, CarriedNames DEF Statuses, VerifierChecks, OwnChecks,
       CommitmentChecks, ClaimChecks, NotPerformedCapableChecks
  <1>4. emits \in Seq(Emittable) /\ NoRepeat(emits) /\ NamesOf(emits) = FromBudget
    BY <1>3, ThreeChecks DEF Check, FromBudget
  <1> HIDE DEF emits
  <1>5. s \in Seq(Emittable) /\ NoRepeat(s) /\ NamesOf(s) \in {{}, FromBudget}
    BY <1>4, Nothing
  <1> HIDE DEF s
  <1>6. pc = "budget" /\ Between(AtMAT, AtBudget)
    BY <1>2 DEF Step, IInv, Progress
  <1>7. NamesOf(s) \cap Reported = {}
    BY <1>5, <1>6 DEF Between, AtStructure, AtReplay, FromStructure, AtFinal, AtPoint, AtTiming, AtMAT,
       FromTiming, AtScope, FromMAT, AtEvidence, AtBudget, FromEvidence, FromBudget
  <1>8. /\ pc' = "context" /\ TypeOK' /\ Tallied'
        /\ UNCHANGED <<in, mat, com, emitted, next>>
        /\ Reported' = Reported \cup NamesOf(s)
    BY <1>2, <1>5, <1>7, PlainStepping DEF Steps
  <1>9. Between(AtMAT, AtContext)'
    BY <1>5, <1>6, <1>8 DEF Between, AtContext, AtMAT
  <1>10. Progress'
    BY <1>8, <1>9 DEF Progress
  <1>11. Answered' /\ Reconciling' /\ Finished'
    BY <1>6, <1>8 DEF IInv, Answered, Reconciling, Finished, BeforeMAT, BeforeCommitment,
       OnCommitment
  <1> QED
    BY <1>8, <1>10, <1>11 DEF IInv

LEMMA ContextInv == ASSUME IInv, Context PROVE IInv'
  <1> DEFINE a == PassIf(rc.context_digest = Digest(in.context[1]))
             b == ResourceStateDigest(rc, in.context[1])
             emits == <<Check("context_digest", a),
                        Check("resource_state_digest", b)>>
             s == IF in.context = <<>> THEN <<>> ELSE emits
  <1>1. {a} \subseteq {"passed", "failed"} /\ {b} \subseteq Statuses
    BY DEF PassIf, Judge, Statuses, ResourceStateDigest
  <1>2. Step("context", "outcomes", s) /\ UNCHANGED <<mat, com, emitted, next>>
    BY DEF Context, PlainStep
  <1> HIDE DEF a, b
  <1>3. {Check("context_digest", a),
         Check("resource_state_digest", b)} \subseteq Emittable
    BY <1>1, CheckEmittable, CarriedNames DEF Statuses, VerifierChecks, OwnChecks,
       CommitmentChecks, ClaimChecks, NotPerformedCapableChecks
  <1>4. emits \in Seq(Emittable) /\ NoRepeat(emits) /\ NamesOf(emits) = FromContext
    BY <1>3, TwoChecks DEF Check, FromContext
  <1> HIDE DEF emits
  <1>5. s \in Seq(Emittable) /\ NoRepeat(s) /\ NamesOf(s) \in {{}, FromContext}
    BY <1>4, Nothing
  <1> HIDE DEF s
  <1>6. pc = "context" /\ Between(AtMAT, AtContext)
    BY <1>2 DEF Step, IInv, Progress
  <1>7. NamesOf(s) \cap Reported = {}
    BY <1>5, <1>6 DEF Between, AtStructure, AtReplay, FromStructure, AtFinal, AtPoint, AtTiming, AtMAT,
       FromTiming, AtScope, FromMAT, AtEvidence, AtBudget, FromEvidence,
       AtContext, FromBudget, FromContext
  <1>8. /\ pc' = "outcomes" /\ TypeOK' /\ Tallied'
        /\ UNCHANGED <<in, mat, com, emitted, next>>
        /\ Reported' = Reported \cup NamesOf(s)
    BY <1>2, <1>5, <1>7, PlainStepping DEF Steps
  <1>9. Between(AtMAT, AtOutcomes)'
    BY <1>5, <1>6, <1>8 DEF Between, AtOutcomes, AtMAT
  <1>10. Progress'
    BY <1>8, <1>9 DEF Progress
  <1>11. Answered' /\ Reconciling' /\ Finished'
    BY <1>6, <1>8 DEF IInv, Answered, Reconciling, Finished, BeforeMAT, BeforeCommitment,
       OnCommitment
  <1> QED
    BY <1>8, <1>10, <1>11 DEF IInv

LEMMA OutcomesInv == ASSUME IInv, Outcomes PROVE IInv'
  <1> DEFINE a == recomputeOutcomes(mat[1], in.context[1], rc)
             b == PassIf(decisionConsistent(mat[1], in.context[1], rc))
             emits == <<Check("constraint_outcomes", a),
                        Check("decision_consistent", b)>>
             s == IF in.context = <<>> \/ mat = <<>> THEN <<>> ELSE emits
  <1>1. {b} \subseteq {"passed", "failed"} /\ {a} \subseteq Statuses
    BY DEF PassIf, Judge, Statuses, recomputeOutcomes
  <1>2. Step("outcomes", "confirmation", s) /\ UNCHANGED <<mat, com, emitted, next>>
    BY DEF Outcomes, PlainStep
  <1> HIDE DEF a, b
  <1>3. {Check("constraint_outcomes", a),
         Check("decision_consistent", b)} \subseteq Emittable
    BY <1>1, CheckEmittable, CarriedNames DEF Statuses, VerifierChecks, OwnChecks,
       CommitmentChecks, ClaimChecks, NotPerformedCapableChecks
  <1>4. emits \in Seq(Emittable) /\ NoRepeat(emits) /\ NamesOf(emits) = FromOutcomes
    BY <1>3, TwoChecks DEF Check, FromOutcomes
  <1> HIDE DEF emits
  <1>5. s \in Seq(Emittable) /\ NoRepeat(s) /\ NamesOf(s) \in {{}, FromOutcomes}
    BY <1>4, Nothing
  <1> HIDE DEF s
  <1>6. pc = "outcomes" /\ Between(AtMAT, AtOutcomes)
    BY <1>2 DEF Step, IInv, Progress
  <1>7. NamesOf(s) \cap Reported = {}
    BY <1>5, <1>6 DEF Between, AtStructure, AtReplay, FromStructure, AtFinal, AtPoint, AtTiming, AtMAT,
       FromTiming, AtScope, FromMAT, AtEvidence, AtBudget, FromEvidence,
       AtContext, FromBudget, AtOutcomes, FromContext, FromOutcomes
  <1>8. /\ pc' = "confirmation" /\ TypeOK' /\ Tallied'
        /\ UNCHANGED <<in, mat, com, emitted, next>>
        /\ Reported' = Reported \cup NamesOf(s)
    BY <1>2, <1>5, <1>7, PlainStepping DEF Steps
  <1>9. Between(AtMAT, AtConfirmation)'
    BY <1>5, <1>6, <1>8 DEF Between, AtConfirmation, AtMAT
  <1>10. Progress'
    BY <1>8, <1>9 DEF Progress
  <1>11. Answered' /\ Reconciling' /\ Finished'
    BY <1>6, <1>8 DEF IInv, Answered, Reconciling, Finished, BeforeMAT, BeforeCommitment,
       OnCommitment
  <1> QED
    BY <1>8, <1>10, <1>11 DEF IInv

LEMMA ConfirmationInv == ASSUME IInv, Confirmation PROVE IInv'
  <1> DEFINE a == ConfirmationLink(rc, in.confirmed)
             s == <<Check("confirmation_link", a)>>
  <1>1. {a} \subseteq Statuses
    BY DEF PassIf, Judge, Statuses, ConfirmationLink
  <1>2. Step("confirmation", "chain", s) /\ UNCHANGED <<mat, com, emitted, next>>
    BY DEF Confirmation, PlainStep
  <1> HIDE DEF a
  <1>3. {Check("confirmation_link", a)} \subseteq Emittable
    BY <1>1, CheckEmittable, CarriedNames DEF Statuses, VerifierChecks, OwnChecks,
       CommitmentChecks, ClaimChecks, NotPerformedCapableChecks
  <1>5. s \in Seq(Emittable) /\ NoRepeat(s) /\ NamesOf(s) = {"confirmation_link"}
    BY <1>3, OneCheck DEF Check
  <1> HIDE DEF s
  <1>6. pc = "confirmation" /\ Between(AtMAT, AtConfirmation)
    BY <1>2 DEF Step, IInv, Progress
  <1>7. NamesOf(s) \cap Reported = {}
    BY <1>5, <1>6 DEF Between, AtStructure, AtReplay, FromStructure, AtFinal, AtPoint, AtTiming, AtMAT,
       FromTiming, AtScope, FromMAT, AtEvidence, AtBudget, FromEvidence,
       AtContext, FromBudget, AtOutcomes, FromContext, AtConfirmation,
       FromOutcomes
  <1>8. /\ pc' = "chain" /\ TypeOK' /\ Tallied'
        /\ UNCHANGED <<in, mat, com, emitted, next>>
        /\ Reported' = Reported \cup NamesOf(s)
    BY <1>2, <1>5, <1>7, PlainStepping DEF Steps
  <1>9. Between(OwnChecks, AtChain)'
    BY <1>5, <1>6, <1>8 DEF Between, AtChain, OwnChecks, AtStructure, AtReplay, FromStructure, AtFinal, AtPoint,
       AtTiming, AtMAT, FromTiming
  <1>10. Progress'
    BY <1>8, <1>9 DEF Progress
  <1>11. Answered' /\ Reconciling' /\ Finished'
    BY <1>6, <1>8 DEF IInv, Answered, Reconciling, Finished, BeforeMAT, BeforeCommitment,
       OnCommitment
  <1> QED
    BY <1>8, <1>10, <1>11 DEF IInv

LEMMA ChainInv == ASSUME IInv, Chain PROVE IInv'
  <1> DEFINE a == PassIf(ChainLink(rc, in.prior[1]))
             emits == <<Check("chain_link", a)>>
             s == IF in.prior = <<>> THEN <<>> ELSE emits
  <1>1. {a} \subseteq {"passed", "failed"}
    BY DEF PassIf
  <1>2. Step("chain", "commitment", s) /\ UNCHANGED <<mat, com, emitted, next>>
    BY DEF Chain, PlainStep
  <1> HIDE DEF a
  <1>3. {Check("chain_link", a)} \subseteq Emittable
    BY <1>1, CheckEmittable, CarriedNames DEF Statuses, VerifierChecks, OwnChecks,
       CommitmentChecks, ClaimChecks, NotPerformedCapableChecks
  <1>4. emits \in Seq(Emittable) /\ NoRepeat(emits) /\ NamesOf(emits) = {"chain_link"}
    BY <1>3, OneCheck DEF Check
  <1> HIDE DEF emits
  <1>5. s \in Seq(Emittable) /\ NoRepeat(s) /\ NamesOf(s) \in {{}, {"chain_link"}}
    BY <1>4, Nothing
  <1> HIDE DEF s
  <1>6. pc = "chain" /\ Between(OwnChecks, AtChain)
    BY <1>2 DEF Step, IInv, Progress
  <1>7. NamesOf(s) \cap Reported = {}
    BY <1>5, <1>6 DEF Between, AtStructure, AtReplay, FromStructure, AtFinal, AtPoint, AtTiming, AtMAT,
       FromTiming, AtScope, FromMAT, AtEvidence, AtBudget, FromEvidence,
       AtContext, FromBudget, AtOutcomes, FromContext, AtConfirmation,
       FromOutcomes, AtChain
  <1>8. /\ pc' = "commitment" /\ TypeOK' /\ Tallied'
        /\ UNCHANGED <<in, mat, com, emitted, next>>
        /\ Reported' = Reported \cup NamesOf(s)
    BY <1>2, <1>5, <1>7, PlainStepping DEF Steps
  <1>9. Between(OwnChecks, AtCommitment)'
    BY <1>5, <1>6, <1>8 DEF Between, AtCommitment
  <1>10. Progress'
    BY <1>8, <1>9 DEF Progress
  <1>11. Answered' /\ Reconciling' /\ Finished'
    BY <1>6, <1>8 DEF IInv, Answered, Reconciling, Finished, BeforeMAT, BeforeCommitment,
       OnCommitment
  <1> QED
    BY <1>8, <1>10, <1>11 DEF IInv

LEMMA AuthorityInv == ASSUME IInv, Authority PROVE IInv'
  <1> DEFINE a == Judge(mat # <<>>, VerifyBinding(com[1], mat[1]))
             b == Judge(mat # <<>>, CommitmentScope(rc, com[1], mat[1]))
             s == <<Check("commitment_binding", a),
                    Check("commitment_scope", b)>>
  <1>1. {a, b} \subseteq Statuses
    BY DEF PassIf, Judge, Statuses
  <1>2. Step("authority", "compliance", s) /\ UNCHANGED <<mat, com, emitted, next>>
    BY DEF Authority, PlainStep
  <1> HIDE DEF a, b
  <1>3. {Check("commitment_binding", a),
         Check("commitment_scope", b)} \subseteq Emittable
    BY <1>1, CheckEmittable, CarriedNames DEF Statuses, VerifierChecks, OwnChecks,
       CommitmentChecks, ClaimChecks, NotPerformedCapableChecks
  <1>5. s \in Seq(Emittable) /\ NoRepeat(s) /\ NamesOf(s) = FromAuthority
    BY <1>3, TwoChecks DEF Check, FromAuthority
  <1> HIDE DEF s
  <1>6. pc = "authority" /\ Between(OwnChecks \cup {"commitment_signature"}, AtAuthority)
    BY <1>2 DEF Step, IInv, Progress
  <1>7. NamesOf(s) \cap Reported = {}
    BY <1>5, <1>6 DEF Between, AtStructure, AtReplay, FromStructure, AtFinal, AtPoint, AtTiming, AtMAT,
       FromTiming, AtScope, FromMAT, AtEvidence, AtBudget, FromEvidence,
       AtContext, FromBudget, AtOutcomes, FromContext, AtConfirmation,
       FromOutcomes, AtChain, AtCommitment, AtAuthority, FromAuthority
  <1>8. /\ pc' = "compliance" /\ TypeOK' /\ Tallied'
        /\ UNCHANGED <<in, mat, com, emitted, next>>
        /\ Reported' = Reported \cup NamesOf(s)
    BY <1>2, <1>5, <1>7, PlainStepping DEF Steps
  <1>9. Between(Authorised, AtCompliance)'
    BY <1>5, <1>6, <1>8 DEF Between, AtCompliance, Authorised
  <1>10. Progress'
    BY <1>8, <1>9 DEF Progress
  <1>11. Answered' /\ Reconciling' /\ Finished'
    BY <1>6, <1>8 DEF IInv, Answered, Reconciling, Finished, BeforeMAT, BeforeCommitment,
       OnCommitment
  <1> QED
    BY <1>8, <1>10, <1>11 DEF IInv

LEMMA ComplianceInv == ASSUME IInv, Compliance PROVE IInv'
  <1> DEFINE a == PassIf(rc.compliance[1].commitment_check
                         = DeclaresAction(com[1], rc.compliance[1].action))
             b == Judge(mat # <<>>,
                        rc.compliance[1].scope_check
                            = CoversOperation(mat[1], rc.compliance[1].action, <<>>))
             c == Judge(mat # <<>>,
                        rc.compliance[1].boundary_check
                            = (rc.compliance[1].action \notin mat[1].boundary.exclusions))
             emits == <<Check("compliance_commitment_check", a),
                        Check("compliance_scope_check", b),
                        Check("compliance_boundary_check", c)>>
             s == IF rc.compliance = <<>> \/ rc.compliance[1].action = <<>> THEN <<>> ELSE emits
  <1>1. {a} \subseteq {"passed", "failed"} /\ {b, c} \subseteq Statuses
    BY DEF PassIf, Judge, Statuses
  <1>2. Step("compliance", "provenance", s) /\ UNCHANGED <<mat, com, emitted, next>>
    BY DEF Compliance, PlainStep
  <1> HIDE DEF a, b, c
  <1>3. {Check("compliance_commitment_check", a),
         Check("compliance_scope_check", b),
         Check("compliance_boundary_check", c)} \subseteq Emittable
    BY <1>1, CheckEmittable, CarriedNames DEF Statuses, VerifierChecks, OwnChecks,
       CommitmentChecks, ClaimChecks, NotPerformedCapableChecks
  <1>4. emits \in Seq(Emittable) /\ NoRepeat(emits) /\ NamesOf(emits) = FromCompliance
    BY <1>3, ThreeChecks DEF Check, FromCompliance
  <1> HIDE DEF emits
  <1>5. s \in Seq(Emittable) /\ NoRepeat(s) /\ NamesOf(s) \in {{}, FromCompliance}
    BY <1>4, Nothing
  <1>12. ComplianceClaims \subseteq NamesOf(s)
    BY <1>4, Nothing DEF ComplianceClaims
  <1> HIDE DEF s
  <1>6. pc = "compliance" /\ Between(Authorised, AtCompliance)
    BY <1>2 DEF Step, IInv, Progress
  <1>7. NamesOf(s) \cap Reported = {}
    BY <1>5, <1>6 DEF Between, AtStructure, AtReplay, FromStructure, AtFinal, AtPoint, AtTiming, AtMAT,
       FromTiming, AtScope, FromMAT, AtEvidence, AtBudget, FromEvidence,
       AtContext, FromBudget, AtOutcomes, FromContext, AtConfirmation,
       FromOutcomes, AtChain, AtCommitment, AtAuthority, AtCompliance,
       FromAuthority, FromCompliance
  <1>8. /\ pc' = "provenance" /\ TypeOK' /\ Tallied'
        /\ UNCHANGED <<in, mat, com, emitted, next>>
        /\ Reported' = Reported \cup NamesOf(s)
    BY <1>2, <1>5, <1>7, PlainStepping DEF Steps
  <1>9. Between(Authorised, AtProvenance)'
    BY <1>5, <1>6, <1>8 DEF Between, AtProvenance
  <1>10. Progress'
    BY <1>8, <1>9 DEF Progress
  <1>11. Answered' /\ Reconciling' /\ Finished'
    BY <1>6, <1>8, <1>12, ClaimsKept DEF IInv, Answered, Reconciling, Finished, BeforeMAT,
       BeforeCommitment, OnCommitment
  <1> QED
    BY <1>8, <1>10, <1>11 DEF IInv

LEMMA ProvenanceInv == ASSUME IInv, Provenance PROVE IInv'
  <1> DEFINE a == PassIf(rc.provenance = com[1].provenance)
             emits == <<Check("provenance_agreement", a)>>
             s == IF rc.provenance = <<>> THEN <<>> ELSE emits
  <1>1. {a} \subseteq {"passed", "failed"}
    BY DEF PassIf
  <1>2. Step("provenance", "windows", s) /\ UNCHANGED <<mat, com, emitted, next>>
    BY DEF Provenance, PlainStep
  <1> HIDE DEF a
  <1>3. {Check("provenance_agreement", a)} \subseteq Emittable
    BY <1>1, CheckEmittable, CarriedNames DEF Statuses, VerifierChecks, OwnChecks,
       CommitmentChecks, ClaimChecks, NotPerformedCapableChecks
  <1>4. emits \in Seq(Emittable) /\ NoRepeat(emits) /\ NamesOf(emits) = {"provenance_agreement"}
    BY <1>3, OneCheck DEF Check
  <1> HIDE DEF emits
  <1>5. s \in Seq(Emittable) /\ NoRepeat(s) /\ NamesOf(s) \in {{}, {"provenance_agreement"}}
    BY <1>4, Nothing
  <1>12. ProvenanceClaims \subseteq NamesOf(s)
    BY <1>4, Nothing DEF ProvenanceClaims
  <1> HIDE DEF s
  <1>6. pc = "provenance" /\ Between(Authorised, AtProvenance)
    BY <1>2 DEF Step, IInv, Progress
  <1>7. NamesOf(s) \cap Reported = {}
    BY <1>5, <1>6 DEF Between, AtStructure, AtReplay, FromStructure, AtFinal, AtPoint, AtTiming, AtMAT,
       FromTiming, AtScope, FromMAT, AtEvidence, AtBudget, FromEvidence,
       AtContext, FromBudget, AtOutcomes, FromContext, AtConfirmation,
       FromOutcomes, AtChain, AtCommitment, AtAuthority, AtCompliance,
       FromAuthority, AtProvenance, FromCompliance
  <1>8. /\ pc' = "windows" /\ TypeOK' /\ Tallied'
        /\ UNCHANGED <<in, mat, com, emitted, next>>
        /\ Reported' = Reported \cup NamesOf(s)
    BY <1>2, <1>5, <1>7, PlainStepping DEF Steps
  <1>9. Between(Authorised, AtWindows)'
    BY <1>5, <1>6, <1>8 DEF Between, AtWindows
  <1>10. Progress'
    BY <1>8, <1>9 DEF Progress
  <1>11. Answered' /\ Reconciling' /\ Finished'
    BY <1>6, <1>8, <1>12, ClaimsKept DEF IInv, Answered, Reconciling, Finished, BeforeMAT,
       BeforeCommitment, OnCommitment
  <1> QED
    BY <1>8, <1>10, <1>11 DEF IInv

LEMMA WindowsInv == ASSUME IInv, Windows PROVE IInv'
  <1> DEFINE a == CommitmentTemporal(rc, com[1])
             b == CommitmentActionWindow(rc, com[1])
             s == <<Check("commitment_temporal", a),
                    Check("commitment_action_window", b)>>
  <1>1. {a} \subseteq {"passed", "failed"} /\ {b} \subseteq Statuses
    BY DEF PassIf, Judge, Statuses, CommitmentTemporal, CommitmentActionWindow, withinWindow
  <1>2. Step("windows", "identity", s) /\ UNCHANGED <<mat, com, emitted, next>>
    BY DEF Windows, PlainStep
  <1> HIDE DEF a, b
  <1>3. {Check("commitment_temporal", a),
         Check("commitment_action_window", b)} \subseteq Emittable
    BY <1>1, CheckEmittable, CarriedNames DEF Statuses, VerifierChecks, OwnChecks,
       CommitmentChecks, ClaimChecks, NotPerformedCapableChecks
  <1>5. s \in Seq(Emittable) /\ NoRepeat(s) /\ NamesOf(s) = FromWindows
    BY <1>3, TwoChecks DEF Check, FromWindows
  <1> HIDE DEF s
  <1>6. pc = "windows" /\ Between(Authorised, AtWindows)
    BY <1>2 DEF Step, IInv, Progress
  <1>7. NamesOf(s) \cap Reported = {}
    BY <1>5, <1>6 DEF Between, AtStructure, AtReplay, FromStructure, AtFinal, AtPoint, AtTiming, AtMAT,
       FromTiming, AtScope, FromMAT, AtEvidence, AtBudget, FromEvidence,
       AtContext, FromBudget, AtOutcomes, FromContext, AtConfirmation,
       FromOutcomes, AtChain, AtCommitment, AtAuthority, AtCompliance,
       FromAuthority, AtProvenance, FromCompliance, AtWindows, FromWindows
  <1>8. /\ pc' = "identity" /\ TypeOK' /\ Tallied'
        /\ UNCHANGED <<in, mat, com, emitted, next>>
        /\ Reported' = Reported \cup NamesOf(s)
    BY <1>2, <1>5, <1>7, PlainStepping DEF Steps
  <1>9. Between(Authorised \cup FromWindows, AtIdentity)'
    BY <1>5, <1>6, <1>8 DEF Between, AtIdentity, Authorised
  <1>10. Progress'
    BY <1>8, <1>9 DEF Progress
  <1>11. Answered' /\ Reconciling' /\ Finished'
    BY <1>6, <1>8, ClaimsKept DEF IInv, Answered, Reconciling, Finished, BeforeMAT,
       BeforeCommitment, OnCommitment
  <1> QED
    BY <1>8, <1>10, <1>11 DEF IInv

LEMMA IdentityInv == ASSUME IInv, Identity PROVE IInv'
  <1> DEFINE a == AgentIdentityWellformed(com[1])
             b == IF mat = <<>> THEN "not_performed"
                  ELSE identitiesAgree(com[1].agent_identity, mat[1].machine_identity)
             s == <<Check("agent_identity_wellformed", a),
                    Check("agent_identity_binding", b)>>
  <1>1. {a, b} \subseteq Statuses
    BY DEF PassIf, Judge, Statuses,
         AgentIdentityWellformed, identitiesAgree
  <1>2. Step("identity", "commitment_digest", s) /\ UNCHANGED <<mat, com, emitted, next>>
    BY DEF Identity, PlainStep
  <1> HIDE DEF a, b
  <1>3. {Check("agent_identity_wellformed", a),
         Check("agent_identity_binding", b)} \subseteq Emittable
    BY <1>1, CheckEmittable, CarriedNames DEF Statuses, VerifierChecks, OwnChecks,
       CommitmentChecks, ClaimChecks, NotPerformedCapableChecks
  <1>5. s \in Seq(Emittable) /\ NoRepeat(s) /\ NamesOf(s) = FromIdentity
    BY <1>3, TwoChecks DEF Check, FromIdentity
  <1> HIDE DEF s
  <1>6. pc = "identity" /\ Between(Authorised \cup FromWindows, AtIdentity)
    BY <1>2 DEF Step, IInv, Progress
  <1>7. NamesOf(s) \cap Reported = {}
    BY <1>5, <1>6 DEF Between, AtStructure, AtReplay, FromStructure, AtFinal, AtPoint, AtTiming, AtMAT,
       FromTiming, AtScope, FromMAT, AtEvidence, AtBudget, FromEvidence,
       AtContext, FromBudget, AtOutcomes, FromContext, AtConfirmation,
       FromOutcomes, AtChain, AtCommitment, AtAuthority, AtCompliance,
       FromAuthority, AtProvenance, FromCompliance, AtWindows, AtIdentity,
       FromWindows, FromIdentity
  <1>8. /\ pc' = "commitment_digest" /\ TypeOK' /\ Tallied'
        /\ UNCHANGED <<in, mat, com, emitted, next>>
        /\ Reported' = Reported \cup NamesOf(s)
    BY <1>2, <1>5, <1>7, PlainStepping DEF Steps
  <1>9. Between(OwnChecks \cup CommitmentChecks, AtDigest)'
    BY <1>5, <1>6, <1>8 DEF Between, AtDigest, OwnChecks, AtStructure, AtReplay, FromStructure, AtFinal,
       AtPoint, AtTiming, AtMAT, FromTiming, CommitmentChecks, FromAuthority,
       FromWindows, FromIdentity, Authorised
  <1>10. Progress'
    BY <1>8, <1>9 DEF Progress
  <1>11. Answered' /\ Reconciling' /\ Finished'
    BY <1>6, <1>8, ClaimsKept DEF IInv, Answered, Reconciling, Finished, BeforeMAT,
       BeforeCommitment, OnCommitment
  <1> QED
    BY <1>8, <1>10, <1>11 DEF IInv

LEMMA CommitmentDigestInv == ASSUME IInv, CommitmentDigest PROVE IInv'
  <1> DEFINE a == PassIf(rc.commitment_digest = Digest(com[1]))
             emits == <<Check("commitment_digest", a)>>
             s == IF rc.commitment_digest = <<>> THEN <<>> ELSE emits
  <1>1. {a} \subseteq {"passed", "failed"}
    BY DEF PassIf
  <1>2. Step("commitment_digest", "inventory", s) /\ UNCHANGED <<mat, com, emitted, next>>
    BY DEF CommitmentDigest, PlainStep
  <1> HIDE DEF a
  <1>3. {Check("commitment_digest", a)} \subseteq Emittable
    BY <1>1, CheckEmittable, CarriedNames DEF Statuses, VerifierChecks, OwnChecks,
       CommitmentChecks, ClaimChecks, NotPerformedCapableChecks
  <1>4. emits \in Seq(Emittable) /\ NoRepeat(emits) /\ NamesOf(emits) = {"commitment_digest"}
    BY <1>3, OneCheck DEF Check
  <1> HIDE DEF emits
  <1>5. s \in Seq(Emittable) /\ NoRepeat(s) /\ NamesOf(s) \in {{}, {"commitment_digest"}}
    BY <1>4, Nothing
  <1>12. DigestClaims \subseteq NamesOf(s)
    BY <1>4, Nothing DEF DigestClaims
  <1> HIDE DEF s
  <1>6. pc = "commitment_digest" /\ Between(OwnChecks \cup CommitmentChecks, AtDigest)
    BY <1>2 DEF Step, IInv, Progress
  <1>7. NamesOf(s) \cap Reported = {}
    BY <1>5, <1>6 DEF Between, AtStructure, AtReplay, FromStructure, AtFinal, AtPoint, AtTiming, AtMAT,
       FromTiming, AtScope, FromMAT, AtEvidence, AtBudget, FromEvidence,
       AtContext, FromBudget, AtOutcomes, FromContext, AtConfirmation,
       FromOutcomes, AtChain, AtCommitment, AtAuthority, AtCompliance,
       FromAuthority, AtProvenance, FromCompliance, AtWindows, AtIdentity,
       FromWindows, AtDigest, FromIdentity
  <1>8. /\ pc' = "inventory" /\ TypeOK' /\ Tallied'
        /\ UNCHANGED <<in, mat, com, emitted, next>>
        /\ Reported' = Reported \cup NamesOf(s)
    BY <1>2, <1>5, <1>7, PlainStepping DEF Steps
  <1>9. Between(OwnChecks, AtInventory)'
    BY <1>5, <1>6, <1>8 DEF Between, AtInventory, OwnChecks, AtStructure, AtReplay, FromStructure, AtFinal,
       AtPoint, AtTiming, AtMAT, FromTiming
  <1>10. Progress'
    BY <1>8, <1>9 DEF Progress
  <1>13. CommitmentChecks \cup ClaimsMade \subseteq Reported'
    BY <1>6, <1>8, <1>12, ClaimsInParts DEF IInv, Answered, Between
  <1>11. Answered' /\ Reconciling' /\ Finished'
    BY <1>6, <1>8, <1>9, <1>13, ClaimsKept DEF IInv, Answered, Reconciling, Finished, BeforeMAT,
       BeforeCommitment, OnCommitment, Between
  <1> QED
    BY <1>8, <1>10, <1>11 DEF IInv

LEMMA ReceiptSignatureInv == ASSUME IInv, ReceiptSignature PROVE IInv'
  <1> DEFINE ok == ReceiptParses(in.receipt, Anchors)
             a == PassIf(ok)
             s == <<Check("receipt_signature", a)>>
             there == IF ok THEN "structure" ELSE "done"
  <1>1. a = IF ok THEN "passed" ELSE "failed"
    BY DEF PassIf
  <1>2. Step("receipt_signature", there, s) /\ UNCHANGED <<mat, com, emitted, next>>
    BY DEF ReceiptSignature
  <1> HIDE DEF ok, a
  <1>3. Check("receipt_signature", a) \in Emittable
    BY <1>1, CheckEmittable DEF Statuses, VerifierChecks, OwnChecks
  <1>4. s \in Seq(Emittable) /\ NoRepeat(s) /\ NamesOf(s) = {"receipt_signature"}
    BY <1>3, OneCheck DEF Check
  <1>5. pc = "receipt_signature" /\ checks = <<>> /\ Reported = {}
    BY <1>2 DEF Step, IInv, Progress, Reported, NamesOf
  <1>6. there \in Steps
    BY DEF Steps
  <1> HIDE DEF there
  <1>7. checks' = s
    BY <1>2, <1>5 DEF Step, Report
  <1> HIDE DEF s
  <1>8. /\ pc' = there /\ TypeOK' /\ Tallied'
        /\ UNCHANGED <<in, mat, com, emitted, next>>
        /\ Reported' = {"receipt_signature"}
    BY <1>2, <1>4, <1>5, <1>6, PlainStepping DEF Steps
  <1>9. com' = <<>>
    BY <1>5, <1>8 DEF IInv, Answered, BeforeCommitment, BeforeMAT
  <1>10. CASE ok
    <2>1. pc' = "structure"
      BY <1>8, <1>10 DEF there
    <2>2. Progress'
      BY <1>8, <2>1 DEF Progress, Between, AtStructure
    <2>3. Answered' /\ Reconciling' /\ Finished'
      BY <1>5, <1>8, <1>9, <2>1 DEF IInv, Answered, Reconciling, Finished, BeforeMAT, BeforeCommitment, OnCommitment
    <2> QED
      BY <1>8, <2>2, <2>3 DEF IInv
  <1>11. CASE ~ok
    <2>1. pc' = "done" /\ checks' = <<Check("receipt_signature", "failed")>>
      BY <1>1, <1>7, <1>8, <1>11 DEF there, s
    <2>2. Progress' /\ Answered' /\ Reconciling' /\ Finished'
      BY <2>1 DEF Progress, Answered, Reconciling, Finished, BeforeMAT, BeforeCommitment,
         OnCommitment
    <2> QED
      BY <1>8, <2>2 DEF IInv
  <1> QED
    BY <1>10, <1>11

LEMMA GoverningMATInv == ASSUME IInv, GoverningMAT PROVE IInv'
  <1> DEFINE supplied == in.mat # <<>>
             ok == supplied /\ MATParses(in.mat[1], Anchors)
             a == PassIf(rc.artifact_id = in.mat[1].payload.id)
             failing == <<Check("mat_signature", "failed")>>
             passing == <<Check("mat_signature", "passed"), Check("artifact_binding", a)>>
             s == IF ~supplied THEN <<>> ELSE IF ~ok THEN failing ELSE passing
  <1>1. a \in {"passed", "failed"}
    BY DEF PassIf
  <1>2. /\ Step("mat", "scope", s)
        /\ mat' = (IF ok THEN <<in.mat[1].payload>> ELSE <<>>)
        /\ UNCHANGED <<com, header, emitted, next>>
    BY DEF GoverningMAT
  <1> HIDE DEF a
  <1>3. {Check("mat_signature", "failed"), Check("mat_signature", "passed"),
         Check("artifact_binding", a)} \subseteq Emittable
    BY <1>1, CheckEmittable, CarriedNames DEF Statuses, VerifierChecks, NotPerformedCapableChecks
  <1>4. /\ failing \in Seq(Emittable) /\ NoRepeat(failing)
        /\ NamesOf(failing) = {"mat_signature"}
    BY <1>3, OneCheck DEF Check
  <1>5. /\ passing \in Seq(Emittable) /\ NoRepeat(passing)
        /\ NamesOf(passing) = FromMAT
    BY <1>3, TwoChecks DEF Check, FromMAT
  <1> HIDE DEF ok, passing, failing
  <1>6. /\ s \in Seq(Emittable) /\ NoRepeat(s) /\ NamesOf(s) \subseteq FromMAT
        /\ supplied => "mat_signature" \in NamesOf(s)
    BY <1>4, <1>5, Nothing DEF FromMAT
  <1> HIDE DEF s
  <1>7. pc = "mat" /\ Between(AtMAT, AtMAT) /\ com = <<>>
    BY <1>2 DEF Step, IInv, Progress, Answered, BeforeCommitment, BeforeMAT
  <1>8. NamesOf(s) \cap Reported = {}
    BY <1>6, <1>7 DEF Between, FromMAT, AtStructure, AtReplay, FromStructure, AtFinal, AtPoint,
       AtTiming, AtMAT, FromTiming
  <1>9. /\ pc' = "scope" /\ in' = in /\ com' = <<>>
        /\ Tallied' /\ Reported' = Reported \cup NamesOf(s)
        /\ checks' \in Seq(CheckRecords) /\ valid' \in BOOLEAN
        /\ notPerformed' \subseteq VerifierChecks
    BY <1>2, <1>6, <1>7, <1>8, Stepping DEF Steps
  <1>10. TypeOK'
    BY <1>2, <1>9 DEF IInv, TypeOK, Steps
  <1>11. Between(AtMAT, AtScope)'
    BY <1>6, <1>7, <1>9 DEF Between, AtScope
  <1>12. Progress'
    BY <1>9, <1>11 DEF Progress
  <1>13. Answered' /\ Reconciling' /\ Finished'
    BY <1>2, <1>6, <1>7, <1>9 DEF IInv, Answered, Reconciling, Finished, OnCommitment
  <1> QED
    BY <1>9, <1>10, <1>12, <1>13 DEF IInv

LEMMA CommitmentInv == ASSUME IInv, Commitment PROVE IInv'
  <1> DEFINE supplied == in.commitment # <<>>
             ok == supplied /\ CommitmentParses(in.commitment[1], Anchors)
             a == PassIf(ok)
             emits == <<Check("commitment_signature", a)>>
             s == IF supplied THEN emits ELSE <<>>
             there == IF ok THEN "authority" ELSE "inventory"
  <1>1. a \in {"passed", "failed"}
    BY DEF PassIf
  <1>2. /\ Step("commitment", there, s)
        /\ com' = (IF ok THEN <<in.commitment[1].payload>> ELSE <<>>)
        /\ UNCHANGED <<mat, header, emitted, next>>
    BY DEF Commitment
  <1>3. ok => supplied
    OBVIOUS
  <1> HIDE DEF a, ok
  <1>4. Check("commitment_signature", a) \in Emittable
    BY <1>1, CheckEmittable DEF Statuses, VerifierChecks, CommitmentChecks
  <1>5. /\ emits \in Seq(Emittable) /\ NoRepeat(emits)
        /\ NamesOf(emits) = {"commitment_signature"}
    BY <1>4, OneCheck DEF Check
  <1> HIDE DEF emits
  <1>6. /\ s \in Seq(Emittable) /\ NoRepeat(s) /\ NamesOf(s) \subseteq {"commitment_signature"}
        /\ supplied => "commitment_signature" \in NamesOf(s)
    BY <1>5, Nothing
  <1> HIDE DEF s
  <1>7. /\ pc = "commitment" /\ Between(OwnChecks, AtCommitment)
        /\ in.mat # <<>> => "mat_signature" \in Reported
    BY <1>2 DEF Step, IInv, Progress, Answered, BeforeMAT
  <1>8. NamesOf(s) \cap Reported = {}
    BY <1>6, <1>7 DEF Between, AtStructure, AtReplay, FromStructure, AtFinal, AtPoint,
       AtTiming, AtMAT, FromTiming, AtScope, FromMAT, AtEvidence, AtBudget, FromEvidence,
       AtContext, FromBudget, AtOutcomes, FromContext, AtConfirmation, FromOutcomes,
       AtChain, AtCommitment
  <1>9. there \in Steps
    BY DEF Steps
  <1> HIDE DEF there
  <1>10. /\ pc' = there /\ in' = in
         /\ Tallied' /\ Reported' = Reported \cup NamesOf(s)
         /\ checks' \in Seq(CheckRecords) /\ valid' \in BOOLEAN
         /\ notPerformed' \subseteq VerifierChecks
    <2>1. Step("commitment", there, s) /\ "commitment" \in Steps
      BY <1>2 DEF Steps
    <2> QED
      BY <1>6, <1>8, <1>9, <2>1, Stepping
  <1>11. TypeOK'
    BY <1>2, <1>9, <1>10 DEF IInv, TypeOK
  <1>12. CASE ok
    <2>1. pc' = "authority"
      BY <1>10, <1>12 DEF there
    <2>2. Between(OwnChecks \cup {"commitment_signature"}, AtAuthority)'
      BY <1>3, <1>6, <1>7, <1>10, <1>12 DEF Between, AtAuthority
    <2>3. Progress'
      BY <2>1, <2>2 DEF Progress
    <2>4. Answered' /\ Reconciling' /\ Finished'
      BY <1>2, <1>6, <1>7, <1>10, <2>1 DEF IInv, Answered, Reconciling, Finished, BeforeCommitment, BeforeMAT
    <2> QED
      BY <1>10, <1>11, <2>3, <2>4 DEF IInv
  <1>13. CASE ~ok
    <2>1. pc' = "inventory" /\ com' = <<>>
      BY <1>2, <1>10, <1>13 DEF there
    <2>2. Between(OwnChecks, AtInventory)'
      BY <1>6, <1>7, <1>10 DEF Between, AtAuthority, AtCompliance, AtProvenance, AtWindows,
         AtIdentity, AtDigest, AtInventory
    <2>3. Progress'
      BY <2>1, <2>2 DEF Progress
    <2>4. Answered' /\ Reconciling' /\ Finished'
      BY <1>2, <1>6, <1>7, <1>10, <2>1 DEF IInv, Answered, Reconciling, Finished, BeforeCommitment, BeforeMAT
    <2> QED
      BY <1>10, <1>11, <2>3, <2>4 DEF IInv
  <1> QED
    BY <1>12, <1>13

\* Every check a step may emit is in the catalogue.
LEMMA FromAll == AtInventory \subseteq VerifierChecks
  BY CarriedNames DEF VerifierChecks, OwnChecks, CommitmentChecks, ClaimChecks,
     AtStructure, AtReplay, FromStructure, AtFinal, AtPoint, AtTiming, AtMAT, FromTiming,
     AtScope, FromMAT, AtEvidence, AtBudget, FromEvidence, AtContext, FromBudget, AtOutcomes,
     FromContext, AtConfirmation, FromOutcomes, AtChain, AtCommitment, AtAuthority,
     AtCompliance, FromAuthority, AtProvenance, FromCompliance, AtWindows, AtIdentity,
     FromWindows, AtDigest, FromIdentity, AtInventory

LEMMA InventoryInv == ASSUME IInv, Inventory PROVE IInv'
  <1>1. /\ Step("inventory", "reconcile", <<>>)
        /\ emitted' = Reported
        /\ UNCHANGED <<mat, com, header, next>>
    BY DEF Inventory, Reported
  <1>2. pc = "inventory" /\ Between(OwnChecks, AtInventory)
    BY <1>1 DEF Step, IInv, Progress
  <1>3. /\ pc' = "reconcile" /\ in' = in
        /\ Tallied' /\ Reported' = Reported
        /\ checks' \in Seq(CheckRecords) /\ valid' \in BOOLEAN
        /\ notPerformed' \subseteq VerifierChecks
    <2> DEFINE s == <<>>
    <2>1. Step("inventory", "reconcile", s)
      BY <1>1
    <2>2. /\ s \in Seq(Emittable) /\ NoRepeat(s) /\ NamesOf(s) = {}
          /\ {"inventory", "reconcile"} \subseteq Steps
      BY Nothing DEF Steps
    <2> HIDE DEF s
    <2>3. /\ pc' = "reconcile" /\ in' = in
          /\ Tallied' /\ Reported' = Reported \cup NamesOf(s)
          /\ checks' \in Seq(CheckRecords) /\ valid' \in BOOLEAN
          /\ notPerformed' \subseteq VerifierChecks
      BY <2>1, <2>2, Stepping
    <2> QED
      BY <2>2, <2>3
  <1>4. Reported \subseteq VerifierChecks
    BY <1>2, FromAll DEF Between
  <1>5. TypeOK'
    BY <1>1, <1>3, <1>4 DEF IInv, TypeOK, Steps
  <1>6. Progress'
    BY <1>2, <1>3, <1>4 DEF Progress, Between
  <1>7. Answered' /\ Finished'
    BY <1>1, <1>2, <1>3, ClaimsKept DEF IInv, Answered, Finished, BeforeMAT, BeforeCommitment,
       OnCommitment
  <1>8. Reconciling'
    <2>1. next' = 1
      BY <1>1, <1>2 DEF IInv, Reconciling
    <2>2. Walked(next)' = {}
      BY <2>1 DEF Walked
    <2> QED
      BY <1>1, <1>3, <2>2 DEF Reconciling
  <1> QED
    BY <1>3, <1>5, <1>6, <1>7, <1>8 DEF IInv

\* The loop reports the next name of the inventory exactly when no step emitted
\* it, and no name earlier in the inventory is the same.
LEMMA ReconcileInv == ASSUME IInv, Reconcile PROVE IInv'
  <1> DEFINE name == receiptCarriedChecks[next]
             emits == <<Check(name, "not_performed")>>
             s == IF name \in emitted THEN <<>> ELSE emits
  <1>1. /\ Step("reconcile", "reconcile", s)
        /\ next' = next + 1
        /\ UNCHANGED <<mat, com, header, emitted>>
    BY DEF Reconcile
  <1>2. next \in 1..12 /\ name \in Carried
    BY Twelve DEF Reconcile, IInv, TypeOK, Carried
  <1>3. /\ pc = "reconcile"
        /\ Between(OwnChecks, VerifierChecks)
        /\ emitted \subseteq Reported
        /\ Reported \subseteq emitted \cup Walked(next)
        /\ Walked(next) \subseteq Reported
    BY <1>1 DEF Step, IInv, Progress, Reconciling
  <1>4. name \notin Walked(next)
    BY <1>2, CarriedOnce DEF Walked
  <1>5. Walked(next + 1) = Walked(next) \cup {name}
    <2>1. \A i \in 1..next : i = next \/ i \in 1..(next - 1)
      BY <1>2
    <2> QED
      BY <1>2, <2>1 DEF Walked
  <1>6. name \in VerifierChecks /\ name \in NotPerformedCapableChecks
    BY <1>2 DEF VerifierChecks, NotPerformedCapableChecks
  <1> HIDE DEF name
  <1>7. Check(name, "not_performed") \in Emittable
    BY <1>6, CheckEmittable DEF Statuses
  <1>8. emits \in Seq(Emittable) /\ NoRepeat(emits) /\ NamesOf(emits) = {name}
    BY <1>7, OneCheck DEF Check
  <1> HIDE DEF emits
  <1>9. /\ s \in Seq(Emittable) /\ NoRepeat(s)
        /\ NamesOf(s) = IF name \in emitted THEN {} ELSE {name}
    BY <1>8, Nothing
  <1> HIDE DEF s
  <1>10. NamesOf(s) \cap Reported = {}
    BY <1>3, <1>4, <1>9
  <1>11. /\ pc' = "reconcile" /\ in' = in
         /\ Tallied' /\ Reported' = Reported \cup NamesOf(s)
         /\ checks' \in Seq(CheckRecords) /\ valid' \in BOOLEAN
         /\ notPerformed' \subseteq VerifierChecks
    <2>1. Step("reconcile", "reconcile", s) /\ "reconcile" \in Steps
      BY <1>1 DEF Steps
    <2> QED
      BY <1>9, <1>10, <2>1, Stepping
  <1>12. TypeOK'
    BY <1>1, <1>2, <1>11, Twelve DEF IInv, TypeOK, Steps
  <1>13. Progress'
    BY <1>3, <1>6, <1>9, <1>11 DEF Progress, Between
  <1>14. Answered' /\ Finished'
    BY <1>1, <1>3, <1>11, ClaimsKept DEF IInv, Answered, Finished, BeforeMAT, BeforeCommitment
  <1>15. Reconciling'
    <2>1. Walked(next)' = Walked(next) \cup {name}
      BY <1>1, <1>5 DEF Walked
    <2> QED
      BY <1>1, <1>3, <1>9, <1>11, <2>1 DEF Reconciling
  <1> QED
    BY <1>11, <1>12, <1>13, <1>14, <1>15 DEF IInv

\* When the loop has walked the whole inventory, every name in it is reported.
LEMMA ReturnInv == ASSUME IInv, Return PROVE IInv'
  <1> DEFINE s == <<>>
  <1>1. /\ Step("reconcile", "done", s)
        /\ UNCHANGED <<mat, com, emitted, next>>
        /\ next > Len(receiptCarriedChecks)
    BY DEF Return, PlainStep
  <1>2. /\ pc = "reconcile" /\ next = 13
        /\ Between(OwnChecks, VerifierChecks) /\ Walked(next) \subseteq Reported
    BY <1>1, Twelve DEF Step, IInv, TypeOK, Progress, Reconciling
  <1>3. Carried \subseteq Reported
    <2>1. Walked(13) = Carried
      BY Twelve DEF Walked, Carried
    <2> QED
      BY <1>2, <2>1
  <1>4. /\ s \in Seq(Emittable) /\ NoRepeat(s) /\ NamesOf(s) = {}
        /\ {"reconcile", "done"} \subseteq Steps
    BY Nothing DEF Steps
  <1> HIDE DEF s
  <1>5. /\ pc' = "done" /\ TypeOK' /\ Tallied'
        /\ UNCHANGED <<in, mat, com, emitted, next>>
        /\ Reported' = Reported \cup NamesOf(s)
    BY <1>1, <1>4, PlainStepping
  <1>6. Reported' = Reported
    BY <1>4, <1>5
  <1>7. Finished'
    BY <1>2, <1>3, <1>5, <1>6, ClaimsKept DEF IInv, Answered, Finished, Between, BeforeMAT
  <1>8. Progress' /\ Answered' /\ Reconciling'
    BY <1>5 DEF Progress, Answered, Reconciling, BeforeMAT, BeforeCommitment, OnCommitment
  <1> QED
    BY <1>5, <1>7, <1>8 DEF IInv

------------------------------------------------------------------------------
(* The theorems.                                                            *)

LEMMA FreshInv == Fresh => IInv
  <1> SUFFICES ASSUME Fresh PROVE IInv
    OBVIOUS
  <1>1. /\ pc = "receipt_signature" /\ mat = <<>> /\ com = <<>> /\ checks = <<>>
        /\ valid = TRUE /\ notPerformed = {} /\ emitted = {} /\ next = 1
    BY DEF Fresh
  <1>2. TypeOK
    BY <1>1, Twelve DEF TypeOK, Steps
  <1>3. Tallied
    <2>1. NoneFailed(checks) /\ Unperformed(checks) = {}
      BY <1>1 DEF NoneFailed, Unperformed
    <2>2. Summarised
      BY <1>1, <2>1 DEF Summarised
    <2> QED
      BY <1>1, <2>2 DEF Tallied, ReportedOnce
  <1>4. Progress /\ Answered /\ Reconciling /\ Finished
    BY <1>1 DEF Progress, Answered, Reconciling, Finished, BeforeMAT, BeforeCommitment, OnCommitment
  <1> QED
    BY <1>2, <1>3, <1>4 DEF IInv

LEMMA InitInv == Init => IInv
  BY FreshInv DEF Init

LEMMA NextInv == IInv /\ [Next]_vars => IInv'
  <1> SUFFICES ASSUME IInv, [Next]_vars PROVE IInv'
    OBVIOUS
  <1>1. CASE UNCHANGED vars
    <2>1. (TypeOK /\ Tallied /\ Progress /\ Reconciling)'
      BY <1>1 DEF vars, IInv, TypeOK, Tallied, ReportedOnce, Summarised, NoneFailed,
         Unperformed, Progress, Between, Reported, NamesOf, Reconciling
    <2>2. Reported' = Reported
      BY <1>1 DEF vars, Reported, NamesOf
    <2>3. Answered'
      BY <1>1, <2>2, ClaimsKept DEF vars, IInv, Answered
    <2>4. Finished'
      BY <1>1, <2>2, ClaimsKept DEF vars, IInv, Finished
    <2> QED
      BY <2>1, <2>3, <2>4 DEF IInv
  <1>2. CASE Next
    BY <1>2, ReceiptSignatureInv, StructureInv, ReplayUnseenInv, ReceiptFinalInv,
       EnforcementPointInv, SelfTimingInv, GoverningMATInv, ScopeCheckInv, EvidenceInv,
       AuthorizedBudgetInv, ContextInv, OutcomesInv, ConfirmationInv, ChainInv, CommitmentInv,
       AuthorityInv, ComplianceInv, ProvenanceInv, WindowsInv, IdentityInv,
       CommitmentDigestInv, InventoryInv, ReconcileInv, ReturnInv DEF Next
  <1> QED
    BY <1>1, <1>2

\* The inductive invariant.
LEMMA Invariance == Spec => []IInv
  BY InitInv, NextInv, PTL DEF Spec

\* In every behaviour the variables keep their types, whatever the inputs.
THEOREM TypeCorrect == Spec => []TypeOK
  <1>1. IInv => TypeOK
    BY DEF IInv
  <1> QED
    BY <1>1, Invariance, PTL

\* No check is ever reported twice.
THEOREM ReportsOnce == Spec => []ReportedOnce
  <1>1. IInv => ReportedOnce
    BY DEF IInv, Tallied
  <1> QED
    BY <1>1, Invariance, PTL

\* A finished verification has answered every check of the receipt and of the
\* inventory, the signature of every artifact supplied and, of a commitment that
\* verified, its own checks and those of what the receipt claims about it.
THEOREM MissesNothing == Spec => []NothingGoesMissing
  <1>1. IInv => NothingGoesMissing
    <2> SUFFICES ASSUME IInv, pc = "done" PROVE NothingGoesMissing
      BY DEF NothingGoesMissing
    <2>1. CASE checks = <<Check("receipt_signature", "failed")>>
      <3>1. Reported = {"receipt_signature"}
        BY <2>1 DEF Reported, NamesOf, Check
      <3>2. ~valid
        BY <2>1 DEF IInv, Tallied, Summarised, NoneFailed, Check
      <3> QED
        BY <3>1, <3>2 DEF NothingGoesMissing
    <2>2. CASE checks # <<Check("receipt_signature", "failed")>>
      BY <2>2 DEF IInv, Finished, NothingGoesMissing
    <2> QED
      BY <2>1, <2>2
  <1> QED
    BY <1>1, Invariance, PTL

\* The reported checks stay inside the catalogue, and only those it lists as
\* capable of it are ever not performed.
THEOREM StaysInCatalogue == Spec => []WithinTheCatalogue
  <1>1. IInv => WithinTheCatalogue
    BY DEF IInv, Tallied, Summarised, Unperformed, WithinTheCatalogue, Reported, NamesOf,
       Emittable, CheckRecords
  <1> QED
    BY <1>1, Invariance, PTL

\* The machine answers its caller once, with one coherent and complete verdict:
\* it implements Verdict.
THEOREM Implements == Spec => ImplementsVerdict
  <1> DEFINE answer == [valid |-> valid, notPerformed |-> notPerformed, checks |-> checks]
  <1>1. Init => Promise!Init
    BY DEF Init, Fresh, Promise!Init, Result
  <1>2. IInv /\ IInv' /\ [Next]_vars => [Promise!Answer]_Result
    <2> SUFFICES ASSUME IInv, IInv', [Next]_vars, Result' # Result
                 PROVE  Promise!Answer
      OBVIOUS
    <2>1. pc # "done" /\ pc' = "done"
      <3>1. CASE UNCHANGED vars
        BY <3>1 DEF vars, Result
      <3>2. CASE Next
        <4>1. pc # "done"
          BY <3>2 DEF Next, ReceiptSignature, Structure, ReplayUnseen, ReceiptFinal,
             EnforcementPoint, SelfTiming, GoverningMAT, ScopeCheck, Evidence,
             AuthorizedBudget, Context, Outcomes, Confirmation, Chain, Commitment, Authority,
             Compliance, Provenance, Windows, Identity, CommitmentDigest, Inventory,
             Reconcile, Return, PlainStep, Step
        <4> QED
          BY <4>1 DEF Result
      <3> QED
        BY <3>1, <3>2
    <2>2. Result = [pending |-> TRUE] /\ Result' = answer'
      BY <2>1 DEF Result
    <2>3. Result' # [pending |-> TRUE]
      BY <2>2
    <2>4. Promise!Coherent(answer')
      <3>1. Tallied' /\ Finished' /\ checks' \in Seq(Emittable)
        BY DEF IInv, Tallied
      <3>2. \A i, j \in 1..Len(checks') : checks'[i].name = checks'[j].name => i = j
        BY <3>1 DEF Tallied, ReportedOnce
      <3>3. valid' <=> Promise!NamesWith(answer', "failed") = {}
        BY <3>1, Zenon DEF Tallied, Summarised, NoneFailed, Promise!NamesWith
      <3>4. notPerformed' = Promise!NamesWith(answer', "not_performed")
        BY <3>1 DEF Tallied, Summarised, Unperformed, Promise!NamesWith
      <3>5. Promise!Complete(answer')
        BY <2>1, <3>1 DEF Finished, Promise!Complete, Promise!CheckNames, Reported, NamesOf, Check
      <3> QED
        BY <3>2, <3>3, <3>4, <3>5 DEF Promise!Coherent
    <2> QED
      BY <2>2, <2>3, <2>4 DEF Promise!Answer
  <1> QED
    BY <1>1, <1>2, Invariance, PTL DEF Spec, ImplementsVerdict, Promise!Spec

------------------------------------------------------------------------------
(* 2. The result is a function of the input. Each step reports what its     *)
(* input alone decides, so the checks of a finished call are those Answers  *)
(* gives.                                                                   *)

\* The MAT and the commitment an input puts in the verifier's hands.
MATIn(x) == IF x.mat # <<>> /\ MATParses(x.mat[1], Anchors) THEN <<x.mat[1].payload>> ELSE <<>>

ComIn(x) == IF x.commitment # <<>> /\ CommitmentParses(x.commitment[1], Anchors)
            THEN <<x.commitment[1].payload>> ELSE <<>>

\* What each step says of the input x, as a set of checks.
SaysSignature(x) == {Check("receipt_signature", PassIf(ReceiptParses(x.receipt, Anchors)))}

SaysStructure(x) ==
    LET r == x.receipt.payload IN
    {Check("receipt_version", PassIf(r.version = ProtocolVersion)),
     Check("decision_valid", PassIf(r.decision \in Decisions)),
     Check("rationale_codes_known", PassIf(RationaleCodesKnown(r))),
     Check("controls_declared", PassIf(ControlsDeclared(r)))}

SaysReplay(x) ==
    {Check("replay_receipt_unseen",
           Judge(x.replay # <<>>, Digest(x.receipt.payload) \notin x.replay[1]))}

SaysFinal(x) == {Check("receipt_final", PassIf(~x.receipt.payload.speculative))}

SaysPoint(x) ==
    {Check("enforcement_point_binding",
           EnforcementPointBinding(x.receipt.payload, x.receipt.kid,
                                   SubjectOf(Anchors, x.receipt.kid)))}

SaysTiming(x) ==
    {Check("timing_within_bound", PassIf(TimingWithinBound(x.receipt.payload))),
     Check("timing_self_consistent", timingSelfConsistent(x.receipt.payload))}

SaysMAT(x) ==
    IF x.mat = <<>> THEN {}
    ELSE IF ~MATParses(x.mat[1], Anchors) THEN {Check("mat_signature", "failed")}
    ELSE {Check("mat_signature", "passed"),
          Check("artifact_binding",
                PassIf(x.receipt.payload.artifact_id = x.mat[1].payload.id))}

SaysScope(x) ==
    IF MATIn(x) = <<>> THEN {}
    ELSE {Check("scope_check", ScopeStatus(x.receipt.payload, MATIn(x)[1]))}

SaysEvidence(x) ==
    IF MATIn(x) = <<>> \/ MATIn(x)[1].proof_obligations = <<>> THEN {}
    ELSE {Check("evidence_covers_obligations", EvidenceCovers(x.receipt.payload, MATIn(x)[1])),
          Check("evidence_asserted_fresh", EvidenceFresh(x.receipt.payload, MATIn(x)[1]))}

SaysBudget(x) ==
    IF MATIn(x) = <<>> THEN {}
    ELSE {Check("timing_within_authorized_bound",
                AuthorizedTiming(x.receipt.payload, MATIn(x)[1])),
          Check("policy_digest", PolicyDigest(x.receipt.payload, MATIn(x)[1])),
          Check("evaluation_within_validity",
                withinWindow(x.receipt.payload.start, MATIn(x)[1].not_before,
                             MATIn(x)[1].not_after))}

SaysContext(x) ==
    IF x.context = <<>> THEN {}
    ELSE {Check("context_digest",
                PassIf(x.receipt.payload.context_digest = Digest(x.context[1]))),
          Check("resource_state_digest", ResourceStateDigest(x.receipt.payload, x.context[1]))}

SaysOutcomes(x) ==
    IF x.context = <<>> \/ MATIn(x) = <<>> THEN {}
    ELSE {Check("constraint_outcomes",
                recomputeOutcomes(MATIn(x)[1], x.context[1], x.receipt.payload)),
          Check("decision_consistent",
                PassIf(decisionConsistent(MATIn(x)[1], x.context[1], x.receipt.payload)))}

SaysConfirmation(x) ==
    {Check("confirmation_link", ConfirmationLink(x.receipt.payload, x.confirmed))}

SaysChain(x) ==
    IF x.prior = <<>> THEN {}
    ELSE {Check("chain_link", PassIf(ChainLink(x.receipt.payload, x.prior[1])))}

SaysCommitment(x) ==
    IF x.commitment = <<>> THEN {}
    ELSE {Check("commitment_signature", PassIf(CommitmentParses(x.commitment[1], Anchors)))}

\* These steps run only when the commitment parses.
SaysAuthority(x) ==
    {Check("commitment_binding",
           Judge(MATIn(x) # <<>>, VerifyBinding(ComIn(x)[1], MATIn(x)[1]))),
     Check("commitment_scope",
           Judge(MATIn(x) # <<>>,
                 CommitmentScope(x.receipt.payload, ComIn(x)[1], MATIn(x)[1])))}

SaysCompliance(x) ==
    LET claim == x.receipt.payload.compliance IN
    IF claim = <<>> \/ claim[1].action = <<>> THEN {}
    ELSE {Check("compliance_commitment_check",
                PassIf(claim[1].commitment_check = DeclaresAction(ComIn(x)[1], claim[1].action))),
          Check("compliance_scope_check",
                Judge(MATIn(x) # <<>>,
                      claim[1].scope_check
                          = CoversOperation(MATIn(x)[1], claim[1].action, <<>>))),
          Check("compliance_boundary_check",
                Judge(MATIn(x) # <<>>,
                      claim[1].boundary_check
                          = (claim[1].action \notin MATIn(x)[1].boundary.exclusions)))}

SaysProvenance(x) ==
    IF x.receipt.payload.provenance = <<>> THEN {}
    ELSE {Check("provenance_agreement",
                PassIf(x.receipt.payload.provenance = ComIn(x)[1].provenance))}

SaysWindows(x) ==
    {Check("commitment_temporal", CommitmentTemporal(x.receipt.payload, ComIn(x)[1])),
     Check("commitment_action_window", CommitmentActionWindow(x.receipt.payload, ComIn(x)[1]))}

SaysIdentity(x) ==
    {Check("agent_identity_wellformed", AgentIdentityWellformed(ComIn(x)[1])),
     Check("agent_identity_binding",
           IF MATIn(x) = <<>> THEN "not_performed"
           ELSE identitiesAgree(ComIn(x)[1].agent_identity, MATIn(x)[1].machine_identity))}

SaysDigest(x) ==
    IF x.receipt.payload.commitment_digest = <<>> THEN {}
    ELSE {Check("commitment_digest",
                PassIf(x.receipt.payload.commitment_digest = Digest(ComIn(x)[1])))}

\* What has been said when each step is about to run.
ToReplay(x) == SaysSignature(x) \cup SaysStructure(x)
ToFinal(x) == ToReplay(x) \cup SaysReplay(x)
ToPoint(x) == ToFinal(x) \cup SaysFinal(x)
ToTiming(x) == ToPoint(x) \cup SaysPoint(x)
ToMAT(x) == ToTiming(x) \cup SaysTiming(x)
ToScope(x) == ToMAT(x) \cup SaysMAT(x)
ToEvidence(x) == ToScope(x) \cup SaysScope(x)
ToBudget(x) == ToEvidence(x) \cup SaysEvidence(x)
ToContext(x) == ToBudget(x) \cup SaysBudget(x)
ToOutcomes(x) == ToContext(x) \cup SaysContext(x)
ToConfirmation(x) == ToOutcomes(x) \cup SaysOutcomes(x)
ToChain(x) == ToConfirmation(x) \cup SaysConfirmation(x)
ToCommitment(x) == ToChain(x) \cup SaysChain(x)
ToAuthority(x) == ToCommitment(x) \cup SaysCommitment(x)
ToCompliance(x) == ToAuthority(x) \cup SaysAuthority(x)
ToProvenance(x) == ToCompliance(x) \cup SaysCompliance(x)
ToWindows(x) == ToProvenance(x) \cup SaysProvenance(x)
ToIdentity(x) == ToWindows(x) \cup SaysWindows(x)
ToDigest(x) == ToIdentity(x) \cup SaysIdentity(x)

\* What the steps say, what the inventory adds, and the answer of the call.
OfCommitment(x) ==
    IF ComIn(x) = <<>> THEN {}
    ELSE SaysAuthority(x) \cup SaysCompliance(x) \cup SaysProvenance(x)
         \cup SaysWindows(x) \cup SaysIdentity(x) \cup SaysDigest(x)

Said(x) == ToAuthority(x) \cup OfCommitment(x)

NamesIn(S) == {c.name : c \in S}

Unsaid(x, names) == {Check(n, "not_performed") : n \in names \ NamesIn(Said(x))}

Answers(x) == IF ReceiptParses(x.receipt, Anchors) THEN Said(x) \cup Unsaid(x, Carried)
              ELSE SaysSignature(x)

Members(s) == {s[i] : i \in 1..Len(s)}

\* A call in progress has said what its input makes the steps so far say; a
\* finished one has given the answer.
Answering ==
    /\ pc \notin {"receipt_signature", "done"} => ReceiptParses(in.receipt, Anchors)
    /\ pc \notin BeforeMAT \cup {"done"} => mat = MATIn(in)
    /\ pc \in OnCommitment => com = ComIn(in) /\ ComIn(in) # <<>>
    /\ pc = "receipt_signature" => Members(checks) = {}
    /\ pc = "structure" => Members(checks) = SaysSignature(in)
    /\ pc = "replay" => Members(checks) = ToReplay(in)
    /\ pc = "final" => Members(checks) = ToFinal(in)
    /\ pc = "enforcement_point" => Members(checks) = ToPoint(in)
    /\ pc = "timing" => Members(checks) = ToTiming(in)
    /\ pc = "mat" => Members(checks) = ToMAT(in)
    /\ pc = "scope" => Members(checks) = ToScope(in)
    /\ pc = "evidence" => Members(checks) = ToEvidence(in)
    /\ pc = "budget" => Members(checks) = ToBudget(in)
    /\ pc = "context" => Members(checks) = ToContext(in)
    /\ pc = "outcomes" => Members(checks) = ToOutcomes(in)
    /\ pc = "confirmation" => Members(checks) = ToConfirmation(in)
    /\ pc = "chain" => Members(checks) = ToChain(in)
    /\ pc = "commitment" => Members(checks) = ToCommitment(in)
    /\ pc = "authority" => Members(checks) = ToAuthority(in)
    /\ pc = "compliance" => Members(checks) = ToCompliance(in)
    /\ pc = "provenance" => Members(checks) = ToProvenance(in)
    /\ pc = "windows" => Members(checks) = ToWindows(in)
    /\ pc = "identity" => Members(checks) = ToIdentity(in)
    /\ pc = "commitment_digest" => Members(checks) = ToDigest(in)
    /\ pc = "inventory" => Members(checks) = Said(in)
    /\ pc = "reconcile" => /\ emitted = NamesIn(Said(in))
                           /\ Members(checks) = Said(in) \cup Unsaid(in, Walked(next))
    /\ pc = "done" => Members(checks) = Answers(in)

\* Reporting a list of at most four checks adds them to those reported.
LEMMA Adding ==
    ASSUME NEW S, NEW c \in Seq(S), NEW s \in Seq(S)
    PROVE  Members(c \o s) = Members(c) \cup Members(s)
  <1> DEFINE t == c \o s
  <1>1. Len(c) \in Nat /\ Len(s) \in Nat /\ Len(t) = Len(c) + Len(s)
    OBVIOUS
  <1>2. \A i \in 1..Len(c) : i \in 1..Len(t) /\ t[i] = c[i]
    BY <1>1
  <1>3. \A k \in 1..Len(s) : Len(c) + k \in 1..Len(t) /\ t[Len(c) + k] = s[k]
    BY <1>1
  <1>4. \A i \in 1..Len(t) : i \in 1..Len(c) \/ \E k \in 1..Len(s) : i = Len(c) + k
    <2> SUFFICES ASSUME NEW i \in 1..Len(t), i \notin 1..Len(c)
                 PROVE  \E k \in 1..Len(s) : i = Len(c) + k
      OBVIOUS
    <2>1. i - Len(c) \in 1..Len(s) /\ i = Len(c) + (i - Len(c))
      BY <1>1
    <2> QED
      BY <2>1
  <1>5. \A i \in 1..Len(t) : \/ i \in 1..Len(c) /\ t[i] = c[i]
                             \/ \E k \in 1..Len(s) : i = Len(c) + k /\ t[i] = s[k]
    BY <1>2, <1>3, <1>4
  <1> HIDE DEF t
  <1>6. \A x \in Members(t) : x \in Members(c) \cup Members(s)
    BY <1>5 DEF Members
  <1>7. \A x \in Members(c) : x \in Members(t)
    BY <1>2 DEF Members
  <1>8. \A x \in Members(s) : x \in Members(t)
    BY <1>3 DEF Members
  <1>9. Members(t) = Members(c) \cup Members(s)
    BY <1>6, <1>7, <1>8
  <1> QED
    BY <1>9 DEF t

LEMMA ToldNothing ==
    ASSUME IInv, Report(<<>>)
    PROVE  Members(checks') = Members(checks)
  <1>1. checks' = checks \o <<>> /\ checks \in Seq(CheckRecords)
    BY DEF Report, IInv, TypeOK
  <1>2. checks' = checks
    BY <1>1
  <1> QED
    BY <1>2

LEMMA ToldOne ==
    ASSUME IInv, NEW a, Report(<<a>>)
    PROVE  Members(checks') = Members(checks) \cup {a}
  <1> DEFINE s == <<a>>
             S == CheckRecords \cup {a}
  <1>1. checks' = checks \o s /\ checks \in Seq(CheckRecords)
    BY DEF Report, IInv, TypeOK
  <1>2. s \in Seq(S) /\ Members(s) = {a}
    BY DEF Members
  <1>3. checks \in Seq(S)
    BY <1>1
  <1> HIDE DEF s, S
  <1> QED
    BY <1>1, <1>2, <1>3, Adding

LEMMA ToldTwo ==
    ASSUME IInv, NEW a, NEW b, Report(<<a, b>>)
    PROVE  Members(checks') = Members(checks) \cup {a, b}
  <1> DEFINE s == <<a, b>>
             S == CheckRecords \cup {a, b}
  <1>1. checks' = checks \o s /\ checks \in Seq(CheckRecords)
    BY DEF Report, IInv, TypeOK
  <1>2. s \in Seq(S) /\ Members(s) = {a, b}
    BY DEF Members
  <1>3. checks \in Seq(S)
    BY <1>1
  <1> HIDE DEF s, S
  <1> QED
    BY <1>1, <1>2, <1>3, Adding

LEMMA ToldThree ==
    ASSUME IInv, NEW a, NEW b, NEW c, Report(<<a, b, c>>)
    PROVE  Members(checks') = Members(checks) \cup {a, b, c}
  <1> DEFINE s == <<a, b, c>>
             S == CheckRecords \cup {a, b, c}
  <1>1. checks' = checks \o s /\ checks \in Seq(CheckRecords)
    BY DEF Report, IInv, TypeOK
  <1>2. s \in Seq(S) /\ Members(s) = {a, b, c}
    BY DEF Members
  <1>3. checks \in Seq(S)
    BY <1>1
  <1> HIDE DEF s, S
  <1> QED
    BY <1>1, <1>2, <1>3, Adding

LEMMA ToldFour ==
    ASSUME IInv, NEW a, NEW b, NEW c, NEW d, Report(<<a, b, c, d>>)
    PROVE  Members(checks') = Members(checks) \cup {a, b, c, d}
  <1> DEFINE s == <<a, b, c, d>>
             S == CheckRecords \cup {a, b, c, d}
  <1>1. checks' = checks \o s /\ checks \in Seq(CheckRecords)
    BY DEF Report, IInv, TypeOK
  <1>2. s \in Seq(S) /\ Members(s) = {a, b, c, d}
    BY DEF Members
  <1>3. checks \in Seq(S)
    BY <1>1
  <1> HIDE DEF s, S
  <1> QED
    BY <1>1, <1>2, <1>3, Adding

\* One step each: it says what Says gives for its input.
LEMMA StructureTold == ASSUME IInv, Answering, Structure PROVE Answering'
  <1>1. /\ pc = "structure" /\ pc' = "replay" /\ UNCHANGED <<in, mat, com>>
    BY DEF Structure, PlainStep, Step
  <1>3. Members(checks') = Members(checks) \cup SaysStructure(in)
    BY ToldFour DEF Structure, PlainStep, Step, SaysStructure, rc
  <1> QED
    BY <1>1, <1>3 DEF Answering, ToReplay, BeforeMAT, OnCommitment

LEMMA ReplayUnseenTold == ASSUME IInv, Answering, ReplayUnseen PROVE Answering'
  <1>1. /\ pc = "replay" /\ pc' = "final" /\ UNCHANGED <<in, mat, com>>
    BY DEF ReplayUnseen, PlainStep, Step
  <1>3. Members(checks') = Members(checks) \cup SaysReplay(in)
    BY ToldOne DEF ReplayUnseen, PlainStep, Step, SaysReplay, rc
  <1> QED
    BY <1>1, <1>3 DEF Answering, ToFinal, BeforeMAT, OnCommitment

LEMMA ReceiptFinalTold == ASSUME IInv, Answering, ReceiptFinal PROVE Answering'
  <1>1. /\ pc = "final" /\ pc' = "enforcement_point" /\ UNCHANGED <<in, mat, com>>
    BY DEF ReceiptFinal, Step
  <1>3. Members(checks') = Members(checks) \cup SaysFinal(in)
    BY ToldOne DEF ReceiptFinal, Step, SaysFinal, rc
  <1> QED
    BY <1>1, <1>3 DEF Answering, ToPoint, BeforeMAT, OnCommitment

LEMMA EnforcementPointTold == ASSUME IInv, Answering, EnforcementPoint PROVE Answering'
  <1>1. /\ pc = "enforcement_point" /\ pc' = "timing" /\ UNCHANGED <<in, mat, com>>
    BY DEF EnforcementPoint, PlainStep, Step
  <1>3. Members(checks') = Members(checks) \cup SaysPoint(in)
    BY ToldOne DEF EnforcementPoint, PlainStep, Step, SaysPoint, rc
  <1> QED
    BY <1>1, <1>3 DEF Answering, ToTiming, BeforeMAT, OnCommitment

LEMMA SelfTimingTold == ASSUME IInv, Answering, SelfTiming PROVE Answering'
  <1>1. /\ pc = "timing" /\ pc' = "mat" /\ UNCHANGED <<in, mat, com>>
    BY DEF SelfTiming, PlainStep, Step
  <1>3. Members(checks') = Members(checks) \cup SaysTiming(in)
    BY ToldTwo DEF SelfTiming, PlainStep, Step, SaysTiming, rc
  <1> QED
    BY <1>1, <1>3 DEF Answering, ToMAT, BeforeMAT, OnCommitment

LEMMA ScopeCheckTold == ASSUME IInv, Answering, ScopeCheck PROVE Answering'
  <1>1. /\ pc = "scope" /\ pc' = "evidence" /\ UNCHANGED <<in, mat, com>>
    BY DEF ScopeCheck, PlainStep, Step
  <1>2. mat = MATIn(in)
    BY <1>1 DEF Answering, BeforeMAT, OnCommitment
  <1>3. Members(checks') = Members(checks) \cup SaysScope(in)
    <2>1. CASE mat = <<>>
      <3>1. SaysScope(in) = {}
        BY <1>2, <2>1 DEF SaysScope, rc
      <3>2. Report(<<>>)
        BY <2>1 DEF ScopeCheck, PlainStep, Step, IfMAT
      <3> QED
        BY <3>1, <3>2, ToldNothing
    <2>2. CASE ~(mat = <<>>)
      BY <1>2, <2>2, ToldOne DEF ScopeCheck, PlainStep, Step, IfMAT, SaysScope, rc
    <2> QED
      BY <2>1, <2>2
  <1> QED
    BY <1>1, <1>3 DEF Answering, ToEvidence, BeforeMAT, OnCommitment

LEMMA EvidenceTold == ASSUME IInv, Answering, Evidence PROVE Answering'
  <1>1. /\ pc = "evidence" /\ pc' = "budget" /\ UNCHANGED <<in, mat, com>>
    BY DEF Evidence, PlainStep, Step
  <1>2. mat = MATIn(in)
    BY <1>1 DEF Answering, BeforeMAT, OnCommitment
  <1>3. Members(checks') = Members(checks) \cup SaysEvidence(in)
    <2>1. CASE mat = <<>> \/ mat[1].proof_obligations = <<>>
      <3>1. SaysEvidence(in) = {}
        BY <1>2, <2>1 DEF SaysEvidence, rc
      <3>2. Report(<<>>)
        BY <2>1 DEF Evidence, PlainStep, Step, IfMAT
      <3> QED
        BY <3>1, <3>2, ToldNothing
    <2>2. CASE ~(mat = <<>> \/ mat[1].proof_obligations = <<>>)
      BY <1>2, <2>2, ToldTwo DEF Evidence, PlainStep, Step, IfMAT, SaysEvidence, rc
    <2> QED
      BY <2>1, <2>2
  <1> QED
    BY <1>1, <1>3 DEF Answering, ToBudget, BeforeMAT, OnCommitment

LEMMA AuthorizedBudgetTold == ASSUME IInv, Answering, AuthorizedBudget PROVE Answering'
  <1>1. /\ pc = "budget" /\ pc' = "context" /\ UNCHANGED <<in, mat, com>>
    BY DEF AuthorizedBudget, PlainStep, Step
  <1>2. mat = MATIn(in)
    BY <1>1 DEF Answering, BeforeMAT, OnCommitment
  <1>3. Members(checks') = Members(checks) \cup SaysBudget(in)
    <2>1. CASE mat = <<>>
      <3>1. SaysBudget(in) = {}
        BY <1>2, <2>1 DEF SaysBudget, rc
      <3>2. Report(<<>>)
        BY <2>1 DEF AuthorizedBudget, PlainStep, Step, IfMAT
      <3> QED
        BY <3>1, <3>2, ToldNothing
    <2>2. CASE ~(mat = <<>>)
      BY <1>2, <2>2, ToldThree DEF AuthorizedBudget, PlainStep, Step, IfMAT, SaysBudget, rc
    <2> QED
      BY <2>1, <2>2
  <1> QED
    BY <1>1, <1>3 DEF Answering, ToContext, BeforeMAT, OnCommitment

LEMMA ContextTold == ASSUME IInv, Answering, Context PROVE Answering'
  <1>1. /\ pc = "context" /\ pc' = "outcomes" /\ UNCHANGED <<in, mat, com>>
    BY DEF Context, PlainStep, Step
  <1>3. Members(checks') = Members(checks) \cup SaysContext(in)
    <2>1. CASE in.context = <<>>
      <3>1. SaysContext(in) = {}
        BY <2>1 DEF SaysContext, rc
      <3>2. Report(<<>>)
        BY <2>1 DEF Context, PlainStep, Step, IfMAT
      <3> QED
        BY <3>1, <3>2, ToldNothing
    <2>2. CASE ~(in.context = <<>>)
      BY <2>2, ToldTwo DEF Context, PlainStep, Step, IfMAT, SaysContext, rc
    <2> QED
      BY <2>1, <2>2
  <1> QED
    BY <1>1, <1>3 DEF Answering, ToOutcomes, BeforeMAT, OnCommitment

LEMMA OutcomesTold == ASSUME IInv, Answering, Outcomes PROVE Answering'
  <1>1. /\ pc = "outcomes" /\ pc' = "confirmation" /\ UNCHANGED <<in, mat, com>>
    BY DEF Outcomes, PlainStep, Step
  <1>2. mat = MATIn(in)
    BY <1>1 DEF Answering, BeforeMAT, OnCommitment
  <1>3. Members(checks') = Members(checks) \cup SaysOutcomes(in)
    <2>1. CASE in.context = <<>> \/ mat = <<>>
      <3>1. SaysOutcomes(in) = {}
        BY <1>2, <2>1 DEF SaysOutcomes, rc
      <3>2. Report(<<>>)
        BY <2>1 DEF Outcomes, PlainStep, Step, IfMAT
      <3> QED
        BY <3>1, <3>2, ToldNothing
    <2>2. CASE ~(in.context = <<>> \/ mat = <<>>)
      BY <1>2, <2>2, ToldTwo DEF Outcomes, PlainStep, Step, IfMAT, SaysOutcomes, rc
    <2> QED
      BY <2>1, <2>2
  <1> QED
    BY <1>1, <1>3 DEF Answering, ToConfirmation, BeforeMAT, OnCommitment

LEMMA ConfirmationTold == ASSUME IInv, Answering, Confirmation PROVE Answering'
  <1>1. /\ pc = "confirmation" /\ pc' = "chain" /\ UNCHANGED <<in, mat, com>>
    BY DEF Confirmation, PlainStep, Step
  <1>3. Members(checks') = Members(checks) \cup SaysConfirmation(in)
    BY ToldOne DEF Confirmation, PlainStep, Step, SaysConfirmation, rc
  <1> QED
    BY <1>1, <1>3 DEF Answering, ToChain, BeforeMAT, OnCommitment

LEMMA ChainTold == ASSUME IInv, Answering, Chain PROVE Answering'
  <1>1. /\ pc = "chain" /\ pc' = "commitment" /\ UNCHANGED <<in, mat, com>>
    BY DEF Chain, PlainStep, Step
  <1>3. Members(checks') = Members(checks) \cup SaysChain(in)
    <2>1. CASE in.prior = <<>>
      <3>1. SaysChain(in) = {}
        BY <2>1 DEF SaysChain, rc
      <3>2. Report(<<>>)
        BY <2>1 DEF Chain, PlainStep, Step, IfMAT
      <3> QED
        BY <3>1, <3>2, ToldNothing
    <2>2. CASE ~(in.prior = <<>>)
      BY <2>2, ToldOne DEF Chain, PlainStep, Step, IfMAT, SaysChain, rc
    <2> QED
      BY <2>1, <2>2
  <1> QED
    BY <1>1, <1>3 DEF Answering, ToCommitment, BeforeMAT, OnCommitment

LEMMA AuthorityTold == ASSUME IInv, Answering, Authority PROVE Answering'
  <1>1. /\ pc = "authority" /\ pc' = "compliance" /\ UNCHANGED <<in, mat, com>>
    BY DEF Authority, PlainStep, Step
  <1>2. mat = MATIn(in) /\ com = ComIn(in)
    BY <1>1 DEF Answering, BeforeMAT, OnCommitment
  <1>3. Members(checks') = Members(checks) \cup SaysAuthority(in)
    BY <1>2, ToldTwo DEF Authority, PlainStep, Step, SaysAuthority, rc
  <1> QED
    BY <1>1, <1>3 DEF Answering, ToCompliance, BeforeMAT, OnCommitment

LEMMA ProvenanceTold == ASSUME IInv, Answering, Provenance PROVE Answering'
  <1>1. /\ pc = "provenance" /\ pc' = "windows" /\ UNCHANGED <<in, mat, com>>
    BY DEF Provenance, PlainStep, Step
  <1>2. com = ComIn(in)
    BY <1>1 DEF Answering, BeforeMAT, OnCommitment
  <1>3. Members(checks') = Members(checks) \cup SaysProvenance(in)
    <2>1. CASE rc.provenance = <<>>
      <3>1. SaysProvenance(in) = {}
        BY <1>2, <2>1 DEF SaysProvenance, rc
      <3>2. Report(<<>>)
        BY <2>1 DEF Provenance, PlainStep, Step, IfMAT
      <3> QED
        BY <3>1, <3>2, ToldNothing
    <2>2. CASE ~(rc.provenance = <<>>)
      BY <1>2, <2>2, ToldOne DEF Provenance, PlainStep, Step, IfMAT, SaysProvenance, rc
    <2> QED
      BY <2>1, <2>2
  <1> QED
    BY <1>1, <1>3 DEF Answering, ToWindows, BeforeMAT, OnCommitment

LEMMA WindowsTold == ASSUME IInv, Answering, Windows PROVE Answering'
  <1>1. /\ pc = "windows" /\ pc' = "identity" /\ UNCHANGED <<in, mat, com>>
    BY DEF Windows, PlainStep, Step
  <1>2. com = ComIn(in)
    BY <1>1 DEF Answering, BeforeMAT, OnCommitment
  <1>3. Members(checks') = Members(checks) \cup SaysWindows(in)
    BY <1>2, ToldTwo DEF Windows, PlainStep, Step, SaysWindows, rc
  <1> QED
    BY <1>1, <1>3 DEF Answering, ToIdentity, BeforeMAT, OnCommitment

LEMMA IdentityTold == ASSUME IInv, Answering, Identity PROVE Answering'
  <1>1. /\ pc = "identity" /\ pc' = "commitment_digest" /\ UNCHANGED <<in, mat, com>>
    BY DEF Identity, PlainStep, Step
  <1>2. mat = MATIn(in) /\ com = ComIn(in)
    BY <1>1 DEF Answering, BeforeMAT, OnCommitment
  <1>3. Members(checks') = Members(checks) \cup SaysIdentity(in)
    BY <1>2, ToldTwo DEF Identity, PlainStep, Step, SaysIdentity, rc
  <1> QED
    BY <1>1, <1>3 DEF Answering, ToDigest, BeforeMAT, OnCommitment

LEMMA ComplianceTold == ASSUME IInv, Answering, Compliance PROVE Answering'
  <1>1. /\ pc = "compliance" /\ pc' = "provenance" /\ UNCHANGED <<in, mat, com>>
    BY DEF Compliance, PlainStep, Step
  <1>2. mat = MATIn(in) /\ com = ComIn(in)
    BY <1>1 DEF Answering, BeforeMAT, OnCommitment
  <1>3. Members(checks') = Members(checks) \cup SaysCompliance(in)
    <2> DEFINE ac == rc.compliance[1]
    <2>1. CASE rc.compliance = <<>> \/ ac.action = <<>>
      <3>1. SaysCompliance(in) = {}
        BY <2>1 DEF SaysCompliance, rc
      <3>2. Report(<<>>)
        BY <2>1 DEF Compliance, PlainStep, Step
      <3> QED
        BY <3>1, <3>2, ToldNothing
    <2>2. CASE ~(rc.compliance = <<>> \/ ac.action = <<>>)
      <3> DEFINE a == Check("compliance_commitment_check",
                            PassIf(ac.commitment_check = DeclaresAction(com[1], ac.action)))
                 b == Check("compliance_scope_check",
                            Judge(mat # <<>>,
                                  ac.scope_check = CoversOperation(mat[1], ac.action, <<>>)))
                 c == Check("compliance_boundary_check",
                            Judge(mat # <<>>,
                                  ac.boundary_check
                                      = (ac.action \notin mat[1].boundary.exclusions)))
      <3>1. Report(<<a, b, c>>)
        BY <2>2 DEF Compliance, PlainStep, Step
      <3>2. SaysCompliance(in) = {a, b, c}
        BY <1>2, <2>2 DEF SaysCompliance, rc
      <3> HIDE DEF a, b, c
      <3> QED
        BY <3>1, <3>2, ToldThree
    <2> QED
      BY <2>1, <2>2
  <1> QED
    BY <1>1, <1>3 DEF Answering, ToProvenance, BeforeMAT, OnCommitment

LEMMA ReceiptSignatureTold == ASSUME IInv, Answering, ReceiptSignature PROVE Answering'
  <1>1. /\ pc = "receipt_signature" /\ in' = in
        /\ pc' = IF ReceiptParses(in.receipt, Anchors) THEN "structure" ELSE "done"
        /\ Report(<<Check("receipt_signature", PassIf(ReceiptParses(in.receipt, Anchors)))>>)
    BY DEF ReceiptSignature, Step
  <1>2. Members(checks') = Members(checks) \cup SaysSignature(in)
    BY <1>1, ToldOne DEF SaysSignature
  <1>3. Members(checks') = SaysSignature(in)
    BY <1>1, <1>2 DEF Answering
  <1> QED
    BY <1>1, <1>3 DEF Answering, Answers, BeforeMAT, OnCommitment

LEMMA GoverningMATTold == ASSUME IInv, Answering, GoverningMAT PROVE Answering'
  <1>1. /\ pc = "mat" /\ pc' = "scope" /\ in' = in /\ mat' = MATIn(in)
    BY DEF GoverningMAT, Step, MATIn
  <1>2. Members(checks') = Members(checks) \cup SaysMAT(in)
    <2>1. CASE in.mat = <<>>
      <3>1. SaysMAT(in) = {}
        BY <2>1 DEF SaysMAT
      <3>2. Report(<<>>)
        BY <2>1 DEF GoverningMAT, Step
      <3> QED
        BY <3>1, <3>2, ToldNothing
    <2>2. CASE in.mat # <<>> /\ ~MATParses(in.mat[1], Anchors)
      BY <2>2, ToldOne DEF GoverningMAT, Step, SaysMAT
    <2>3. CASE in.mat # <<>> /\ MATParses(in.mat[1], Anchors)
      BY <2>3, ToldTwo DEF GoverningMAT, Step, SaysMAT, rc
    <2> QED
      BY <2>1, <2>2, <2>3
  <1> QED
    BY <1>1, <1>2 DEF Answering, ToScope, BeforeMAT, OnCommitment

LEMMA CommitmentTold == ASSUME IInv, Answering, Commitment PROVE Answering'
  <1>1. /\ pc = "commitment" /\ UNCHANGED <<in, mat>> /\ com' = ComIn(in)
        /\ pc' = IF in.commitment # <<>> /\ CommitmentParses(in.commitment[1], Anchors)
                 THEN "authority" ELSE "inventory"
    BY DEF Commitment, Step, ComIn
  <1>2. Members(checks') = Members(checks) \cup SaysCommitment(in)
    <2>1. CASE in.commitment = <<>>
      <3>1. SaysCommitment(in) = {}
        BY <2>1 DEF SaysCommitment
      <3>2. Report(<<>>)
        BY <2>1 DEF Commitment, Step
      <3> QED
        BY <3>1, <3>2, ToldNothing
    <2>2. CASE in.commitment # <<>>
      <3> DEFINE ok == in.commitment # <<>> /\ CommitmentParses(in.commitment[1], Anchors)
      <3>1. Report(<<Check("commitment_signature", PassIf(ok))>>)
        BY <2>2 DEF Commitment, Step
      <3>2. PassIf(ok) = PassIf(CommitmentParses(in.commitment[1], Anchors))
        BY <2>2 DEF PassIf
      <3> HIDE DEF ok
      <3>3. SaysCommitment(in) = {Check("commitment_signature", PassIf(ok))}
        BY <2>2, <3>2 DEF SaysCommitment
      <3> QED
        BY <3>1, <3>3, ToldOne
    <2> QED
      BY <2>1, <2>2
  <1>3. Members(checks') = ToAuthority(in)
    BY <1>1, <1>2 DEF Answering, ToAuthority
  <1>4. CASE pc' = "authority"
    <2>1. ComIn(in) # <<>>
      BY <1>1, <1>4 DEF ComIn
    <2> QED
      BY <1>1, <1>3, <1>4, <2>1 DEF Answering, BeforeMAT, OnCommitment
  <1>5. CASE pc' = "inventory"
    <2>1. ComIn(in) = <<>>
      BY <1>1, <1>5 DEF ComIn
    <2>2. Said(in) = ToAuthority(in)
      BY <2>1 DEF Said, OfCommitment
    <2> QED
      BY <1>1, <1>3, <1>5, <2>2 DEF Answering, BeforeMAT, OnCommitment
  <1> QED
    BY <1>1, <1>4, <1>5

LEMMA CommitmentDigestTold == ASSUME IInv, Answering, CommitmentDigest PROVE Answering'
  <1>1. /\ pc = "commitment_digest" /\ pc' = "inventory" /\ UNCHANGED <<in, mat, com>>
    BY DEF CommitmentDigest, PlainStep, Step
  <1>2. com = ComIn(in) /\ ComIn(in) # <<>>
    BY <1>1 DEF Answering, OnCommitment
  <1>3. Members(checks') = Members(checks) \cup SaysDigest(in)
    <2>1. CASE rc.commitment_digest = <<>>
      <3>1. SaysDigest(in) = {}
        BY <2>1 DEF SaysDigest, rc
      <3>2. Report(<<>>)
        BY <2>1 DEF CommitmentDigest, PlainStep, Step
      <3> QED
        BY <3>1, <3>2, ToldNothing
    <2>2. CASE rc.commitment_digest # <<>>
      BY <1>2, <2>2, ToldOne DEF CommitmentDigest, PlainStep, Step, SaysDigest, rc
    <2> QED
      BY <2>1, <2>2
  <1>4. Said(in) = ToDigest(in) \cup SaysDigest(in)
    BY <1>2 DEF Said, OfCommitment, ToDigest, ToIdentity, ToWindows, ToProvenance, ToCompliance
  <1> QED
    BY <1>1, <1>3, <1>4 DEF Answering, BeforeMAT, OnCommitment

LEMMA InventoryTold == ASSUME IInv, Answering, Inventory PROVE Answering'
  <1>1. /\ pc = "inventory" /\ pc' = "reconcile" /\ UNCHANGED <<in, mat, com, next>>
        /\ Report(<<>>) /\ emitted' = NamesOf(checks)
    BY DEF Inventory, Step
  <1>2. Members(checks') = Said(in) /\ Members(checks) = Said(in)
    BY <1>1, ToldNothing DEF Answering
  <1>3. emitted' = NamesIn(Said(in))
    <2>1. NamesOf(checks) = NamesIn(Members(checks))
      BY DEF NamesOf, NamesIn, Members
    <2> QED
      BY <1>1, <1>2, <2>1
  <1>4. Unsaid(in, Walked(next')) = {}
    <2>1. next' = 1
      BY <1>1 DEF IInv, Reconciling
    <2>2. Walked(1) = {}
      BY DEF Walked
    <2> QED
      BY <2>1, <2>2 DEF Unsaid
  <1>5. Walked(next)' = Walked(next')
    BY DEF Walked
  <1> QED
    BY <1>1, <1>2, <1>3, <1>4, <1>5 DEF Answering, BeforeMAT, OnCommitment

LEMMA ReconcileTold == ASSUME IInv, Answering, Reconcile PROVE Answering'
  <1> DEFINE name == receiptCarriedChecks[next]
             silent == Check(name, "not_performed")
  <1>1. /\ pc = "reconcile" /\ pc' = "reconcile" /\ UNCHANGED <<in, mat, com, emitted>>
        /\ Report(IF name \in emitted THEN <<>> ELSE <<silent>>)
        /\ next' = next + 1 /\ next \in 1..12
    BY Twelve DEF Reconcile, Step, IInv, TypeOK
  <1>2. Walked(next + 1) = Walked(next) \cup {name}
    <2>1. /\ \A i \in 1..((next + 1) - 1) : i = next \/ i \in 1..(next - 1)
          /\ \A i \in 1..(next - 1) : i \in 1..((next + 1) - 1)
          /\ next \in 1..((next + 1) - 1)
      BY <1>1
    <2> QED
      BY <2>1, Zenon DEF Walked
  <1>3. /\ emitted = NamesIn(Said(in))
        /\ Members(checks) = Said(in) \cup Unsaid(in, Walked(next))
    BY <1>1 DEF Answering
  <1>4. Unsaid(in, Walked(next) \cup {name})
            = Unsaid(in, Walked(next)) \cup (IF name \in emitted THEN {} ELSE {silent})
    BY <1>3 DEF Unsaid
  <1>5. Members(checks')
            = Members(checks) \cup (IF name \in emitted THEN {} ELSE {silent})
    <2> HIDE DEF silent, name
    <2>1. CASE name \in emitted
      <3>1. Report(<<>>)
        BY <1>1, <2>1
      <3> QED
        BY <2>1, <3>1, ToldNothing
    <2>2. CASE name \notin emitted
      <3>1. Report(<<silent>>)
        BY <1>1, <2>2
      <3> QED
        BY <2>2, <3>1, ToldOne
    <2> QED
      BY <2>1, <2>2
  <1>6. Members(checks') = Said(in) \cup Unsaid(in, Walked(next'))
    <2> HIDE DEF silent, name
    <2> QED
      BY <1>1, <1>2, <1>3, <1>4, <1>5
  <1>7. Walked(next)' = Walked(next')
    BY DEF Walked
  <1> QED
    BY <1>1, <1>3, <1>6, <1>7 DEF Answering, BeforeMAT, OnCommitment

LEMMA ReturnTold == ASSUME IInv, Answering, Return PROVE Answering'
  <1>1. /\ pc = "reconcile" /\ pc' = "done" /\ in' = in /\ Report(<<>>) /\ next = 13
    BY Twelve DEF Return, PlainStep, Step, IInv, TypeOK
  <1>2. Members(checks') = Members(checks)
    BY <1>1, ToldNothing
  <1>3. Walked(13) = Carried
    BY Twelve DEF Walked, Carried
  <1>4. Members(checks) = Said(in) \cup Unsaid(in, Carried) /\ ReceiptParses(in.receipt, Anchors)
    BY <1>1, <1>3 DEF Answering
  <1>5. Members(checks') = Answers(in)
    BY <1>2, <1>4 DEF Answers
  <1> QED
    BY <1>1, <1>5 DEF Answering, BeforeMAT, OnCommitment

LEMMA FreshTold == Fresh => Answering
  BY DEF Fresh, Answering, BeforeMAT, OnCommitment, Members

LEMMA InitTold == Init => Answering
  BY FreshTold DEF Init

LEMMA NextTold == IInv /\ Answering /\ [Next]_vars => Answering'
  <1> SUFFICES ASSUME IInv, Answering, [Next]_vars PROVE Answering'
    OBVIOUS
  <1>1. CASE UNCHANGED vars
    <2>1. Members(checks)' = Members(checks) /\ Walked(next)' = Walked(next)
      BY <1>1 DEF vars, Members, Walked
    <2> QED
      BY <1>1, <2>1 DEF vars, Answering
  <1>2. CASE Next
    BY <1>2, ReceiptSignatureTold, StructureTold, ReplayUnseenTold, ReceiptFinalTold,
       EnforcementPointTold, SelfTimingTold, GoverningMATTold, ScopeCheckTold, EvidenceTold,
       AuthorizedBudgetTold, ContextTold, OutcomesTold, ConfirmationTold, ChainTold,
       CommitmentTold, AuthorityTold, ComplianceTold, ProvenanceTold, WindowsTold, IdentityTold,
       CommitmentDigestTold, InventoryTold, ReconcileTold, ReturnTold DEF Next
  <1> QED
    BY <1>1, <1>2

\* The checks of a finished call are those Answers gives for its input: nothing
\* a verifier did before, and no order of its steps, shows in them.
AnswersFromInput == pc = "done" => Members(checks) = Answers(in)

\* Two calls with equal inputs report equal checks: Verify is a function.
THEOREM DeterminedByInput == Spec => []AnswersFromInput
  <1>1. Answering => AnswersFromInput
    BY DEF Answering, AnswersFromInput
  <1> QED
    BY <1>1, InitInv, NextInv, InitTold, NextTold, PTL DEF Spec

------------------------------------------------------------------------------
(* 3. What is withheld.                                                     *)

\* y is x with some of the optional inputs withheld.
Lesser(x, y) ==
    /\ y.receipt = x.receipt
    /\ y.mat = x.mat \/ y.mat = <<>>
    /\ y.context = x.context \/ y.context = <<>>
    /\ y.prior = x.prior \/ y.prior = <<>>
    /\ y.confirmed = x.confirmed \/ y.confirmed = <<>>
    /\ y.commitment = x.commitment \/ y.commitment = <<>>
    /\ y.replay = x.replay \/ y.replay = <<>>

\* A check of T says what S says under its name, or not_performed; a check of S
\* is only missing from T under a name of gone.
Lowered(S, T, gone) ==
    /\ \A c \in T : \E b \in S : b.name = c.name /\ c.status \in {b.status, "not_performed"}
    /\ \A b \in S : b.name \in gone \/ \E c \in T : c.name = b.name

\* What the steps may leave unsaid: the inventory restores the carried ones.
Gone(x, y) == Carried \cup LeavesWith(x, y)

\* The call in progress is sound; the first one, when there is a second, gave the
\* answer for its input, which was what the second is given and more.
PairInv ==
    /\ IInv /\ Answering
    /\ full = <<>> => in \in Inputs
    /\ full # <<>> => /\ NoRepeat(full[1].checks)
                      /\ Members(full[1].checks) = Answers(full[1].in)
                      /\ Lesser(full[1].in, in)

------------------------------------------------------------------------------
(* Comparing sets of checks.                                                *)

LEMMA LoweredSame == ASSUME NEW S, NEW gone PROVE Lowered(S, S, gone)
  BY DEF Lowered

LEMMA LoweredGone ==
    ASSUME NEW S, NEW gone, NamesIn(S) \subseteq gone
    PROVE  Lowered(S, {}, gone)
  BY DEF Lowered, NamesIn

LEMMA LoweredUnion ==
    ASSUME NEW S1, NEW T1, NEW S2, NEW T2, NEW gone,
           Lowered(S1, T1, gone), Lowered(S2, T2, gone)
    PROVE  Lowered(S1 \cup S2, T1 \cup T2, gone)
  BY DEF Lowered

\* One check, of the same name, with the same status or not performed.
LEMMA LoweredOne ==
    ASSUME NEW n, NEW s, NEW t, NEW gone, t \in {s, "not_performed"}
    PROVE  Lowered({Check(n, s)}, {Check(n, t)}, gone)
  BY DEF Lowered, Check

LEMMA LoweredTwo ==
    ASSUME NEW n1, NEW s1, NEW t1, NEW n2, NEW s2, NEW t2, NEW gone,
           t1 \in {s1, "not_performed"}, t2 \in {s2, "not_performed"}
    PROVE  Lowered({Check(n1, s1), Check(n2, s2)}, {Check(n1, t1), Check(n2, t2)}, gone)
  BY DEF Lowered, Check

LEMMA LoweredThree ==
    ASSUME NEW n1, NEW s1, NEW t1, NEW n2, NEW s2, NEW t2, NEW n3, NEW s3, NEW t3, NEW gone,
           t1 \in {s1, "not_performed"}, t2 \in {s2, "not_performed"},
           t3 \in {s3, "not_performed"}
    PROVE  Lowered({Check(n1, s1), Check(n2, s2), Check(n3, s3)},
                   {Check(n1, t1), Check(n2, t2), Check(n3, t3)}, gone)
  BY DEF Lowered, Check

------------------------------------------------------------------------------
(* What a withheld input leaves of the two parsed artifacts.                *)

LEMMA LesserArtifacts ==
    ASSUME NEW x, NEW y, Lesser(x, y)
    PROVE  /\ MATIn(y) = MATIn(x) \/ MATIn(y) = <<>>
           /\ ComIn(y) = ComIn(x) \/ ComIn(y) = <<>>
           /\ (ComIn(y) = <<>> /\ ComIn(x) # <<>>)
                 => CommitmentChecks \cup ClaimChecks \subseteq Gone(x, y)
  <1>1. MATIn(y) = MATIn(x) \/ MATIn(y) = <<>>
    BY DEF Lesser, MATIn
  <1>2. ComIn(y) = ComIn(x) \/ ComIn(y) = <<>>
    BY DEF Lesser, ComIn
  <1>3. (ComIn(y) = <<>> /\ ComIn(x) # <<>>) => x.commitment # <<>> /\ y.commitment = <<>>
    BY DEF Lesser, ComIn
  <1>4. (x.commitment # <<>> /\ y.commitment = <<>>)
           => CommitmentChecks \cup ClaimChecks \subseteq Gone(x, y)
    BY DEF Gone, LeavesWith, OwnClaims
  <1> QED
    BY <1>1, <1>2, <1>3, <1>4

------------------------------------------------------------------------------
(* Step by step.                                                            *)

\* These steps read the receipt alone.
LEMMA ReceiptLowered ==
    ASSUME NEW x, NEW y, Lesser(x, y)
    PROVE  /\ SaysSignature(y) = SaysSignature(x) /\ SaysStructure(y) = SaysStructure(x)
           /\ SaysFinal(y) = SaysFinal(x) /\ SaysPoint(y) = SaysPoint(x)
           /\ SaysTiming(y) = SaysTiming(x)
  <1>1. y.receipt = x.receipt
    BY DEF Lesser
  <1> QED
    BY <1>1 DEF SaysSignature, SaysStructure, SaysFinal, SaysPoint, SaysTiming

\* The caller's record and the confirmed receipt are judged or not performed.
LEMMA ReplayLowered ==
    ASSUME NEW x, NEW y, Lesser(x, y)
    PROVE  Lowered(SaysReplay(x), SaysReplay(y), Gone(x, y))
  <1> DEFINE j(z) == Judge(z.replay # <<>>, Digest(z.receipt.payload) \notin z.replay[1])
  <1>1. y.receipt = x.receipt /\ (y.replay = x.replay \/ y.replay = <<>>)
    BY DEF Lesser
  <1>2. j(y) \in {j(x), "not_performed"}
    BY <1>1 DEF Judge
  <1>3. /\ SaysReplay(x) = {Check("replay_receipt_unseen", j(x))}
        /\ SaysReplay(y) = {Check("replay_receipt_unseen", j(y))}
    BY DEF SaysReplay
  <1> HIDE DEF j
  <1> QED
    BY <1>2, <1>3, LoweredOne

LEMMA ConfirmationLowered ==
    ASSUME NEW x, NEW y, Lesser(x, y)
    PROVE  Lowered(SaysConfirmation(x), SaysConfirmation(y), Gone(x, y))
  <1> DEFINE j(z) == ConfirmationLink(z.receipt.payload, z.confirmed)
  <1>1. y.receipt = x.receipt /\ (y.confirmed = x.confirmed \/ y.confirmed = <<>>)
    BY DEF Lesser
  <1>2. j(y) \in {j(x), "not_performed"}
    BY <1>1 DEF ConfirmationLink, Judge
  <1>3. /\ SaysConfirmation(x) = {Check("confirmation_link", j(x))}
        /\ SaysConfirmation(y) = {Check("confirmation_link", j(y))}
    BY DEF SaysConfirmation
  <1> HIDE DEF j
  <1> QED
    BY <1>2, <1>3, LoweredOne

\* The steps of the MAT, the context and the prior receipt say what they said, or
\* nothing, and what they leave unsaid the inventory reports.
LEMMA MATLowered ==
    ASSUME NEW x, NEW y, Lesser(x, y)
    PROVE  Lowered(SaysMAT(x), SaysMAT(y), Gone(x, y))
  <1>1. y.receipt = x.receipt /\ (y.mat = x.mat \/ y.mat = <<>>)
    BY DEF Lesser
  <1>2. CASE y.mat = x.mat
    <2>1. SaysMAT(y) = SaysMAT(x)
      BY <1>1, <1>2 DEF SaysMAT
    <2> QED
      BY <2>1, LoweredSame
  <1>3. CASE y.mat = <<>> /\ x.mat # <<>>
    <2>1. {"mat_signature", "artifact_binding"} \subseteq Gone(x, y)
      BY <1>3, CarriedNames DEF Gone, LeavesWith, OwnClaims
    <2>2. NamesIn(SaysMAT(x)) \subseteq Gone(x, y)
      BY <2>1 DEF NamesIn, SaysMAT, Check
    <2>3. SaysMAT(y) = {}
      BY <1>3 DEF SaysMAT
    <2> QED
      BY <2>2, <2>3, LoweredGone
  <1> QED
    BY <1>1, <1>2, <1>3

LEMMA ScopeLowered ==
    ASSUME NEW x, NEW y, Lesser(x, y)
    PROVE  Lowered(SaysScope(x), SaysScope(y), Gone(x, y))
  <1>1. /\ y.receipt = x.receipt
        /\ MATIn(y) = MATIn(x) \/ MATIn(y) = <<>>
    BY LesserArtifacts DEF Lesser
  <1>2. SaysScope(y) = SaysScope(x) \/ SaysScope(y) = {}
    BY <1>1 DEF SaysScope
  <1>3. NamesIn(SaysScope(x)) \subseteq Gone(x, y)
    BY CarriedNames DEF NamesIn, SaysScope, Check, Gone
  <1> QED
    BY <1>2, <1>3, LoweredSame, LoweredGone

LEMMA EvidenceLowered ==
    ASSUME NEW x, NEW y, Lesser(x, y)
    PROVE  Lowered(SaysEvidence(x), SaysEvidence(y), Gone(x, y))
  <1>1. /\ y.receipt = x.receipt
        /\ MATIn(y) = MATIn(x) \/ MATIn(y) = <<>>
    BY LesserArtifacts DEF Lesser
  <1>2. SaysEvidence(y) = SaysEvidence(x) \/ SaysEvidence(y) = {}
    BY <1>1 DEF SaysEvidence
  <1>3. NamesIn(SaysEvidence(x)) \subseteq Gone(x, y)
    BY CarriedNames DEF NamesIn, SaysEvidence, Check, Gone
  <1> QED
    BY <1>2, <1>3, LoweredSame, LoweredGone

LEMMA BudgetLowered ==
    ASSUME NEW x, NEW y, Lesser(x, y)
    PROVE  Lowered(SaysBudget(x), SaysBudget(y), Gone(x, y))
  <1>1. /\ y.receipt = x.receipt
        /\ MATIn(y) = MATIn(x) \/ MATIn(y) = <<>>
    BY LesserArtifacts DEF Lesser
  <1>2. SaysBudget(y) = SaysBudget(x) \/ SaysBudget(y) = {}
    BY <1>1 DEF SaysBudget
  <1>3. NamesIn(SaysBudget(x)) \subseteq Gone(x, y)
    BY CarriedNames DEF NamesIn, SaysBudget, Check, Gone
  <1> QED
    BY <1>2, <1>3, LoweredSame, LoweredGone

LEMMA ContextLowered ==
    ASSUME NEW x, NEW y, Lesser(x, y)
    PROVE  Lowered(SaysContext(x), SaysContext(y), Gone(x, y))
  <1>1. /\ y.receipt = x.receipt
        /\ y.context = x.context \/ y.context = <<>>
    BY LesserArtifacts DEF Lesser
  <1>2. SaysContext(y) = SaysContext(x) \/ SaysContext(y) = {}
    BY <1>1 DEF SaysContext
  <1>3. NamesIn(SaysContext(x)) \subseteq Gone(x, y)
    BY CarriedNames DEF NamesIn, SaysContext, Check, Gone
  <1> QED
    BY <1>2, <1>3, LoweredSame, LoweredGone

LEMMA OutcomesLowered ==
    ASSUME NEW x, NEW y, Lesser(x, y)
    PROVE  Lowered(SaysOutcomes(x), SaysOutcomes(y), Gone(x, y))
  <1>1. /\ y.receipt = x.receipt
        /\ MATIn(y) = MATIn(x) \/ MATIn(y) = <<>>
        /\ y.context = x.context \/ y.context = <<>>
    BY LesserArtifacts DEF Lesser
  <1>2. SaysOutcomes(y) = SaysOutcomes(x) \/ SaysOutcomes(y) = {}
    BY <1>1 DEF SaysOutcomes
  <1>3. NamesIn(SaysOutcomes(x)) \subseteq Gone(x, y)
    BY CarriedNames DEF NamesIn, SaysOutcomes, Check, Gone
  <1> QED
    BY <1>2, <1>3, LoweredSame, LoweredGone

LEMMA ChainLowered ==
    ASSUME NEW x, NEW y, Lesser(x, y)
    PROVE  Lowered(SaysChain(x), SaysChain(y), Gone(x, y))
  <1>1. /\ y.receipt = x.receipt
        /\ y.prior = x.prior \/ y.prior = <<>>
    BY LesserArtifacts DEF Lesser
  <1>2. SaysChain(y) = SaysChain(x) \/ SaysChain(y) = {}
    BY <1>1 DEF SaysChain
  <1>3. NamesIn(SaysChain(x)) \subseteq Gone(x, y)
    BY CarriedNames DEF NamesIn, SaysChain, Check, Gone
  <1> QED
    BY <1>2, <1>3, LoweredSame, LoweredGone

\* The commitment's own checks, and those of what the receipt claims about it,
\* leave with it; those that compare it with the MAT stay without the MAT.
LEMMA CommitmentLowered ==
    ASSUME NEW x, NEW y, Lesser(x, y)
    PROVE  Lowered(SaysCommitment(x), SaysCommitment(y), Gone(x, y))
  <1>1. y.commitment = x.commitment \/ y.commitment = <<>>
    BY DEF Lesser
  <1>2. CASE y.commitment = x.commitment
    <2>1. SaysCommitment(y) = SaysCommitment(x)
      BY <1>2 DEF SaysCommitment
    <2> QED
      BY <2>1, LoweredSame
  <1>3. CASE y.commitment = <<>> /\ x.commitment # <<>>
    <2>1. "commitment_signature" \in Gone(x, y)
      BY <1>3 DEF Gone, LeavesWith, OwnClaims, CommitmentChecks
    <2>2. NamesIn(SaysCommitment(x)) \subseteq Gone(x, y)
      BY <2>1 DEF NamesIn, SaysCommitment, Check
    <2>3. SaysCommitment(y) = {}
      BY <1>3 DEF SaysCommitment
    <2> QED
      BY <2>2, <2>3, LoweredGone
  <1> QED
    BY <1>1, <1>2, <1>3

LEMMA AuthorityLowered ==
    ASSUME NEW x, NEW y, Lesser(x, y), ComIn(y) = ComIn(x)
    PROVE  Lowered(SaysAuthority(x), SaysAuthority(y), Gone(x, y))
  <1> DEFINE b(z) == Judge(MATIn(z) # <<>>, VerifyBinding(ComIn(z)[1], MATIn(z)[1]))
             s(z) == Judge(MATIn(z) # <<>>,
                           CommitmentScope(z.receipt.payload, ComIn(z)[1], MATIn(z)[1]))
  <1>1. y.receipt = x.receipt /\ (MATIn(y) = MATIn(x) \/ MATIn(y) = <<>>)
    BY LesserArtifacts DEF Lesser
  <1>2. b(y) \in {b(x), "not_performed"} /\ s(y) \in {s(x), "not_performed"}
    BY <1>1 DEF Judge
  <1>3. \A z : SaysAuthority(z) = {Check("commitment_binding", b(z)),
                                   Check("commitment_scope", s(z))}
    BY DEF SaysAuthority
  <1> HIDE DEF b, s
  <1> QED
    BY <1>2, <1>3, LoweredTwo

LEMMA ComplianceLowered ==
    ASSUME NEW x, NEW y, Lesser(x, y), ComIn(y) = ComIn(x)
    PROVE  Lowered(SaysCompliance(x), SaysCompliance(y), Gone(x, y))
  <1> DEFINE ac == x.receipt.payload.compliance[1]
             d == PassIf(ac.commitment_check = DeclaresAction(ComIn(x)[1], ac.action))
             s(m) == Judge(m # <<>>, ac.scope_check = CoversOperation(m[1], ac.action, <<>>))
             e(m) == Judge(m # <<>>,
                           ac.boundary_check = (ac.action \notin m[1].boundary.exclusions))
             all(m) == {Check("compliance_commitment_check", d),
                        Check("compliance_scope_check", s(m)),
                        Check("compliance_boundary_check", e(m))}
  <1>1. y.receipt = x.receipt /\ (MATIn(y) = MATIn(x) \/ MATIn(y) = <<>>)
    BY LesserArtifacts DEF Lesser
  <1>2. CASE x.receipt.payload.compliance = <<>> \/ ac.action = <<>>
    <2>1. SaysCompliance(x) = {} /\ SaysCompliance(y) = {}
      BY <1>1, <1>2 DEF SaysCompliance
    <2> QED
      BY <2>1, LoweredSame
  <1>3. CASE ~(x.receipt.payload.compliance = <<>> \/ ac.action = <<>>)
    <2>1. SaysCompliance(x) = all(MATIn(x)) /\ SaysCompliance(y) = all(MATIn(y))
      BY <1>1, <1>3 DEF SaysCompliance
    <2>2. /\ s(MATIn(y)) \in {s(MATIn(x)), "not_performed"}
          /\ e(MATIn(y)) \in {e(MATIn(x)), "not_performed"}
      BY <1>1 DEF Judge
    <2>3. d \in {d, "not_performed"}
      OBVIOUS
    <2> HIDE DEF s, e, d
    <2> QED
      BY <2>1, <2>2, <2>3, LoweredThree
  <1> QED
    BY <1>2, <1>3

LEMMA IdentityLowered ==
    ASSUME NEW x, NEW y, Lesser(x, y), ComIn(y) = ComIn(x)
    PROVE  Lowered(SaysIdentity(x), SaysIdentity(y), Gone(x, y))
  <1> DEFINE w == AgentIdentityWellformed(ComIn(x)[1])
             b(z) == IF MATIn(z) = <<>> THEN "not_performed"
                     ELSE identitiesAgree(ComIn(z)[1].agent_identity,
                                          MATIn(z)[1].machine_identity)
  <1>1. MATIn(y) = MATIn(x) \/ MATIn(y) = <<>>
    BY LesserArtifacts
  <1>2. b(y) \in {b(x), "not_performed"} /\ w \in {w, "not_performed"}
    BY <1>1
  <1>3. /\ SaysIdentity(x) = {Check("agent_identity_wellformed", w),
                              Check("agent_identity_binding", b(x))}
        /\ SaysIdentity(y) = {Check("agent_identity_wellformed", w),
                              Check("agent_identity_binding", b(y))}
    BY DEF SaysIdentity
  <1> HIDE DEF b, w
  <1> QED
    BY <1>2, <1>3, LoweredTwo

LEMMA OfCommitmentLowered ==
    ASSUME NEW x, NEW y, Lesser(x, y)
    PROVE  Lowered(OfCommitment(x), OfCommitment(y), Gone(x, y))
  <1>1. CASE ComIn(y) = ComIn(x) /\ ComIn(x) # <<>>
    <2>1. /\ SaysProvenance(y) = SaysProvenance(x)
          /\ SaysWindows(y) = SaysWindows(x)
          /\ SaysDigest(y) = SaysDigest(x)
      BY <1>1 DEF Lesser, SaysProvenance, SaysWindows, SaysDigest
    <2> DEFINE rest(z) == SaysProvenance(z) \cup SaysWindows(z) \cup SaysDigest(z)
    <2>2. Lowered(rest(x), rest(y), Gone(x, y))
      BY <2>1, LoweredSame
    <2>3. \A z : ComIn(z) # <<>> =>
             OfCommitment(z) = (SaysAuthority(z) \cup SaysCompliance(z))
                               \cup (SaysIdentity(z) \cup rest(z))
      BY DEF OfCommitment
    <2> HIDE DEF rest
    <2>4. Lowered(SaysAuthority(x) \cup SaysCompliance(x),
                  SaysAuthority(y) \cup SaysCompliance(y), Gone(x, y))
      BY <1>1, AuthorityLowered, ComplianceLowered, LoweredUnion
    <2>5. Lowered(SaysIdentity(x) \cup rest(x), SaysIdentity(y) \cup rest(y), Gone(x, y))
      BY <1>1, <2>2, IdentityLowered, LoweredUnion
    <2> QED
      BY <1>1, <2>3, <2>4, <2>5, LoweredUnion
  <1>2. CASE ComIn(y) = <<>> /\ ComIn(x) # <<>>
    <2>1. CommitmentChecks \cup ClaimChecks \subseteq Gone(x, y)
      BY <1>2, LesserArtifacts
    <2>2. NamesIn(OfCommitment(x)) \subseteq CommitmentChecks \cup ClaimChecks
      <3>1. NamesIn(SaysAuthority(x)) \subseteq CommitmentChecks
        BY DEF NamesIn, SaysAuthority, Check, CommitmentChecks
      <3>2. NamesIn(SaysCompliance(x)) \subseteq ClaimChecks
        BY DEF NamesIn, SaysCompliance, Check, ClaimChecks
      <3>3. NamesIn(SaysProvenance(x)) \subseteq ClaimChecks
        BY DEF NamesIn, SaysProvenance, Check, ClaimChecks
      <3>4. NamesIn(SaysWindows(x)) \subseteq CommitmentChecks
        BY DEF NamesIn, SaysWindows, Check, CommitmentChecks
      <3>5. NamesIn(SaysIdentity(x)) \subseteq CommitmentChecks
        BY DEF NamesIn, SaysIdentity, Check, CommitmentChecks
      <3>6. NamesIn(SaysDigest(x)) \subseteq ClaimChecks
        BY DEF NamesIn, SaysDigest, Check, ClaimChecks
      <3> QED
        BY <3>1, <3>2, <3>3, <3>4, <3>5, <3>6 DEF NamesIn, OfCommitment
    <2>3. OfCommitment(y) = {}
      BY <1>2 DEF OfCommitment
    <2> QED
      BY <2>1, <2>2, <2>3, LoweredGone
  <1>3. CASE ComIn(y) = <<>> /\ ComIn(x) = <<>>
    <2>1. OfCommitment(x) = {} /\ OfCommitment(y) = {}
      BY <1>3 DEF OfCommitment
    <2> QED
      BY <2>1, LoweredSame
  <1> QED
    BY <1>1, <1>2, <1>3, LesserArtifacts

\* Everything the steps say, with less to go on.
LEMMA SaidLowered ==
    ASSUME NEW x, NEW y, Lesser(x, y)
    PROVE  Lowered(Said(x), Said(y), Gone(x, y))
  <1> DEFINE g == Gone(x, y)
             own(z) == SaysSignature(z) \cup SaysStructure(z) \cup SaysFinal(z)
                       \cup SaysPoint(z) \cup SaysTiming(z)
             late(z) == SaysReplay(z) \cup SaysConfirmation(z)
             graded(z) == SaysMAT(z) \cup SaysScope(z)
             proven(z) == SaysEvidence(z) \cup SaysBudget(z)
             placed(z) == SaysContext(z) \cup SaysOutcomes(z)
             bound(z) == SaysChain(z) \cup SaysCommitment(z)
  <1>1. Lowered(own(x), own(y), g)
    BY ReceiptLowered, LoweredSame
  <1>2. Lowered(late(x), late(y), g)
    BY ReplayLowered, ConfirmationLowered, LoweredUnion
  <1>3. Lowered(graded(x), graded(y), g)
    BY MATLowered, ScopeLowered, LoweredUnion
  <1>4. Lowered(proven(x), proven(y), g)
    BY EvidenceLowered, BudgetLowered, LoweredUnion
  <1>5. Lowered(placed(x), placed(y), g)
    BY ContextLowered, OutcomesLowered, LoweredUnion
  <1>6. Lowered(bound(x), bound(y), g)
    BY ChainLowered, CommitmentLowered, LoweredUnion
  <1>7. Lowered(OfCommitment(x), OfCommitment(y), g)
    BY OfCommitmentLowered
  <1>8. \A z : Said(z) = own(z) \cup (late(z) \cup (graded(z) \cup (proven(z) \cup
                            (placed(z) \cup (bound(z) \cup OfCommitment(z))))))
    BY DEF Said, ToAuthority, ToCommitment, ToChain, ToConfirmation, ToOutcomes, ToContext,
       ToBudget, ToEvidence, ToScope, ToMAT, ToTiming, ToPoint, ToFinal, ToReplay
  <1> HIDE DEF g, own, late, graded, proven, placed, bound
  <1> DEFINE s1(z) == bound(z) \cup OfCommitment(z)
             s2(z) == placed(z) \cup s1(z)
             s3(z) == proven(z) \cup s2(z)
             s4(z) == graded(z) \cup s3(z)
             s5(z) == late(z) \cup s4(z)
  <1>9. Lowered(s1(x), s1(y), g)
    BY <1>6, <1>7, LoweredUnion
  <1>10. Lowered(s2(x), s2(y), g)
    BY <1>5, <1>9, LoweredUnion
  <1>11. Lowered(s3(x), s3(y), g)
    BY <1>4, <1>10, LoweredUnion
  <1>12. Lowered(s4(x), s4(y), g)
    BY <1>3, <1>11, LoweredUnion
  <1>13. Lowered(s5(x), s5(y), g)
    BY <1>2, <1>12, LoweredUnion
  <1>14. Lowered(own(x) \cup s5(x), own(y) \cup s5(y), g)
    BY <1>1, <1>13, LoweredUnion
  <1> QED
    BY <1>8, <1>14 DEF g

------------------------------------------------------------------------------
(* From the answers to the statuses reported.                               *)

LEMMA StatusedOnce ==
    ASSUME NEW s, NEW b \in Members(s), NoRepeat(s)
    PROVE  Statused(s, b.name) = {b.status}
  <1>1. PICK i \in 1..Len(s) : b = s[i]
    BY DEF Members
  <1>2. \A j \in 1..Len(s) : s[j].name = b.name => j = i
    BY <1>1 DEF NoRepeat
  <1> QED
    BY <1>1, <1>2 DEF Statused

LEMMA StatusedNone ==
    ASSUME NEW s, NEW n, n \notin NamesIn(Members(s))
    PROVE  Statused(s, n) = {}
  BY DEF Statused, NamesIn, Members

\* What two finished calls report, the second given less.
LEMMA AnswersLowered ==
    ASSUME NEW x, NEW y, Lesser(x, y), NEW s, NEW t, NoRepeat(s), NoRepeat(t),
           Members(s) = Answers(x), Members(t) = Answers(y), NEW name
    PROVE  \/ Statused(t, name) = Statused(s, name)
           \/ Statused(t, name) = {"not_performed"}
           \/ Statused(t, name) = {} /\ name \in LeavesWith(x, y)
  <1>1. y.receipt = x.receipt
    BY DEF Lesser
  <1>2. CASE ~ReceiptParses(x.receipt, Anchors)
    <2>1. Answers(y) = Answers(x)
      BY <1>1, <1>2 DEF Answers, SaysSignature
    <2>2. CASE name \in NamesIn(Members(s))
      <3>1. PICK b \in Members(s) : b.name = name
        BY <2>2 DEF NamesIn
      <3> QED
        BY <2>1, <3>1, StatusedOnce
    <2>3. CASE name \notin NamesIn(Members(s))
      BY <2>1, <2>3, StatusedNone
    <2> QED
      BY <2>2, <2>3
  <1>3. CASE ReceiptParses(x.receipt, Anchors)
    <2>1. /\ Members(s) = Said(x) \cup Unsaid(x, Carried)
          /\ Members(t) = Said(y) \cup Unsaid(y, Carried)
      BY <1>1, <1>3 DEF Answers
    <2>2. Lowered(Said(x), Said(y), Gone(x, y))
      BY SaidLowered
    <2>3. CASE \E c \in Said(y) : c.name = name
      <3>1. PICK c \in Said(y) : c.name = name
        BY <2>3
      <3>2. PICK b \in Said(x) : b.name = name /\ c.status \in {b.status, "not_performed"}
        BY <2>2, <3>1 DEF Lowered
      <3>3. Statused(t, name) = {c.status}
        BY <2>1, <3>1, StatusedOnce
      <3>4. Statused(s, name) = {b.status}
        BY <2>1, <3>2, StatusedOnce
      <3> QED
        BY <3>2, <3>3, <3>4
    <2>4. CASE name \in Carried /\ ~\E c \in Said(y) : c.name = name
      <3> DEFINE silent == Check(name, "not_performed")
      <3>1. silent \in Unsaid(y, Carried) /\ silent.name = name
        BY <2>4 DEF Unsaid, NamesIn, Check
      <3>2. silent.status = "not_performed"
        BY DEF Check
      <3> HIDE DEF silent
      <3>3. Statused(t, name) = {silent.status}
        BY <2>1, <3>1, StatusedOnce
      <3> QED
        BY <3>2, <3>3
    <2>5. CASE name \notin Carried /\ ~\E c \in Said(y) : c.name = name
      <3>1. name \notin NamesIn(Members(t))
        BY <2>1, <2>5 DEF NamesIn, Unsaid, Check
      <3>2. Statused(t, name) = {}
        BY <3>1, StatusedNone
      <3>3. CASE \E b \in Said(x) : b.name = name
        BY <2>2, <2>5, <3>2, <3>3 DEF Lowered, Gone
      <3>4. CASE ~\E b \in Said(x) : b.name = name
        <4>1. name \notin NamesIn(Members(s))
          BY <2>1, <2>5, <3>4 DEF NamesIn, Unsaid, Check
        <4> QED
          BY <3>2, <4>1, StatusedNone
      <3> QED
        BY <3>3, <3>4
    <2> QED
      BY <2>3, <2>4, <2>5
  <1> QED
    BY <1>2, <1>3

------------------------------------------------------------------------------
(* The theorem.                                                             *)

\* What is left of a presentation when inputs are withheld is a lesser one.
LEMMA WithholdLesser ==
    ASSUME NEW x \in Inputs, NEW W \in Withholdings
    PROVE  Lesser(x, Withhold(x, W))
  <1>1. W \subseteq Optional /\ DOMAIN x = Optional \cup {"receipt"}
    BY WithholdingsAssumption
  <1>2. "receipt" \notin W
    BY <1>1 DEF Optional
  <1>3. \A f \in Optional \cup {"receipt"} :
           Withhold(x, W)[f] = IF f \in W THEN <<>> ELSE x[f]
    BY <1>1 DEF Withhold
  <1> QED
    BY <1>2, <1>3 DEF Lesser, Optional

LEMMA PairInitial == PairInit => PairInv
  <1>1. Init => in \in Inputs
    BY DEF Init, Fresh
  <1> QED
    BY <1>1, InitInv, InitTold DEF PairInit, PairInv

LEMMA FreshAgain == Fresh => IInv /\ Answering
  BY FreshInv, FreshTold

LEMMA PairNextInv == PairInv /\ [PairNext]_<<vars, full>> => PairInv'
  <1>1. Again => Fresh'
    BY DEF Again, Fresh
  <1>2. Fresh' => IInv' /\ Answering'
    BY FreshAgain, PTL
  <1>3. ASSUME PairInv, Again PROVE PairInv'
    <2>1. IInv' /\ Answering'
      BY <1>1, <1>2, <1>3
    <2>2. /\ full = <<>> /\ in \in Inputs /\ pc = "done"
          /\ full' = <<[in |-> in, checks |-> checks]>>
      BY <1>3 DEF Again, PairInv
    <2>3. full'[1].in = in /\ full'[1].checks = checks /\ full' # <<>>
      BY <2>2
    <2>4. NoRepeat(checks) /\ Members(checks) = Answers(in)
      BY <1>3, <2>2 DEF PairInv, IInv, Tallied, ReportedOnce, NoRepeat, Answering
    <2>5. Lesser(in, in')
      <3>1. PICK W \in Withholdings : in' = Withhold(in, W)
        BY <1>3 DEF Again
      <3> QED
        BY <2>2, <3>1, WithholdLesser
    <2> QED
      BY <2>1, <2>3, <2>4, <2>5 DEF PairInv
  <1>4. ASSUME PairInv, [Next]_vars, UNCHANGED full PROVE PairInv'
    <2>1. IInv' /\ Answering'
      BY <1>4, NextInv, NextTold DEF PairInv
    <2>2. in' = in
      BY <1>4 DEF vars, Next, ReceiptSignature, Structure, ReplayUnseen, ReceiptFinal,
         EnforcementPoint, SelfTiming, GoverningMAT, ScopeCheck, Evidence, AuthorizedBudget,
         Context, Outcomes, Confirmation, Chain, Commitment, Authority, Compliance, Provenance,
         Windows, Identity, CommitmentDigest, Inventory, Reconcile, Return, PlainStep, Step
    <2> QED
      BY <1>4, <2>1, <2>2 DEF PairInv
  <1> QED
    BY <1>3, <1>4 DEF PairNext, Verifying, vars

LEMMA PairInvariance == PairSpec => []PairInv
  BY PairInitial, PairNextInv, PTL DEF PairSpec

\* Whoever withholds any of the optional inputs of any presentation gets, check by
\* check, what all of them would have established or not_performed.
THEOREM OmissionGainsNothing == PairSpec => []OmissionOnlyDegrades
  <1>1. PairInv => OmissionOnlyDegrades
    <2> SUFFICES ASSUME PairInv, pc = "done", full # <<>>, NEW name \in VerifierChecks
                 PROVE  \/ StatusOf(name) = Statused(full[1].checks, name)
                        \/ StatusOf(name) = {"not_performed"}
                        \/ /\ StatusOf(name) = {}
                           /\ name \in LeavesWith(full[1].in, in)
      BY DEF OmissionOnlyDegrades
    <2>1. StatusOf(name) = Statused(checks, name)
      BY DEF StatusOf, Statused
    <2>2. NoRepeat(checks) /\ Members(checks) = Answers(in)
      BY DEF PairInv, IInv, Tallied, ReportedOnce, NoRepeat, Answering
    <2>3. /\ NoRepeat(full[1].checks) /\ Lesser(full[1].in, in)
          /\ Members(full[1].checks) = Answers(full[1].in)
      BY DEF PairInv
    <2> QED
      BY <2>1, <2>2, <2>3, AnswersLowered
  <1> QED
    BY <1>1, PairInvariance, PTL

------------------------------------------------------------------------------
(* 4. What a valid result vouches for.                                      *)

RC(x) == x.receipt.payload
MATOf(x) == x.mat[1].payload
ComOf(x) == x.commitment[1].payload

\* A check that did not fail, and is listed in np if it was not performed.
Vouch(np, name, status) == status # "failed" /\ (status = "not_performed" => name \in np)

\* The steps at which each fact is known.
AtEnd == {"inventory", "reconcile", "done"}
PastIdentity == AtEnd \cup {"commitment_digest"}
PastWindows == PastIdentity \cup {"identity"}
PastAuthority == PastWindows \cup {"windows", "provenance", "compliance"}
PastCommitment == PastAuthority \cup {"authority"}
PastOutcomes == PastCommitment \cup {"commitment", "chain", "confirmation"}
PastContext == PastOutcomes \cup {"outcomes"}
PastBudget == PastContext \cup {"context"}
PastEvidence == PastBudget \cup {"budget"}
PastScope == PastEvidence \cup {"evidence"}
PastMAT == PastScope \cup {"scope"}
PastTiming == PastMAT \cup {"mat"}
PastPoint == PastTiming \cup {"timing"}
PastFinal == PastPoint \cup {"enforcement_point"}
PastSignature == PastFinal \cup {"final", "replay", "structure"}

\* The facts, of the input x, the list np and the parsed artifacts m and k.
PointVouched(x, np) ==
    Vouch(np, "enforcement_point_binding",
          EnforcementPointBinding(RC(x), x.receipt.kid, SubjectOf(Anchors, x.receipt.kid)))
TimingVouched(x, np) == Vouch(np, "timing_self_consistent", timingSelfConsistent(RC(x)))
MATVouched(x, m) ==
    x.mat # <<>> => /\ MATParses(x.mat[1], Anchors)
                    /\ m = <<MATOf(x)>>
                    /\ RC(x).artifact_id = MATOf(x).id
ScopeVouched(x, np) ==
    x.mat # <<>> => Vouch(np, "scope_check", ScopeStatus(RC(x), MATOf(x)))
EvidenceVouched(x) ==
    (x.mat # <<>> /\ MATOf(x).proof_obligations # <<>>) =>
        EvidenceCovers(RC(x), MATOf(x)) # "failed" /\ EvidenceFresh(RC(x), MATOf(x)) # "failed"
BudgetVouched(x, np) ==
    x.mat # <<>> =>
        /\ Vouch(np, "timing_within_authorized_bound", AuthorizedTiming(RC(x), MATOf(x)))
        /\ withinWindow(RC(x).start, MATOf(x).not_before, MATOf(x).not_after) # "failed"
ContextVouched(x) == x.context # <<>> => RC(x).context_digest = Digest(x.context[1])
OutcomesVouched(x, np) ==
    (x.context # <<>> /\ x.mat # <<>>) =>
        /\ Vouch(np, "constraint_outcomes", recomputeOutcomes(MATOf(x), x.context[1], RC(x)))
        /\ decisionConsistent(MATOf(x), x.context[1], RC(x))
CommitmentVouched(x, k) == x.commitment # <<>> => k = <<ComOf(x)>>
AuthorityVouched(x) ==
    (x.commitment # <<>> /\ x.mat # <<>>) =>
        VerifyBinding(ComOf(x), MATOf(x)) /\ CommitmentScope(RC(x), ComOf(x), MATOf(x))
WindowsVouched(x) ==
    x.commitment # <<>> => /\ CommitmentTemporal(RC(x), ComOf(x)) # "failed"
                           /\ CommitmentActionWindow(RC(x), ComOf(x)) # "failed"
IdentityVouched(x) ==
    (x.commitment # <<>> /\ x.mat # <<>>) =>
        identitiesAgree(ComOf(x).agent_identity, MATOf(x).machine_identity) # "failed"

Vouched(p, x, np, m, k) ==
    /\ p \in PastSignature => ReceiptParses(x.receipt, Anchors)
    /\ p \in PastFinal => ~RC(x).speculative
    /\ p \in PastPoint => PointVouched(x, np)
    /\ p \in PastTiming => TimingVouched(x, np)
    /\ p \in PastMAT => MATVouched(x, m)
    /\ p \in PastScope => ScopeVouched(x, np)
    /\ p \in PastEvidence => EvidenceVouched(x)
    /\ p \in PastBudget => BudgetVouched(x, np)
    /\ p \in PastContext => ContextVouched(x)
    /\ p \in PastOutcomes => OutcomesVouched(x, np)
    /\ p \in PastCommitment => CommitmentVouched(x, k)
    /\ p \in PastAuthority => AuthorityVouched(x)
    /\ p \in PastWindows => WindowsVouched(x)
    /\ p \in PastIdentity => IdentityVouched(x)

Vouching == in \in Inputs /\ (valid => Vouched(pc, in, notPerformed, mat, com))

------------------------------------------------------------------------------
(* Steps.                                                                   *)

\* What is vouched for stays so when more checks are not performed.
LEMMA VouchedStays ==
    ASSUME NEW p, NEW x, NEW m, NEW k, NEW np, NEW np2, np \subseteq np2,
           Vouched(p, x, np, m, k)
    PROVE  Vouched(p, x, np2, m, k)
  BY DEF Vouched, Vouch, PointVouched, TimingVouched, ScopeVouched, BudgetVouched,
     OutcomesVouched

\* A step that leaves the result valid vouches for each of its checks.
LEMMA StepVouches ==
    ASSUME NEW here, NEW there, NEW s, Step(here, there, s)
    PROVE  /\ pc = here /\ pc' = there /\ in' = in
           /\ notPerformed \subseteq notPerformed'
           /\ valid' => valid /\ \A i \in 1..Len(s) : Vouch(notPerformed', s[i].name, s[i].status)
  <1>1. /\ pc = here /\ pc' = there /\ in' = in
        /\ valid' = (valid /\ NoneFailed(s))
        /\ notPerformed' = notPerformed \cup Unperformed(s)
    BY DEF Step, Report, NoneFailed, Unperformed
  <1>2. valid' => valid /\ NoneFailed(s)
    BY <1>1, Zenon
  <1>3. NoneFailed(s) => \A i \in 1..Len(s) : Vouch(notPerformed', s[i].name, s[i].status)
    BY <1>1 DEF NoneFailed, Unperformed, Vouch
  <1> QED
    BY <1>1, <1>2, <1>3

\* A step of the list s keeps the invariant when its checks, vouched for, add what
\* is known at the next step.
LEMMA StepKeeps ==
    ASSUME Vouching, NEW here, NEW there, NEW s, Step(here, there, s), UNCHANGED <<mat, com>>,
           ASSUME NEW np, Vouched(here, in, np, mat, com),
                  \A i \in 1..Len(s) : Vouch(np, s[i].name, s[i].status)
           PROVE  Vouched(there, in, np, mat, com)
    PROVE  Vouching'
  <1>1. /\ pc = here /\ pc' = there /\ in' = in
        /\ notPerformed \subseteq notPerformed'
        /\ valid' => valid /\ \A i \in 1..Len(s) : Vouch(notPerformed', s[i].name, s[i].status)
    BY StepVouches
  <1>2. ASSUME valid' PROVE Vouched(there, in, notPerformed', mat, com)
    <2>1. Vouched(here, in, notPerformed, mat, com)
      BY <1>1, <1>2 DEF Vouching
    <2>2. Vouched(here, in, notPerformed', mat, com)
      BY <1>1, <2>1, VouchedStays
    <2> QED
      BY <1>1, <1>2, <2>2
  <1> QED
    BY <1>1, <1>2 DEF Vouching

\* One or two checks, each vouched for.
LEMMA OneVouched ==
    ASSUME NEW np, NEW a, NEW st,
           \A i \in 1..Len(<<Check(a, st)>>) :
               Vouch(np, <<Check(a, st)>>[i].name, <<Check(a, st)>>[i].status)
    PROVE  Vouch(np, a, st)
  <1>1. 1 \in 1..Len(<<Check(a, st)>>)
    OBVIOUS
  <1> QED
    BY <1>1 DEF Check

LEMMA TwoVouched ==
    ASSUME NEW np, NEW a, NEW b, NEW st, NEW su,
           \A i \in 1..Len(<<Check(a, st), Check(b, su)>>) :
               Vouch(np, <<Check(a, st), Check(b, su)>>[i].name,
                     <<Check(a, st), Check(b, su)>>[i].status)
    PROVE  Vouch(np, a, st) /\ Vouch(np, b, su)
  <1>1. 1 \in 1..Len(<<Check(a, st), Check(b, su)>>) /\ 2 \in 1..Len(<<Check(a, st), Check(b, su)>>)
    OBVIOUS
  <1> QED
    BY <1>1 DEF Check

LEMMA ThreeVouched ==
    ASSUME NEW np, NEW a, NEW b, NEW c, NEW st, NEW su, NEW sv,
           \A i \in 1..Len(<<Check(a, st), Check(b, su), Check(c, sv)>>) :
               Vouch(np, <<Check(a, st), Check(b, su), Check(c, sv)>>[i].name,
                     <<Check(a, st), Check(b, su), Check(c, sv)>>[i].status)
    PROVE  Vouch(np, a, st) /\ Vouch(np, b, su) /\ Vouch(np, c, sv)
  <1> DEFINE s == <<Check(a, st), Check(b, su), Check(c, sv)>>
  <1>1. 1 \in 1..Len(s) /\ 2 \in 1..Len(s) /\ 3 \in 1..Len(s)
    OBVIOUS
  <1> QED
    BY <1>1 DEF Check

\* Every step is past the steps before it.
LEMMA InOrder ==
    /\ AtEnd \subseteq PastIdentity /\ PastIdentity \subseteq PastWindows
    /\ PastWindows \subseteq PastAuthority /\ PastAuthority \subseteq PastCommitment
    /\ PastCommitment \subseteq PastOutcomes /\ PastOutcomes \subseteq PastContext
    /\ PastContext \subseteq PastBudget /\ PastBudget \subseteq PastEvidence
    /\ PastEvidence \subseteq PastScope
    /\ PastScope \subseteq PastMAT /\ PastMAT \subseteq PastTiming
    /\ PastTiming \subseteq PastPoint /\ PastPoint \subseteq PastFinal
    /\ PastFinal \subseteq PastSignature
  BY DEF PastIdentity, PastWindows, PastAuthority, PastCommitment, PastOutcomes, PastContext,
     PastBudget, PastEvidence, PastScope, PastMAT, PastTiming, PastPoint, PastFinal, PastSignature

------------------------------------------------------------------------------
(* The steps whose checks no fact rests on.                                 *)

\* Between these steps nothing new is known.
LEMMA NothingNew ==
    ASSUME NEW x, NEW np, NEW m, NEW k, NEW here, NEW there, Vouched(here, x, np, m, k),
           <<here, there>> \in
              {<<"structure", "replay">>, <<"replay", "final">>,
               <<"confirmation", "chain">>, <<"chain", "commitment">>,
               <<"compliance", "provenance">>, <<"provenance", "windows">>,
               <<"commitment_digest", "inventory">>, <<"inventory", "reconcile">>,
               <<"reconcile", "reconcile">>, <<"reconcile", "done">>}
    PROVE  Vouched(there, x, np, m, k)
  BY DEF Vouched, AtEnd, PastIdentity, PastWindows, PastAuthority, PastCommitment, PastOutcomes,
     PastContext, PastBudget, PastEvidence, PastScope, PastMAT, PastTiming,
     PastPoint, PastFinal, PastSignature

LEMMA PlainKeeps ==
    ASSUME Vouching, NEW here, NEW there, NEW s, Step(here, there, s), UNCHANGED <<mat, com>>,
           <<here, there>> \in
              {<<"structure", "replay">>, <<"replay", "final">>,
               <<"confirmation", "chain">>, <<"chain", "commitment">>,
               <<"compliance", "provenance">>, <<"provenance", "windows">>,
               <<"commitment_digest", "inventory">>, <<"inventory", "reconcile">>,
               <<"reconcile", "reconcile">>, <<"reconcile", "done">>}
    PROVE  Vouching'
  BY StepKeeps, NothingNew

LEMMA StructureKeeps == ASSUME Vouching, Structure PROVE Vouching'
  <1> DEFINE s == <<Check("receipt_version", PassIf(rc.version = ProtocolVersion)),
                    Check("decision_valid", PassIf(rc.decision \in Decisions)),
                    Check("rationale_codes_known", PassIf(RationaleCodesKnown(rc))),
                    Check("controls_declared", PassIf(ControlsDeclared(rc)))>>
  <1>1. Step("structure", "replay", s) /\ UNCHANGED <<mat, com>>
    BY DEF Structure, PlainStep
  <1> HIDE DEF s
  <1> QED
    BY <1>1, PlainKeeps

LEMMA ReplayUnseenKeeps == ASSUME Vouching, ReplayUnseen PROVE Vouching'
  <1> DEFINE s == <<Check("replay_receipt_unseen",
                          Judge(in.replay # <<>>, Digest(rc) \notin in.replay[1]))>>
  <1>1. Step("replay", "final", s) /\ UNCHANGED <<mat, com>>
    BY DEF ReplayUnseen, PlainStep
  <1> HIDE DEF s
  <1> QED
    BY <1>1, PlainKeeps

LEMMA ConfirmationKeeps == ASSUME Vouching, Confirmation PROVE Vouching'
  <1> DEFINE s == <<Check("confirmation_link", ConfirmationLink(rc, in.confirmed))>>
  <1>1. Step("confirmation", "chain", s) /\ UNCHANGED <<mat, com>>
    BY DEF Confirmation, PlainStep
  <1> HIDE DEF s
  <1> QED
    BY <1>1, PlainKeeps

LEMMA ChainKeeps == ASSUME Vouching, Chain PROVE Vouching'
  <1> DEFINE s == IF in.prior = <<>> THEN <<>>
                  ELSE <<Check("chain_link", PassIf(ChainLink(rc, in.prior[1])))>>
  <1>1. Step("chain", "commitment", s) /\ UNCHANGED <<mat, com>>
    BY DEF Chain, PlainStep
  <1> HIDE DEF s
  <1> QED
    BY <1>1, PlainKeeps

LEMMA ComplianceKeeps == ASSUME Vouching, Compliance PROVE Vouching'
  <1> DEFINE s == IF rc.compliance = <<>> \/ rc.compliance[1].action = <<>> THEN <<>>
                  ELSE LET ac == rc.compliance[1] IN
                       <<Check("compliance_commitment_check",
                               PassIf(ac.commitment_check = DeclaresAction(com[1], ac.action))),
                         Check("compliance_scope_check",
                               Judge(mat # <<>>,
                                     ac.scope_check = CoversOperation(mat[1], ac.action, <<>>))),
                         Check("compliance_boundary_check",
                               Judge(mat # <<>>,
                                     ac.boundary_check
                                         = (ac.action \notin mat[1].boundary.exclusions)))>>
  <1>1. Step("compliance", "provenance", s) /\ UNCHANGED <<mat, com>>
    BY DEF Compliance, PlainStep
  <1> HIDE DEF s
  <1> QED
    BY <1>1, PlainKeeps

LEMMA ProvenanceKeeps == ASSUME Vouching, Provenance PROVE Vouching'
  <1> DEFINE s == IF rc.provenance = <<>> THEN <<>>
                  ELSE <<Check("provenance_agreement",
                               PassIf(rc.provenance = com[1].provenance))>>
  <1>1. Step("provenance", "windows", s) /\ UNCHANGED <<mat, com>>
    BY DEF Provenance, PlainStep
  <1> HIDE DEF s
  <1> QED
    BY <1>1, PlainKeeps

LEMMA CommitmentDigestKeeps == ASSUME Vouching, CommitmentDigest PROVE Vouching'
  <1> DEFINE s == IF rc.commitment_digest = <<>> THEN <<>>
                  ELSE <<Check("commitment_digest",
                               PassIf(rc.commitment_digest = Digest(com[1])))>>
  <1>1. Step("commitment_digest", "inventory", s) /\ UNCHANGED <<mat, com>>
    BY DEF CommitmentDigest, PlainStep
  <1> HIDE DEF s
  <1> QED
    BY <1>1, PlainKeeps

LEMMA InventoryKeeps == ASSUME Vouching, Inventory PROVE Vouching'
  <1> DEFINE s == <<>>
  <1>1. Step("inventory", "reconcile", s) /\ UNCHANGED <<mat, com>>
    BY DEF Inventory, PlainStep
  <1> HIDE DEF s
  <1> QED
    BY <1>1, PlainKeeps

LEMMA ReconcileKeeps == ASSUME Vouching, Reconcile PROVE Vouching'
  <1> DEFINE s == IF receiptCarriedChecks[next] \in emitted THEN <<>>
                  ELSE <<Check(receiptCarriedChecks[next], "not_performed")>>
  <1>1. Step("reconcile", "reconcile", s) /\ UNCHANGED <<mat, com>>
    BY DEF Reconcile, PlainStep
  <1> HIDE DEF s
  <1> QED
    BY <1>1, PlainKeeps

LEMMA ReturnKeeps == ASSUME Vouching, Return PROVE Vouching'
  <1> DEFINE s == <<>>
  <1>1. Step("reconcile", "done", s) /\ UNCHANGED <<mat, com>>
    BY DEF Return, PlainStep
  <1> HIDE DEF s
  <1> QED
    BY <1>1, PlainKeeps

------------------------------------------------------------------------------
(* The steps that establish a fact. Each first states what it adds.         *)

LEMMA ReceiptFinalKeeps == ASSUME Vouching, ReceiptFinal PROVE Vouching'
  <1> DEFINE st == PassIf(~rc.speculative)
             s == <<Check("receipt_final", st)>>
  <1>1. Step("final", "enforcement_point", s) /\ UNCHANGED <<mat, com>>
    BY DEF ReceiptFinal
  <1>2. ASSUME NEW np, Vouched("final", in, np, mat, com),
               \A i \in 1..Len(s) : Vouch(np, s[i].name, s[i].status)
        PROVE  Vouched("enforcement_point", in, np, mat, com)
    <2>1. Vouch(np, "receipt_final", st)
      BY <1>2, OneVouched
    <2>2. ~RC(in).speculative
      BY <2>1 DEF Vouch, PassIf, RC, rc
    <2> QED
      BY <1>2, <2>2 DEF Vouched, AtEnd, PastIdentity, PastWindows, PastAuthority,
       PastCommitment, PastOutcomes, PastContext, PastBudget, PastEvidence, PastScope, PastMAT,
       PastTiming, PastPoint, PastFinal, PastSignature
  <1> QED
    BY <1>1, <1>2, StepKeeps

LEMMA EnforcementPointKeeps == ASSUME Vouching, EnforcementPoint PROVE Vouching'
  <1> DEFINE st == EnforcementPointBinding(rc, in.receipt.kid, SubjectOf(Anchors, in.receipt.kid))
             s == <<Check("enforcement_point_binding", st)>>
  <1>1. Step("enforcement_point", "timing", s) /\ UNCHANGED <<mat, com>>
    BY DEF EnforcementPoint, PlainStep
  <1>2. ASSUME NEW np, Vouched("enforcement_point", in, np, mat, com),
               \A i \in 1..Len(s) : Vouch(np, s[i].name, s[i].status)
        PROVE  Vouched("timing", in, np, mat, com)
    <2>1. Vouch(np, "enforcement_point_binding", st)
      BY <1>2, OneVouched
    <2>2. PointVouched(in, np)
      BY <2>1 DEF PointVouched, RC, rc
    <2> QED
      BY <1>2, <2>2 DEF Vouched, AtEnd, PastIdentity, PastWindows, PastAuthority,
       PastCommitment, PastOutcomes, PastContext, PastBudget, PastEvidence, PastScope, PastMAT,
       PastTiming, PastPoint, PastFinal, PastSignature
  <1> QED
    BY <1>1, <1>2, StepKeeps

LEMMA SelfTimingKeeps == ASSUME Vouching, SelfTiming PROVE Vouching'
  <1> DEFINE st == PassIf(TimingWithinBound(rc))
             su == timingSelfConsistent(rc)
             s == <<Check("timing_within_bound", st), Check("timing_self_consistent", su)>>
  <1>1. Step("timing", "mat", s) /\ UNCHANGED <<mat, com>>
    BY DEF SelfTiming, PlainStep
  <1>2. ASSUME NEW np, Vouched("timing", in, np, mat, com),
               \A i \in 1..Len(s) : Vouch(np, s[i].name, s[i].status)
        PROVE  Vouched("mat", in, np, mat, com)
    <2>1. Vouch(np, "timing_self_consistent", su)
      BY <1>2, TwoVouched
    <2>2. TimingVouched(in, np)
      BY <2>1 DEF TimingVouched, RC, rc
    <2> QED
      BY <1>2, <2>2 DEF Vouched, AtEnd, PastIdentity, PastWindows, PastAuthority,
       PastCommitment, PastOutcomes, PastContext, PastBudget, PastEvidence, PastScope, PastMAT,
       PastTiming, PastPoint, PastFinal, PastSignature
  <1> QED
    BY <1>1, <1>2, StepKeeps

LEMMA ScopeCheckKeeps == ASSUME Vouching, ScopeCheck PROVE Vouching'
  <1> DEFINE st == ScopeStatus(rc, mat[1])
             s == IfMAT(<<Check("scope_check", st)>>)
  <1>1. Step("scope", "evidence", s) /\ UNCHANGED <<mat, com>>
    BY DEF ScopeCheck, PlainStep
  <1>2. ASSUME NEW np, Vouched("scope", in, np, mat, com),
               \A i \in 1..Len(s) : Vouch(np, s[i].name, s[i].status)
        PROVE  Vouched("evidence", in, np, mat, com)
    <2>1. ASSUME in.mat # <<>>
          PROVE  Vouch(np, "scope_check", ScopeStatus(RC(in), MATOf(in)))
      <3>1. mat = <<MATOf(in)>>
        BY <1>2, <2>1 DEF Vouched, MATVouched, PastMAT
      <3>2. s = <<Check("scope_check", st)>> /\ mat[1] = MATOf(in)
        BY <3>1 DEF IfMAT
      <3>3. Vouch(np, "scope_check", st)
        BY <1>2, <3>2, OneVouched
      <3> QED
        BY <3>2, <3>3 DEF RC, rc
    <2>2. ScopeVouched(in, np)
      BY <2>1 DEF ScopeVouched
    <2> QED
      BY <1>2, <2>2 DEF Vouched, AtEnd, PastIdentity, PastWindows, PastAuthority,
       PastCommitment, PastOutcomes, PastContext, PastBudget, PastEvidence, PastScope, PastMAT,
       PastTiming, PastPoint, PastFinal, PastSignature
  <1> QED
    BY <1>1, <1>2, StepKeeps

LEMMA EvidenceKeeps == ASSUME Vouching, Evidence PROVE Vouching'
  <1> DEFINE st == EvidenceCovers(rc, mat[1])
             su == EvidenceFresh(rc, mat[1])
             t == <<Check("evidence_covers_obligations", st), Check("evidence_asserted_fresh", su)>>
             s == IF mat = <<>> \/ mat[1].proof_obligations = <<>> THEN <<>> ELSE t
  <1>1. Step("evidence", "budget", s) /\ UNCHANGED <<mat, com>>
    BY DEF Evidence, PlainStep
  <1>2. ASSUME NEW np, Vouched("evidence", in, np, mat, com),
               \A i \in 1..Len(s) : Vouch(np, s[i].name, s[i].status)
        PROVE  Vouched("budget", in, np, mat, com)
    <2>1. ASSUME in.mat # <<>>, MATOf(in).proof_obligations # <<>>
          PROVE  /\ EvidenceCovers(RC(in), MATOf(in)) # "failed"
                 /\ EvidenceFresh(RC(in), MATOf(in)) # "failed"
      <3>1. mat = <<MATOf(in)>>
        BY <1>2, <2>1 DEF Vouched, MATVouched, PastMAT, PastScope
      <3>2. s = t /\ mat[1] = MATOf(in)
        BY <2>1, <3>1
      <3>3. Vouch(np, "evidence_covers_obligations", st) /\ Vouch(np, "evidence_asserted_fresh", su)
        <4> HIDE DEF st, su
        <4> QED
          BY <1>2, <3>2, TwoVouched
      <3> QED
        BY <3>2, <3>3 DEF RC, rc, Vouch
    <2>2. EvidenceVouched(in)
      BY <2>1 DEF EvidenceVouched
    <2> QED
      BY <1>2, <2>2 DEF Vouched, AtEnd, PastIdentity, PastWindows, PastAuthority,
       PastCommitment, PastOutcomes, PastContext, PastBudget, PastEvidence, PastScope, PastMAT,
       PastTiming, PastPoint, PastFinal, PastSignature
  <1> QED
    BY <1>1, <1>2, StepKeeps

LEMMA AuthorizedBudgetKeeps == ASSUME Vouching, AuthorizedBudget PROVE Vouching'
  <1> DEFINE st == AuthorizedTiming(rc, mat[1])
             su == PolicyDigest(rc, mat[1])
             sv == withinWindow(rc.start, mat[1].not_before, mat[1].not_after)
             t == <<Check("timing_within_authorized_bound", st), Check("policy_digest", su),
                    Check("evaluation_within_validity", sv)>>
             s == IfMAT(t)
  <1>1. Step("budget", "context", s) /\ UNCHANGED <<mat, com>>
    BY DEF AuthorizedBudget, PlainStep
  <1>2. ASSUME NEW np, Vouched("budget", in, np, mat, com),
               \A i \in 1..Len(s) : Vouch(np, s[i].name, s[i].status)
        PROVE  Vouched("context", in, np, mat, com)
    <2>1. ASSUME in.mat # <<>>
          PROVE  /\ Vouch(np, "timing_within_authorized_bound",
                          AuthorizedTiming(RC(in), MATOf(in)))
                 /\ withinWindow(RC(in).start, MATOf(in).not_before, MATOf(in).not_after)
                        # "failed"
      <3>1. mat = <<MATOf(in)>>
        BY <1>2, <2>1 DEF Vouched, MATVouched, PastMAT, PastScope, PastEvidence
      <3>2. s = t /\ mat[1] = MATOf(in)
        BY <3>1 DEF IfMAT
      <3>3. \A i \in 1..Len(t) : Vouch(np, t[i].name, t[i].status)
        BY <1>2, <3>2
      <3>4. Vouch(np, "timing_within_authorized_bound", st)
            /\ Vouch(np, "evaluation_within_validity", sv)
        <4> HIDE DEF st, su, sv
        <4> QED
          BY <3>3, ThreeVouched
      <3> QED
        BY <3>2, <3>4 DEF RC, rc, Vouch
    <2>2. BudgetVouched(in, np)
      BY <2>1 DEF BudgetVouched
    <2> QED
      BY <1>2, <2>2 DEF Vouched, AtEnd, PastIdentity, PastWindows, PastAuthority,
       PastCommitment, PastOutcomes, PastContext, PastBudget, PastEvidence, PastScope, PastMAT,
       PastTiming, PastPoint, PastFinal, PastSignature
  <1> QED
    BY <1>1, <1>2, StepKeeps

LEMMA ContextKeeps == ASSUME Vouching, Context PROVE Vouching'
  <1> DEFINE st == PassIf(rc.context_digest = Digest(in.context[1]))
             su == ResourceStateDigest(rc, in.context[1])
             t == <<Check("context_digest", st), Check("resource_state_digest", su)>>
             s == IF in.context = <<>> THEN <<>> ELSE t
  <1>1. Step("context", "outcomes", s) /\ UNCHANGED <<mat, com>>
    BY DEF Context, PlainStep
  <1>2. ASSUME NEW np, Vouched("context", in, np, mat, com),
               \A i \in 1..Len(s) : Vouch(np, s[i].name, s[i].status)
        PROVE  Vouched("outcomes", in, np, mat, com)
    <2>1. ASSUME in.context # <<>>
          PROVE  RC(in).context_digest = Digest(in.context[1])
      <3>1. s = t
        BY <2>1
      <3>2. Vouch(np, "context_digest", st)
        BY <1>2, <3>1, TwoVouched
      <3> QED
        BY <3>2 DEF RC, rc, Vouch, PassIf
    <2>2. ContextVouched(in)
      BY <2>1 DEF ContextVouched
    <2> QED
      BY <1>2, <2>2 DEF Vouched, AtEnd, PastIdentity, PastWindows, PastAuthority,
       PastCommitment, PastOutcomes, PastContext, PastBudget, PastEvidence, PastScope, PastMAT,
       PastTiming, PastPoint, PastFinal, PastSignature
  <1> QED
    BY <1>1, <1>2, StepKeeps

LEMMA OutcomesKeeps == ASSUME Vouching, Outcomes PROVE Vouching'
  <1> DEFINE st == recomputeOutcomes(mat[1], in.context[1], rc)
             su == PassIf(decisionConsistent(mat[1], in.context[1], rc))
             t == <<Check("constraint_outcomes", st), Check("decision_consistent", su)>>
             s == IF in.context = <<>> \/ mat = <<>> THEN <<>> ELSE t
  <1>1. Step("outcomes", "confirmation", s) /\ UNCHANGED <<mat, com>>
    BY DEF Outcomes, PlainStep
  <1>2. ASSUME NEW np, Vouched("outcomes", in, np, mat, com),
               \A i \in 1..Len(s) : Vouch(np, s[i].name, s[i].status)
        PROVE  Vouched("confirmation", in, np, mat, com)
    <2>1. ASSUME in.context # <<>>, in.mat # <<>>
          PROVE  /\ Vouch(np, "constraint_outcomes",
                          recomputeOutcomes(MATOf(in), in.context[1], RC(in)))
                 /\ decisionConsistent(MATOf(in), in.context[1], RC(in))
      <3>1. mat = <<MATOf(in)>>
        BY <1>2, <2>1 DEF Vouched, MATVouched, PastMAT, PastScope, PastEvidence, PastBudget,
           PastContext
      <3>2. s = t /\ mat[1] = MATOf(in)
        BY <2>1, <3>1
      <3>3. Vouch(np, "constraint_outcomes", st) /\ Vouch(np, "decision_consistent", su)
        BY <1>2, <3>2, TwoVouched
      <3>4. decisionConsistent(mat[1], in.context[1], rc)
        BY <3>3 DEF Vouch, PassIf
      <3> QED
        BY <3>2, <3>3, <3>4 DEF RC, rc
    <2>2. OutcomesVouched(in, np)
      BY <2>1 DEF OutcomesVouched
    <2> QED
      BY <1>2, <2>2 DEF Vouched, AtEnd, PastIdentity, PastWindows, PastAuthority,
       PastCommitment, PastOutcomes, PastContext, PastBudget, PastEvidence, PastScope, PastMAT,
       PastTiming, PastPoint, PastFinal, PastSignature
  <1> QED
    BY <1>1, <1>2, StepKeeps

LEMMA AuthorityKeeps == ASSUME Vouching, Authority PROVE Vouching'
  <1> DEFINE st == Judge(mat # <<>>, VerifyBinding(com[1], mat[1]))
             su == Judge(mat # <<>>, CommitmentScope(rc, com[1], mat[1]))
             s == <<Check("commitment_binding", st), Check("commitment_scope", su)>>
  <1>1. Step("authority", "compliance", s) /\ UNCHANGED <<mat, com>>
    BY DEF Authority, PlainStep
  <1>2. ASSUME NEW np, Vouched("authority", in, np, mat, com),
               \A i \in 1..Len(s) : Vouch(np, s[i].name, s[i].status)
        PROVE  Vouched("compliance", in, np, mat, com)
    <2>1. ASSUME in.commitment # <<>>, in.mat # <<>>
          PROVE  /\ VerifyBinding(ComOf(in), MATOf(in))
                 /\ CommitmentScope(RC(in), ComOf(in), MATOf(in))
      <3>1. mat = <<MATOf(in)>> /\ com = <<ComOf(in)>>
        BY <1>2, <2>1 DEF Vouched, MATVouched, CommitmentVouched, PastMAT, PastScope,
           PastEvidence, PastBudget,
           PastContext, PastOutcomes, PastCommitment
      <3>2. mat # <<>> /\ mat[1] = MATOf(in) /\ com[1] = ComOf(in)
        BY <3>1
      <3>3. Vouch(np, "commitment_binding", st) /\ Vouch(np, "commitment_scope", su)
        <4> HIDE DEF st, su
        <4> QED
          BY <1>2, TwoVouched
      <3>4. VerifyBinding(com[1], mat[1]) /\ CommitmentScope(rc, com[1], mat[1])
        <4>1. /\ st = PassIf(VerifyBinding(com[1], mat[1]))
              /\ su = PassIf(CommitmentScope(rc, com[1], mat[1]))
          BY <3>2, Zenon DEF Judge
        <4> HIDE DEF st, su
        <4> QED
          BY <3>3, <4>1 DEF Vouch, PassIf
      <3> QED
        BY <3>2, <3>4 DEF RC, rc
    <2>2. AuthorityVouched(in)
      BY <2>1 DEF AuthorityVouched
    <2> QED
      BY <1>2, <2>2 DEF Vouched, AtEnd, PastIdentity, PastWindows, PastAuthority,
       PastCommitment, PastOutcomes, PastContext, PastBudget, PastEvidence, PastScope, PastMAT,
       PastTiming, PastPoint, PastFinal, PastSignature
  <1> QED
    BY <1>1, <1>2, StepKeeps

LEMMA WindowsKeeps == ASSUME Vouching, Windows PROVE Vouching'
  <1> DEFINE st == CommitmentTemporal(rc, com[1])
             su == CommitmentActionWindow(rc, com[1])
             s == <<Check("commitment_temporal", st), Check("commitment_action_window", su)>>
  <1>1. Step("windows", "identity", s) /\ UNCHANGED <<mat, com>>
    BY DEF Windows, PlainStep
  <1>2. ASSUME NEW np, Vouched("windows", in, np, mat, com),
               \A i \in 1..Len(s) : Vouch(np, s[i].name, s[i].status)
        PROVE  Vouched("identity", in, np, mat, com)
    <2>1. ASSUME in.commitment # <<>>
          PROVE  /\ CommitmentTemporal(RC(in), ComOf(in)) # "failed"
                 /\ CommitmentActionWindow(RC(in), ComOf(in)) # "failed"
      <3>1. com = <<ComOf(in)>>
        BY <1>2, <2>1 DEF Vouched, CommitmentVouched, PastCommitment, PastAuthority
      <3>2. com[1] = ComOf(in)
        BY <3>1
      <3>3. Vouch(np, "commitment_temporal", st) /\ Vouch(np, "commitment_action_window", su)
        BY <1>2, TwoVouched
      <3> QED
        BY <3>2, <3>3 DEF RC, rc, Vouch
    <2>2. WindowsVouched(in)
      BY <2>1 DEF WindowsVouched
    <2> QED
      BY <1>2, <2>2 DEF Vouched, AtEnd, PastIdentity, PastWindows, PastAuthority,
       PastCommitment, PastOutcomes, PastContext, PastBudget, PastEvidence, PastScope, PastMAT,
       PastTiming, PastPoint, PastFinal, PastSignature
  <1> QED
    BY <1>1, <1>2, StepKeeps

LEMMA IdentityKeeps == ASSUME Vouching, Identity PROVE Vouching'
  <1> DEFINE st == AgentIdentityWellformed(com[1])
             su == IF mat = <<>> THEN "not_performed"
                   ELSE identitiesAgree(com[1].agent_identity, mat[1].machine_identity)
             s == <<Check("agent_identity_wellformed", st), Check("agent_identity_binding", su)>>
  <1>1. Step("identity", "commitment_digest", s) /\ UNCHANGED <<mat, com>>
    BY DEF Identity, PlainStep
  <1>2. ASSUME NEW np, Vouched("identity", in, np, mat, com),
               \A i \in 1..Len(s) : Vouch(np, s[i].name, s[i].status)
        PROVE  Vouched("commitment_digest", in, np, mat, com)
    <2>1. ASSUME in.commitment # <<>>, in.mat # <<>>
          PROVE  identitiesAgree(ComOf(in).agent_identity, MATOf(in).machine_identity) # "failed"
      <3>1. mat = <<MATOf(in)>> /\ com = <<ComOf(in)>>
        BY <1>2, <2>1 DEF Vouched, MATVouched, CommitmentVouched, PastMAT, PastScope,
           PastEvidence, PastBudget,
           PastContext, PastOutcomes, PastCommitment, PastAuthority, PastWindows
      <3>2. mat # <<>> /\ mat[1] = MATOf(in) /\ com[1] = ComOf(in)
        BY <3>1
      <3>3. Vouch(np, "agent_identity_binding", su)
        BY <1>2, TwoVouched
      <3> QED
        BY <3>2, <3>3 DEF Vouch
    <2>2. IdentityVouched(in)
      BY <2>1 DEF IdentityVouched
    <2> QED
      BY <1>2, <2>2 DEF Vouched, AtEnd, PastIdentity, PastWindows, PastAuthority,
       PastCommitment, PastOutcomes, PastContext, PastBudget, PastEvidence, PastScope, PastMAT,
       PastTiming, PastPoint, PastFinal, PastSignature
  <1> QED
    BY <1>1, <1>2, StepKeeps

------------------------------------------------------------------------------
(* The steps that parse an artifact. A failed parse ends the validity.      *)

LEMMA ReceiptSignatureKeeps == ASSUME Vouching, ReceiptSignature PROVE Vouching'
  <1> DEFINE ok == ReceiptParses(in.receipt, Anchors)
             there == IF ok THEN "structure" ELSE "done"
             s == <<Check("receipt_signature", PassIf(ok))>>
  <1>1. Step("receipt_signature", there, s) /\ UNCHANGED <<mat, com>>
    BY DEF ReceiptSignature
  <1>2. ASSUME NEW np, Vouched("receipt_signature", in, np, mat, com),
               \A i \in 1..Len(s) : Vouch(np, s[i].name, s[i].status)
        PROVE  Vouched(there, in, np, mat, com)
    <2>1. Vouch(np, "receipt_signature", PassIf(ok))
      BY <1>2, OneVouched
    <2>2. ok
      BY <2>1 DEF Vouch, PassIf
    <2>3. there = "structure"
      BY <2>2
    <2> QED
      BY <2>2, <2>3 DEF Vouched, AtEnd, PastIdentity, PastWindows, PastAuthority,
       PastCommitment, PastOutcomes, PastContext, PastBudget, PastEvidence, PastScope, PastMAT,
       PastTiming, PastPoint, PastFinal, PastSignature
  <1> QED
    BY <1>1, <1>2, StepKeeps

LEMMA GoverningMATKeeps == ASSUME Vouching, GoverningMAT PROVE Vouching'
  <1> DEFINE ok == in.mat # <<>> /\ MATParses(in.mat[1], Anchors)
             st == PassIf(rc.artifact_id = in.mat[1].payload.id)
             s == IF in.mat = <<>> THEN <<>>
                  ELSE IF ~ok THEN <<Check("mat_signature", "failed")>>
                  ELSE <<Check("mat_signature", "passed"), Check("artifact_binding", st)>>
  <1>1. /\ Step("mat", "scope", s) /\ com' = com
        /\ mat' = IF ok THEN <<in.mat[1].payload>> ELSE <<>>
    BY DEF GoverningMAT
  <1>2. /\ pc = "mat" /\ pc' = "scope" /\ in' = in
        /\ notPerformed \subseteq notPerformed'
        /\ valid' => valid /\ \A i \in 1..Len(s) : Vouch(notPerformed', s[i].name, s[i].status)
    BY <1>1, StepVouches
  <1>3. ASSUME valid' PROVE Vouched("scope", in, notPerformed', mat', com)
    <2>1. \A i \in 1..Len(s) : Vouch(notPerformed', s[i].name, s[i].status)
      BY <1>2, <1>3
    <2>2. Vouched("mat", in, notPerformed', mat, com)
      <3>1. Vouched("mat", in, notPerformed, mat, com)
        BY <1>2, <1>3 DEF Vouching
      <3> QED
        BY <1>2, <3>1, VouchedStays
    <2>3. ASSUME in.mat # <<>>
          PROVE  MATParses(in.mat[1], Anchors) /\ rc.artifact_id = in.mat[1].payload.id
      <3>1. ok
        <4>1. CASE ~ok
          <5>1. s = <<Check("mat_signature", "failed")>>
            BY <2>3, <4>1
          <5>2. Vouch(notPerformed', "mat_signature", "failed")
            BY <2>1, <5>1, OneVouched
          <5> QED
            BY <5>2 DEF Vouch
        <4> QED
          BY <4>1
      <3>2. s = <<Check("mat_signature", "passed"), Check("artifact_binding", st)>>
        BY <3>1
      <3>3. Vouch(notPerformed', "artifact_binding", st)
        BY <2>1, <3>2, TwoVouched
      <3> QED
        BY <3>1, <3>3 DEF Vouch, PassIf
    <2>4. MATVouched(in, mat')
      BY <1>1, <2>3 DEF MATVouched, MATOf, RC, rc
    <2> QED
      BY <2>2, <2>4 DEF Vouched, AtEnd, PastIdentity, PastWindows, PastAuthority,
       PastCommitment, PastOutcomes, PastContext, PastBudget, PastEvidence, PastScope, PastMAT,
       PastTiming, PastPoint, PastFinal, PastSignature
  <1> QED
    BY <1>1, <1>2, <1>3 DEF Vouching

LEMMA CommitmentKeeps == ASSUME Vouching, Commitment PROVE Vouching'
  <1> DEFINE ok == in.commitment # <<>> /\ CommitmentParses(in.commitment[1], Anchors)
             there == IF ok THEN "authority" ELSE "inventory"
             s == IF in.commitment # <<>> THEN <<Check("commitment_signature", PassIf(ok))>>
                  ELSE <<>>
  <1>1. /\ Step("commitment", there, s) /\ mat' = mat
        /\ com' = IF ok THEN <<in.commitment[1].payload>> ELSE <<>>
    BY DEF Commitment
  <1>2. /\ pc = "commitment" /\ pc' = there /\ in' = in
        /\ notPerformed \subseteq notPerformed'
        /\ valid' => valid /\ \A i \in 1..Len(s) : Vouch(notPerformed', s[i].name, s[i].status)
    BY <1>1, StepVouches
  <1>3. ASSUME valid' PROVE Vouched(there, in, notPerformed', mat, com')
    <2>1. \A i \in 1..Len(s) : Vouch(notPerformed', s[i].name, s[i].status)
      BY <1>2, <1>3
    <2>2. Vouched("commitment", in, notPerformed', mat, com)
      <3>1. Vouched("commitment", in, notPerformed, mat, com)
        BY <1>2, <1>3 DEF Vouching
      <3> QED
        BY <1>2, <3>1, VouchedStays
    <2>3. in.commitment # <<>> => ok
      <3> SUFFICES ASSUME in.commitment # <<>> PROVE ok
        OBVIOUS
      <3>1. s = <<Check("commitment_signature", PassIf(ok))>>
        OBVIOUS
      <3>2. Vouch(notPerformed', "commitment_signature", PassIf(ok))
        BY <2>1, <3>1, OneVouched
      <3> QED
        BY <3>2 DEF Vouch, PassIf
    <2>4. CASE in.commitment # <<>>
      <3>1. there = "authority" /\ CommitmentVouched(in, com')
        BY <1>1, <2>3, <2>4 DEF CommitmentVouched, ComOf
      <3> QED
        BY <2>2, <3>1 DEF Vouched, AtEnd, PastIdentity, PastWindows, PastAuthority,
         PastCommitment, PastOutcomes, PastContext, PastBudget, PastEvidence, PastScope, PastMAT,
         PastTiming, PastPoint, PastFinal, PastSignature
    <2>5. CASE in.commitment = <<>>
      <3>1. there = "inventory"
        BY <2>5
      <3>2. /\ CommitmentVouched(in, com') /\ AuthorityVouched(in)
            /\ WindowsVouched(in) /\ IdentityVouched(in)
        BY <2>5 DEF CommitmentVouched, AuthorityVouched, WindowsVouched, IdentityVouched
      <3> QED
        BY <2>2, <3>1, <3>2 DEF Vouched, AtEnd, PastIdentity, PastWindows, PastAuthority,
         PastCommitment, PastOutcomes, PastContext, PastBudget, PastEvidence, PastScope, PastMAT,
         PastTiming, PastPoint, PastFinal, PastSignature
    <2> QED
      BY <2>4, <2>5
  <1> QED
    BY <1>1, <1>2, <1>3 DEF Vouching

------------------------------------------------------------------------------

LEMMA VouchingInit == Init => Vouching
  BY DEF Init, Fresh, Vouching, Vouched, AtEnd, PastIdentity, PastWindows, PastAuthority,
     PastCommitment, PastOutcomes, PastContext, PastBudget, PastEvidence, PastScope, PastMAT,
     PastTiming, PastPoint, PastFinal, PastSignature

LEMMA VouchingNext == Vouching /\ [Next]_vars => Vouching'
  <1> SUFFICES ASSUME Vouching, [Next]_vars PROVE Vouching'
    OBVIOUS
  <1>1. CASE UNCHANGED vars
    BY <1>1 DEF vars, Vouching
  <1>2. CASE Next
    BY <1>2, ReceiptSignatureKeeps, StructureKeeps, ReplayUnseenKeeps, ReceiptFinalKeeps,
       EnforcementPointKeeps, SelfTimingKeeps, GoverningMATKeeps, ScopeCheckKeeps, EvidenceKeeps,
       AuthorizedBudgetKeeps, ContextKeeps, OutcomesKeeps, ConfirmationKeeps, ChainKeeps,
       CommitmentKeeps, AuthorityKeeps, ComplianceKeeps, ProvenanceKeeps, WindowsKeeps,
       IdentityKeeps, CommitmentDigestKeeps, InventoryKeeps, ReconcileKeeps, ReturnKeeps DEF Next
  <1> QED
    BY <1>1, <1>2

LEMMA VouchingHolds == Spec => []Vouching
  BY VouchingInit, VouchingNext, PTL DEF Spec

------------------------------------------------------------------------------
(* What the facts amount to.                                                *)

Less == {ss \in Nat \X Nat : ss[1] < ss[2]}

\* Every set of numbers has a least one.
LEMMA Least ==
    ASSUME NEW T, T \subseteq Nat, T # {}
    PROVE  \E x \in T : \A y \in T : x <= y
  <1>1. IsWellFoundedOn(Less, Nat)
    BY NatLessThanWellFounded DEF OpToRel, Less
  <1>2. PICK x \in T : \A y \in T : <<y, x>> \notin Less
    BY <1>1, WFMin
  <1>3. ASSUME NEW y \in T PROVE x <= y
    <2>1. x \in Nat /\ y \in Nat /\ <<y, x>> \notin Less
      BY <1>2
    <2>2. ~(y < x)
      BY <2>1 DEF Less
    <2> QED
      BY <2>1, <2>2
  <1> QED
    BY <1>3

\* The budget a MAT authorises is one it states, and its strictest.
LEMMA StrictestBudget ==
    ASSUME NEW m, TypedMAT(m), LatencyBudgets(m) # {}
    PROVE  /\ authorizedLatencyBound(m) \in LatencyBudgets(m)
           /\ authorizedLatencyBound(m) \in Nat
           /\ \A b \in LatencyBudgets(m) : authorizedLatencyBound(m) <= b
  <1>1. LatencyBudgets(m) \subseteq Nat
    BY DEF LatencyBudgets, TypedMAT
  <1>2. \E b \in LatencyBudgets(m) : \A o \in LatencyBudgets(m) : b <= o
    BY <1>1, Least
  <1> QED
    BY <1>1, <1>2 DEF authorizedLatencyBound

\* Two lists of one length that agree at every place are one list.
LEMMA SameList ==
    ASSUME NEW s, NEW t, Listed(s), Listed(t), Len(s) = Len(t),
           \A i \in 1..Len(t) : s[i] = t[i]
    PROVE  s = t
  BY DEF Listed

\* A verified envelope was signed with the keys of the anchor it names.
LEMMA SignedOnVerify ==
    ASSUME NEW env, NEW role, verifyEnvelope(env, Anchors, role), Listed(env.signature),
           \A kid \in DOMAIN Anchors : Listed(Anchors[kid].public)
    PROVE  SignedBy(env, role)
  <1>1. /\ env.kid \in DOMAIN Anchors /\ role \in Anchors[env.kid].roles
        /\ SignatureVerifies(env, Anchors[env.kid])
    BY DEF verifyEnvelope
  <1>2. env.signature = Anchors[env.kid].public
    BY <1>1, SameList DEF SignatureVerifies
  <1> QED
    BY <1>1, <1>2 DEF SignedBy

\* What the scope predicate covers, the MAT grants.
LEMMA CoveredIsGranted ==
    ASSUME NEW m, NEW action, NEW resource, CoversOperation(m, action, resource)
    PROVE  Grants(m, action, resource)
  <1>1. \/ "actions" \in m.scope.unconstrained
        \/ action \in m.scope.actions
    BY DEF CoversOperation, unconstrains
  <1>2. action \notin m.boundary.exclusions
    BY DEF CoversOperation
  <1>3. CASE resource = <<>>
    <2>1. ~hasTraversal(resource)
      BY <1>3 DEF hasTraversal
    <2> QED
      BY <1>1, <1>2, <1>3, <2>1 DEF Grants
  <1>4. CASE resource # <<>>
    BY <1>1, <1>2, <1>4 DEF CoversOperation, unconstrains, patternCovered, Grants
  <1> QED
    BY <1>3, <1>4

\* In a list whose ids are distinct, the entry under an id is the one that has it.
LEMMA TheOneWithId ==
    ASSUME NEW cs, Len(cs) \in Nat, validateConstraintIDs(cs), NEW j \in 1..Len(cs)
    PROVE  HasId(cs, cs[j].id) /\ ById(cs, cs[j].id) = cs[j]
  <1> DEFINE Last(i) == cs[i].id = cs[j].id /\ \A k \in (i+1)..Len(cs) : cs[k].id # cs[j].id
  <1>1. \A i \in 1..Len(cs) : cs[i].id = cs[j].id => i = j
    BY DEF validateConstraintIDs
  <1>2. \A k \in (j+1)..Len(cs) : k \in 1..Len(cs) /\ k # j
    OBVIOUS
  <1>3. Last(j)
    BY <1>1, <1>2
  <1>4. \A i \in 1..Len(cs) : Last(i) => i = j
    BY <1>1
  <1>5. (CHOOSE i \in 1..Len(cs) : Last(i)) = j
    BY <1>3, <1>4
  <1> QED
    BY <1>5 DEF HasId, ById

\* Outcomes that recompute are exactly the true ones.
LEMMA OutcomesTrue ==
    ASSUME NEW m, NEW ctx, NEW r, TypedMAT(m), TypedReceipt(r),
           validateConstraintIDs(m.constraints), recomputeOutcomes(m, ctx, r) = "passed"
    PROVE  r.constraint_outcomes = TrueOutcomes(m, ctx)
  <1> DEFINE cs == m.constraints
  <1>1. /\ \A o \in r.constraint_outcomes :
              HasId(cs, o.id) /\ o.satisfied = Evaluate(ById(cs, o.id), ctx)
        /\ \A i \in 1..Len(cs) : \E o \in r.constraint_outcomes : o.id = cs[i].id
    BY DEF recomputeOutcomes, ConstraintHolds
  <1>2. \A j \in 1..Len(cs) : ById(cs, cs[j].id) = cs[j]
    BY TheOneWithId DEF TypedMAT
  <1>3. ASSUME NEW o \in r.constraint_outcomes PROVE o \in TrueOutcomes(m, ctx)
    <2>1. PICK j \in 1..Len(cs) : cs[j].id = o.id
      BY <1>1 DEF HasId
    <2>2. o.satisfied = Evaluate(cs[j], ctx)
      BY <1>1, <1>2, <2>1
    <2>3. o = [id |-> cs[j].id, satisfied |-> Evaluate(cs[j], ctx)]
      BY <2>1, <2>2 DEF TypedReceipt
    <2> QED
      BY <2>3 DEF TrueOutcomes
  <1>4. ASSUME NEW o \in TrueOutcomes(m, ctx) PROVE o \in r.constraint_outcomes
    <2>1. PICK j \in 1..Len(cs) : o = [id |-> cs[j].id, satisfied |-> Evaluate(cs[j], ctx)]
      BY <1>4 DEF TrueOutcomes
    <2>2. PICK p \in r.constraint_outcomes : p.id = cs[j].id
      BY <1>1
    <2>3. p.satisfied = Evaluate(cs[j], ctx)
      BY <1>1, <1>2, <2>2
    <2>4. p = o
      BY <2>1, <2>2, <2>3 DEF TypedReceipt
    <2> QED
      BY <2>4
  <1> QED
    BY <1>3, <1>4

\* A check that was not performed is listed: one not listed and not failed passed.
LEMMA VouchedPassed ==
    ASSUME NEW np, NEW name, NEW status, Vouch(np, name, status), name \notin np,
           status \in Statuses
    PROVE  status = "passed"
  BY DEF Vouch, Statuses

------------------------------------------------------------------------------
(* The theorems.                                                            *)

\* FreshEvidence, of a receipt and a MAT.
Evidenced(r, m) ==
    \A cat \in ObligedCategories(m) : \E i \in 1..Len(r.evidence_refs) :
        r.evidence_refs[i].category = cat /\ r.evidence_refs[i].fresh

\* A valid, finished permit under a MAT and a context, with the establishing checks
\* performed, is authorised.
LEMMA PermitAuthorised ==
    ASSUME NEW x \in Inputs, NEW np, NEW m, NEW k, Vouched("done", x, np, m, k),
           x.mat # <<>>, x.context # <<>>, RC(x).decision # "deny", np \cap Establishing = {}
    PROVE  /\ SignedBy(x.receipt, "enforcement_point") /\ SignedBy(x.mat[1], "issuer")
           /\ MATOf(x).issuer_kid = x.mat[1].kid
           /\ RC(x).artifact_id = MATOf(x).id /\ ~RC(x).speculative
           /\ RC(x).enforcement_point = Anchors[x.receipt.kid].subject
           /\ RC(x).enforcement_point # ""
           /\ Grants(MATOf(x), RC(x).action, RC(x).resource)
           /\ \A b \in LatencyBudgets(MATOf(x)) :
                 Instant(RC(x).complete) - Instant(RC(x).start) <= b + timingClockSkewToleranceMS
           /\ Instant(MATOf(x).not_before) <= Instant(RC(x).start)
           /\ Instant(RC(x).start) <= Instant(MATOf(x).not_after)
           /\ RC(x).context_digest = Digest(x.context[1])
           /\ RC(x).constraint_outcomes = TrueOutcomes(MATOf(x), x.context[1])
           /\ AllHold(MATOf(x), x.context[1]) \/ RC(x).controls # {}
           /\ RC(x).evidence_refs # <<>> => Evidenced(RC(x), MATOf(x))
  <1> DEFINE r == RC(x)
             g == MATOf(x)
             c == x.context[1]
  <1>1. /\ ReceiptParses(x.receipt, Anchors) /\ ~r.speculative
        /\ PointVouched(x, np) /\ TimingVouched(x, np)
        /\ MATParses(x.mat[1], Anchors) /\ r.artifact_id = g.id
        /\ ScopeVouched(x, np) /\ EvidenceVouched(x) /\ BudgetVouched(x, np)
        /\ r.context_digest = Digest(c) /\ OutcomesVouched(x, np)
    BY DEF Vouched, MATVouched, ContextVouched, AtEnd, PastIdentity, PastWindows, PastAuthority,
       PastCommitment, PastOutcomes, PastContext, PastBudget, PastEvidence, PastScope, PastMAT,
       PastTiming, PastPoint, PastFinal, PastSignature
  <1>2. /\ \A kid \in DOMAIN Anchors : Listed(Anchors[kid].public)
        /\ Listed(x.receipt.signature) /\ Listed(x.mat[1].signature)
        /\ TypedReceipt(r) /\ TypedMAT(g)
    BY <1>1, InputsAssumption DEF ReceiptParses, MATParses, RC, MATOf
  <1>3. /\ SignedBy(x.receipt, "enforcement_point") /\ SignedBy(x.mat[1], "issuer")
        /\ x.receipt.kid \in DOMAIN Anchors
    BY <1>1, <1>2, SignedOnVerify DEF ReceiptParses, MATParses, SignedBy
  <1>4. ValidateStructure(g) /\ g.issuer_kid = x.mat[1].kid
    BY <1>1 DEF MATParses, MATOf
  <1>5. r.enforcement_point = Anchors[x.receipt.kid].subject /\ r.enforcement_point # ""
    <2> DEFINE st == EnforcementPointBinding(r, x.receipt.kid, SubjectOf(Anchors, x.receipt.kid))
    <2>1. st \in Statuses
      BY DEF EnforcementPointBinding, Judge, PassIf, Statuses
    <2>2. st = "passed"
      BY <1>1, <2>1, VouchedPassed DEF PointVouched, Establishing
    <2>3. /\ r.enforcement_point = SubjectOf(Anchors, x.receipt.kid)
          /\ SubjectOf(Anchors, x.receipt.kid) # ""
      BY <2>2 DEF EnforcementPointBinding, Judge, PassIf
    <2> QED
      BY <1>3, <2>3 DEF SubjectOf
  <1>6. Grants(g, r.action, r.resource)
    <2>1. ScopeStatus(r, g) = "passed"
      <3>1. ScopeStatus(r, g) \in Statuses
        BY DEF ScopeStatus, Judge, PassIf, Statuses
      <3> QED
        BY <1>1, <3>1, VouchedPassed DEF ScopeVouched, Establishing
    <2>2. CoversOperation(g, r.action, r.resource)
      BY <2>1 DEF ScopeStatus, Judge, PassIf, Permitted
    <2> QED
      BY <2>2, CoveredIsGranted
  <1>7. /\ IsInstant(r.start) /\ IsInstant(r.complete)
        /\ Abs(Instant(r.complete) - Instant(r.start) - r.elapsed_ms) <= timingClockSkewToleranceMS
    <2>1. timingSelfConsistent(r) = "passed"
      <3>1. timingSelfConsistent(r) \in Statuses
        BY DEF timingSelfConsistent, Judge, PassIf, Statuses
      <3> QED
        BY <1>1, <3>1, VouchedPassed DEF TimingVouched, Establishing
    <2> QED
      BY <2>1 DEF timingSelfConsistent, Judge, PassIf
  <1>8. \A b \in LatencyBudgets(g) :
           Instant(r.complete) - Instant(r.start) <= b + timingClockSkewToleranceMS
    <2> SUFFICES ASSUME NEW b \in LatencyBudgets(g)
                 PROVE  Instant(r.complete) - Instant(r.start) <= b + timingClockSkewToleranceMS
      OBVIOUS
    <2>1. AuthorizedTiming(r, g) # "failed"
      BY <1>1 DEF BudgetVouched, Vouch
    <2>2. r.elapsed_ms <= authorizedLatencyBound(g)
      BY <2>1 DEF AuthorizedTiming, Judge, PassIf
    <2>3. authorizedLatencyBound(g) \in Nat /\ authorizedLatencyBound(g) <= b
      BY <1>2, StrictestBudget
    <2>4. b \in Int
      BY <1>2 DEF LatencyBudgets, TypedMAT
    <2>5. r.elapsed_ms \in Int /\ Instant(r.complete) \in Int /\ Instant(r.start) \in Int
      BY <1>2, <1>7 DEF TypedReceipt
    <2>6. Instant(r.complete) - Instant(r.start) - r.elapsed_ms <= timingClockSkewToleranceMS
      BY <1>7, <2>5 DEF Abs, timingClockSkewToleranceMS
    <2> QED
      BY <2>2, <2>3, <2>4, <2>5, <2>6 DEF timingClockSkewToleranceMS
  <1>9. Instant(g.not_before) <= Instant(r.start) /\ Instant(r.start) <= Instant(g.not_after)
    <2>1. IsInstant(g.not_before) /\ IsInstant(g.not_after)
      BY <1>4 DEF ValidateStructure
    <2>2. g.not_before # Absent /\ g.not_after # Absent
      BY <2>1 DEF IsInstant, Absent
    <2>3. withinWindow(r.start, g.not_before, g.not_after) # "failed"
      BY <1>1 DEF BudgetVouched
    <2>4. WithinStated(Instant(r.start), g.not_before, g.not_after)
      BY <2>2, <2>3 DEF withinWindow, Judge, PassIf
    <2> QED
      BY <2>2, <2>4 DEF WithinStated
  <1>10. r.constraint_outcomes = TrueOutcomes(g, c)
    <2>1. recomputeOutcomes(g, c, r) \in Statuses
      BY DEF recomputeOutcomes, Statuses
    <2>2. recomputeOutcomes(g, c, r) = "passed"
      BY <1>1, <2>1, VouchedPassed DEF OutcomesVouched, Establishing
    <2> QED
      BY <1>2, <1>4, <2>2, OutcomesTrue DEF ValidateStructure
  <1>11. AllHold(g, c) \/ r.controls # {}
    BY <1>1 DEF OutcomesVouched, decisionConsistent, AllHold, TrueOutcomes
  <1>12. ASSUME r.evidence_refs # <<>> PROVE Evidenced(r, g)
    <2> SUFFICES ASSUME NEW cat \in ObligedCategories(g)
                 PROVE  \E i \in 1..Len(r.evidence_refs) :
                            r.evidence_refs[i].category = cat /\ r.evidence_refs[i].fresh
      BY DEF Evidenced
    <2>1. g.proof_obligations # <<>>
      BY DEF ObligedCategories
    <2>2. EvidenceCovers(r, g) # "failed" /\ EvidenceFresh(r, g) # "failed"
      BY <1>1, <2>1 DEF EvidenceVouched
    <2>3. ObligedCategories(g) \subseteq Referenced(r)
      BY <1>12, <2>2 DEF EvidenceCovers, Judge, PassIf, Permitted
    <2>4. LastRefFresh(r, cat)
      BY <1>12, <2>2, <2>3 DEF EvidenceFresh, Judge, PassIf, Permitted
    <2> QED
      BY <2>4 DEF LastRefFresh
  <1> QED
    BY <1>1, <1>3, <1>4, <1>5, <1>6, <1>8, <1>9, <1>10, <1>11, <1>12

\* A permit the verifier calls valid, leaving none of the establishing checks
\* unperformed, is one the artifacts authorise - whatever the anchors and inputs.
THEOREM VouchesTruly == Spec => []VouchedPermitIsAuthorised
  <1>1. Vouching => VouchedPermitIsAuthorised
    <2> SUFFICES ASSUME Vouching, pc = "done", valid, in.mat # <<>>, in.context # <<>>,
                        rc.decision # "deny", notPerformed \cap Establishing = {}
                 PROVE  AuthorisedPermit(in.mat[1].payload, in.context[1])
      BY DEF VouchedPermitIsAuthorised
    <2>1. in \in Inputs /\ Vouched("done", in, notPerformed, mat, com)
      BY DEF Vouching
    <2>2. rc = RC(in) /\ in.mat[1].payload = MATOf(in)
      BY DEF rc, RC, MATOf
    <2>3. \A i \in 1..Len(MATOf(in).constraints) :
             (/\ MATOf(in).constraints[i].type = "latency_bound"
              /\ MATOf(in).constraints[i].max_ms > 0)
             => MATOf(in).constraints[i].max_ms \in LatencyBudgets(MATOf(in))
      BY DEF LatencyBudgets
    <2> QED
      BY <2>1, <2>2, <2>3, PermitAuthorised DEF AuthorisedPermit, FreshEvidence, Evidenced
  <1> QED
    BY <1>1, VouchingHolds, PTL

\* A window that did not fail contains the instant, as far as it is stated.
LEMMA InWindow ==
    ASSUME NEW at, NEW nb, NEW na, withinWindow(at, nb, na) # "failed"
    PROVE  WithinStated(Instant(at), nb, na)
  BY DEF withinWindow, Judge, PassIf, WithinStated

\* What the verifier lets a commitment name among its resources, it may declare.
LEMMA CoveredIsDeclarable ==
    ASSUME NEW m, NEW r, coversResource(m, r)
    PROVE  DeclarableResource(m, r)
  BY DEF coversResource, unconstrains, patternCovered, DeclarableResource

\* What passes for within the scope of a MAT declares nothing outside it, range by
\* range: constraint ids do not repeat in a MAT that is well formed.
LEMMA ScopeDeclaresWithin ==
    ASSUME NEW k, NEW m, Len(m.constraints) \in Nat, validateConstraintIDs(m.constraints),
           WithinScopeOf(k, m)
    PROVE  DeclaresWithin(k, m)
  <1>1. k.unconstrained \cap {"actions", "resources"} \subseteq m.scope.unconstrained
    BY DEF WithinScopeOf
  <1>2. \A a \in k.action_types : Grants(m, a, <<>>)
    BY CoveredIsGranted DEF WithinScopeOf
  <1>3. \A r \in k.resources \cup k.resource_targets : DeclarableResource(m, r)
    BY CoveredIsDeclarable DEF WithinScopeOf
  <1>4. ASSUME NEW i \in 1..Len(k.param_ranges), NEW j \in 1..Len(m.constraints),
               k.param_ranges[i].id = m.constraints[j].id
        PROVE  constraintAtLeastAsStrict(k.param_ranges[i], m.constraints[j])
    <2>1. /\ HasId(m.constraints, m.constraints[j].id)
          /\ ById(m.constraints, m.constraints[j].id) = m.constraints[j]
      BY TheOneWithId
    <2> QED
      BY <1>4, <2>1 DEF WithinScopeOf
  <1> QED
    BY <1>1, <1>2, <1>3, <1>4 DEF DeclaresWithin

\* A valid result for a MAT and a commitment means the commitment is one made under
\* that very MAT, in time, and, unless the receipt denies, declaring nothing the MAT
\* does not grant - whatever the anchors and inputs.
THEOREM CommitmentsNarrow == Spec => []CommitmentNarrowsItsMAT
  <1>1. Vouching => CommitmentNarrowsItsMAT
    <2> SUFFICES ASSUME Vouching, pc = "done", valid, in.mat # <<>>, in.commitment # <<>>
                 PROVE  CommitmentNarrowsItsMAT
      BY DEF CommitmentNarrowsItsMAT
    <2> DEFINE m == in.mat[1].payload
               k == in.commitment[1].payload
               start == Instant(rc.start)
    <2>1. in \in Inputs /\ Vouched("done", in, notPerformed, mat, com)
      BY DEF Vouching
    <2>2. /\ MATParses(in.mat[1], Anchors) /\ BudgetVouched(in, notPerformed)
          /\ VerifyBinding(k, m) /\ CommitmentScope(rc, k, m)
          /\ CommitmentTemporal(rc, k) # "failed" /\ CommitmentActionWindow(rc, k) # "failed"
          /\ identitiesAgree(k.agent_identity, m.machine_identity) # "failed"
      BY <2>1 DEF Vouched, MATVouched, AuthorityVouched, WindowsVouched, IdentityVouched, RC, rc,
         MATOf, ComOf, AtEnd, PastIdentity, PastWindows, PastAuthority, PastCommitment,
         PastOutcomes, PastContext, PastBudget, PastEvidence, PastScope, PastMAT
    <2>3. TypedMAT(m) /\ ValidateStructure(m)
      BY <2>1, <2>2, InputsAssumption DEF MATParses
    <2>4. k.artifact_id = m.id /\ k.constraint_digest = Digest(m.constraints)
      BY <2>2 DEF VerifyBinding, ConstraintDigest
    <2>5. m.machine_identity.carries # {} => k.agent_identity = m.machine_identity
      BY <2>2 DEF identitiesAgree, identityUnset, Judge, PassIf, Digest
    <2>6. rc.decision # "deny" => DeclaresWithin(k, m)
      BY <2>2, <2>3, ScopeDeclaresWithin DEF CommitmentScope, Permitted, TypedMAT, ValidateStructure
    <2>7. /\ k.not_before # Absent \/ k.not_after # Absent
          /\ WithinStated(start, k.not_before, k.not_after)
      BY <2>2 DEF CommitmentTemporal, withinWindow, Judge, PassIf
    <2>8. Instant(m.not_before) <= start /\ start <= Instant(m.not_after)
      <3>1. m.not_before # Absent /\ m.not_after # Absent
        <4>1. IsInstant(m.not_before) /\ IsInstant(m.not_after)
          BY <2>3 DEF ValidateStructure
        <4> QED
          BY <4>1 DEF IsInstant, Absent
      <3>2. withinWindow(rc.start, m.not_before, m.not_after) # "failed"
        BY <2>2 DEF BudgetVouched, RC, MATOf, rc
      <3>3. WithinStated(start, m.not_before, m.not_after)
        BY <3>2, InWindow
      <3> QED
        BY <3>1, <3>3 DEF WithinStated
    <2>9. k.action_window # <<>>
             => WithinStated(start, k.action_window[1], k.action_window[2])
      BY <2>2, InWindow DEF CommitmentActionWindow
    <2> HIDE DEF m, k, start
    <2> QED
      BY <2>4, <2>5, <2>6, <2>7, <2>8, <2>9 DEF CommitmentNarrowsItsMAT, m, k, start
  <1> QED
    BY <1>1, VouchingHolds, PTL

------------------------------------------------------------------------------
(* 5. What an honest enforcement point issues.                              *)

\* None of the checks in S failed.
NotFailed(S) == \A c \in S : c.status # "failed"

\* What the verifier is given on an occasion: what was issued, and each of the
\* other inputs as the occasion has it or not at all.
LEMMA GivenOn ==
    ASSUME NEW o
    PROVE  /\ Presentation(o).receipt = Sign(o, Issued(o))
           /\ Presentation(o).receipt.payload = Issued(o)
           /\ Presentation(o).receipt.kid = o.kid
           /\ Presentation(o).mat \in {<<>>, <<o.mat>>}
           /\ Presentation(o).context \in {<<>>, <<o.context>>}
           /\ Presentation(o).prior \in {<<>>, o.prior}
           /\ Presentation(o).confirmed \in {<<>>, o.confirmed}
           /\ Presentation(o).commitment \in {<<>>, o.commitment}
           /\ Presentation(o).replay \in {<<>>, <<o.acted \ {Digest(Issued(o))}>>}
  BY DEF Presentation, Supplied, Sign

\* What the receipt states, or leaves undisclosed.
LEMMA StatedOn ==
    ASSUME NEW o
    PROVE  /\ Issued(o).version = ProtocolVersion
           /\ Issued(o).artifact_id = MATOn(o).id
           /\ Issued(o).action \in {<<>>, o.action}
           /\ Issued(o).resource \in {<<>>, o.resource}
           /\ Issued(o).decision = o.decision
           /\ Issued(o).controls = o.controls
           /\ Issued(o).context_digest = Digest(o.context)
           /\ Issued(o).rationale_codes = o.codes
           /\ Issued(o).constraint_outcomes \in {{}, TrueOutcomes(MATOn(o), o.context)}
           /\ Issued(o).evidence_refs \in {<<>>, o.evidence}
           /\ Issued(o).policy_digest \in {<<>>, ConstraintDigest(MATOn(o))}
  BY DEF Issued, Disclosed

LEMMA StatedToo ==
    ASSUME NEW o
    PROVE  /\ Issued(o).start = Stamp(o, o.start)
           /\ Issued(o).complete \in {Absent, Stamp(o, o.start + Elapsed(o))}
           /\ Issued(o).elapsed_ms = Elapsed(o)
           /\ Issued(o).max_ms = (IF LatencyBudgets(MATOn(o)) = {} THEN 0
                                  ELSE authorizedLatencyBound(MATOn(o)))
           /\ Issued(o).resource_keys = o.keys
           /\ Issued(o).resource_state_digest
                 \in {<<>>, Digest([k \in o.keys |-> o.context.resource_state[k]])}
           /\ Issued(o).speculative = FALSE
           /\ o.prior # <<>> => Issued(o).prior_hash = Digest(o.prior[1])
           /\ o.confirmed # <<>> => Issued(o).confirms = Digest(o.confirmed[1])
           /\ Issued(o).enforcement_point = o.name
           /\ Issued(o).enforcement_point_kid \in {"", o.kid}
           /\ Issued(o).commitment_digest \in {<<>>, OnCommitted(o, Digest(ComOn(o)))}
           /\ Issued(o).compliance \in {<<>>, OnCommitted(o, <<Claim(o)>>)}
           /\ Issued(o).provenance \in {<<>>, OnCommitted(o, ComOn(o).provenance)}
  BY DEF Issued, Disclosed

\* The artifacts the verifier parses on an occasion are those of the occasion.
LEMMA ParsedOn ==
    ASSUME NEW o \in Occasions
    PROVE  /\ MATIn(Presentation(o)) \in {<<>>, <<MATOn(o)>>}
           /\ Presentation(o).mat # <<>> => /\ Presentation(o).mat = <<o.mat>>
                                            /\ MATParses(o.mat, Anchors)
           /\ Presentation(o).commitment # <<>> =>
                 /\ Presentation(o).commitment = o.commitment
                 /\ CommitmentParses(o.commitment[1], Anchors)
           /\ ComIn(Presentation(o)) # <<>> => /\ o.commitment # <<>>
                                               /\ ComIn(Presentation(o)) = <<ComOn(o)>>
  <1>1. MATParses(o.mat, Anchors)
    BY OccasionsAssumption DEF Granted
  <1>2. o.commitment # <<>> => CommitmentParses(o.commitment[1], Anchors)
    BY OccasionsAssumption DEF Committed
  <1>3. MATIn(Presentation(o)) \in {<<>>, <<MATOn(o)>>}
    BY GivenOn DEF MATIn, MATOn
  <1>4. Presentation(o).mat # <<>> => Presentation(o).mat = <<o.mat>>
    BY GivenOn
  <1>5. Presentation(o).commitment # <<>> => Presentation(o).commitment = o.commitment
    BY GivenOn
  <1>6. ComIn(Presentation(o)) # <<>> =>
           o.commitment # <<>> /\ ComIn(Presentation(o)) = <<ComOn(o)>>
    BY <1>5 DEF ComIn, ComOn
  <1> QED
    BY <1>1, <1>2, <1>3, <1>4, <1>5, <1>6

------------------------------------------------------------------------------
(* The clock.                                                               *)

\* Cutting to whole seconds loses less than a second.
LEMMA CutLoses ==
    ASSUME NEW t \in Int
    PROVE  Cut(t) \in Int /\ Cut(t) <= t /\ t < Cut(t) + 1000
  BY DEF Cut, Second

\* Cutting keeps the order.
LEMMA CutOrdered ==
    ASSUME NEW s \in Int, NEW t \in Int, s <= t
    PROVE  Cut(s) <= Cut(t)
  BY DEF Cut, Second

\* Nothing runs past a budget.
LEMMA WithinBudget ==
    ASSUME NEW o \in Occasions
    PROVE  /\ Elapsed(o) \in Nat
           /\ LatencyBudgets(MATOn(o)) # {} =>
                 /\ authorizedLatencyBound(MATOn(o)) \in Nat
                 /\ authorizedLatencyBound(MATOn(o)) # 0
                 /\ Elapsed(o) <= authorizedLatencyBound(MATOn(o))
  <1> DEFINE m == MATOn(o)
  <1>1. TypedMAT(m) /\ o.would \in Nat
    BY OccasionsAssumption DEF Granted, Recorded
  <1>2. CASE LatencyBudgets(m) = {}
    <2>1. ~TimesOut(o)
      BY <1>2 DEF TimesOut
    <2> QED
      BY <1>1, <1>2, <2>1 DEF Elapsed
  <1>3. CASE LatencyBudgets(m) # {}
    <2>1. /\ authorizedLatencyBound(m) \in LatencyBudgets(m)
          /\ \A b \in LatencyBudgets(m) : authorizedLatencyBound(m) <= b
      BY <1>1, <1>3, StrictestBudget
    <2>2. authorizedLatencyBound(m) \in Nat /\ authorizedLatencyBound(m) # 0
      BY <1>1, <2>1 DEF LatencyBudgets, TypedMAT
    <2>3. CASE TimesOut(o)
      BY <2>1, <2>2, <2>3 DEF Elapsed
    <2>4. CASE ~TimesOut(o)
      <3>1. ~(o.would > authorizedLatencyBound(m))
        BY <2>1, <2>4 DEF TimesOut
      <3> QED
        BY <1>1, <2>2, <2>4, <3>1 DEF Elapsed
    <2> QED
      BY <2>3, <2>4
  <1> QED
    BY <1>2, <1>3

\* A stamped start lies in the windows the start lies in.
LEMMA StampOpens ==
    ASSUME NEW o \in Occasions, NEW nb, NEW na, Opens(o, nb, na)
    PROVE  /\ IsInstant(Issued(o).start)
           /\ WithinStated(Instant(Issued(o).start), nb, na)
  <1>1. o.start \in Int /\ o.exact \in BOOLEAN /\ Issued(o).start = Stamp(o, o.start)
    BY OccasionsAssumption, StatedToo DEF Recorded
  <1>2. IsInstant(Issued(o).start)
    BY <1>1 DEF Stamp, IsInstant
  <1>3. CASE o.exact
    <2>1. Instant(Issued(o).start) = o.start
      BY <1>1, <1>3 DEF Stamp, Instant
    <2> QED
      BY <1>2, <2>1 DEF Opens
  <1>4. CASE ~o.exact
    <2>1. Instant(Issued(o).start) = Cut(o.start)
      BY <1>1, <1>4 DEF Stamp, Instant
    <2>2. ASSUME nb # Absent PROVE IsInstant(nb) /\ Instant(nb) <= Cut(o.start)
      <3>1. /\ IsInstant(nb) /\ Instant(nb) \in Int
            /\ Instant(nb) <= o.start /\ Cut(Instant(nb)) = Instant(nb)
        BY <1>4, <2>2 DEF Opens, WithinStated
      <3>2. Cut(Instant(nb)) <= Cut(o.start)
        BY <1>1, <3>1, CutOrdered
      <3> QED
        BY <3>1, <3>2
    <2>3. ASSUME na # Absent PROVE IsInstant(na) /\ Cut(o.start) <= Instant(na)
      <3>1. IsInstant(na) /\ Instant(na) \in Int /\ o.start <= Instant(na)
        BY <2>3 DEF Opens, WithinStated
      <3>2. Cut(o.start) \in Int /\ Cut(o.start) <= o.start
        BY <1>1, CutLoses
      <3> QED
        BY <1>1, <3>1, <3>2
    <2> QED
      BY <1>2, <2>1, <2>2, <2>3 DEF WithinStated
  <1> QED
    BY <1>1, <1>3, <1>4

------------------------------------------------------------------------------
(* Step by step.                                                            *)

\* Sets of checks of which none failed.
LEMMA OneHolds ==
    ASSUME NEW n, NEW s, s # "failed"
    PROVE  NotFailed({Check(n, s)})
  BY DEF NotFailed, Check

LEMMA PassHolds ==
    ASSUME NEW n, NEW p, p
    PROVE  NotFailed({Check(n, PassIf(p))})
  BY DEF NotFailed, Check, PassIf

LEMMA UnionHolds ==
    ASSUME NEW S, NEW T, NotFailed(S), NotFailed(T)
    PROVE  NotFailed(S \cup T)
  BY DEF NotFailed

\* The receipt is signed by an enforcement point.
LEMMA SignatureOn ==
    ASSUME NEW o \in Occasions
    PROVE  /\ ReceiptParses(Presentation(o).receipt, Anchors)
           /\ NotFailed(SaysSignature(Presentation(o)))
  <1> DEFINE e == Presentation(o).receipt
  <1>1. /\ o.kid # "" /\ o.kid \in DOMAIN Anchors
        /\ "enforcement_point" \in Anchors[o.kid].roles /\ Anchors[o.kid].alg \in Algorithms
    BY OccasionsAssumption DEF Registered
  <1>2. /\ e.decodes = TRUE /\ e.kid = o.kid /\ e.alg = Anchors[o.kid].alg
        /\ e.signature = Anchors[o.kid].public /\ e.kind = "receipt" /\ e.canonical = TRUE
    <2>1. e = Sign(o, Issued(o))
      BY GivenOn
    <2> QED
      BY <2>1 DEF Sign
  <1>3. SignatureVerifies(e, Anchors[e.kid])
    BY <1>1, <1>2 DEF SignatureVerifies
  <1>4. ReceiptParses(e, Anchors)
    BY <1>1, <1>2, <1>3 DEF ReceiptParses, verifyEnvelope, Unmarshals
  <1> QED
    BY <1>4, PassHolds DEF SaysSignature

\* Its version, decision, rationale codes and controls are in order.
LEMMA StructureOn ==
    ASSUME NEW o \in Occasions
    PROVE  NotFailed(SaysStructure(Presentation(o)))
  <1> DEFINE r == Issued(o)
  <1>1. /\ o.codes \subseteq KnownCodes /\ o.decision \in Decisions
        /\ (o.decision = "permit_with_controls") <=> (o.controls # {})
    BY OccasionsAssumption DEF Registered, Decides
  <1>2. /\ r.version = ProtocolVersion /\ r.decision \in Decisions
        /\ RationaleCodesKnown(r) /\ ControlsDeclared(r)
    BY <1>1, StatedOn DEF RationaleCodesKnown, ControlsDeclared
  <1> HIDE DEF r
  <1> QED
    BY <1>2, GivenOn DEF SaysStructure, NotFailed, Check, PassIf, r

\* It was not acted on before, is not speculative, and its signer is registered
\* under its name or under none.
LEMMA OwnOn ==
    ASSUME NEW o \in Occasions
    PROVE  /\ NotFailed(SaysReplay(Presentation(o)))
           /\ NotFailed(SaysFinal(Presentation(o)))
           /\ NotFailed(SaysPoint(Presentation(o)))
  <1> DEFINE r == Issued(o)
             x == Presentation(o)
  <1>1. x.replay # <<>> => Digest(r) \notin x.replay[1]
    BY GivenOn
  <1>2. Judge(x.replay # <<>>, Digest(r) \notin x.replay[1]) # "failed"
    BY <1>1 DEF Judge, PassIf
  <1>3. NotFailed(SaysReplay(x))
    BY <1>2, OneHolds, GivenOn DEF SaysReplay
  <1>4. NotFailed(SaysFinal(x))
    <2>1. x.receipt.payload = r /\ r.speculative = FALSE
      BY GivenOn, StatedToo
    <2>2. SaysFinal(x) = {Check("receipt_final", PassIf(TRUE))}
      BY <2>1 DEF SaysFinal
    <2> QED
      BY <2>2, PassHolds
  <1>5. /\ o.kid \in DOMAIN Anchors /\ Anchors[o.kid].subject \in {"", o.name}
    BY OccasionsAssumption DEF Registered
  <1>6. SubjectOf(Anchors, o.kid) \in {"", o.name}
    BY <1>5 DEF SubjectOf
  <1>7. EnforcementPointBinding(r, o.kid, SubjectOf(Anchors, o.kid)) # "failed"
    BY <1>6, StatedToo DEF EnforcementPointBinding, Judge, PassIf
  <1>8. NotFailed(SaysPoint(x))
    BY <1>7, OneHolds, GivenOn DEF SaysPoint
  <1> QED
    BY <1>3, <1>4, <1>8

\* The timing: stamps cut to whole seconds are off by less than the tolerance.
LEMMA TimingOn ==
    ASSUME NEW o \in Occasions
    PROVE  NotFailed(SaysTiming(Presentation(o)))
  <1> DEFINE r == Issued(o)
             e == Elapsed(o)
  <1>1. o.start \in Int /\ o.exact \in BOOLEAN /\ e \in Nat /\ o.start + e \in Int
    BY OccasionsAssumption, WithinBudget DEF Recorded
  <1>2. TimingWithinBound(r)
    BY WithinBudget, StatedToo DEF TimingWithinBound
  <1>3. r.start = Stamp(o, o.start) /\ r.elapsed_ms = e
    BY StatedToo
  <1>4. ASSUME r.complete = Absent PROVE timingSelfConsistent(r) # "failed"
    <2>1. ~(r.elapsed_ms < 0)
      BY <1>1, <1>3
    <2> QED
      BY <1>4, <2>1 DEF timingSelfConsistent, Judge
  <1>5. ASSUME r.complete = Stamp(o, o.start + e) PROVE timingSelfConsistent(r) # "failed"
    <2>1. IsInstant(r.start) /\ IsInstant(r.complete)
      BY <1>3, <1>5 DEF Stamp, IsInstant
    <2>2. /\ Instant(r.start) = IF o.exact THEN o.start ELSE Cut(o.start)
          /\ Instant(r.complete) = IF o.exact THEN o.start + e ELSE Cut(o.start + e)
      BY <1>3, <1>5 DEF Stamp, Instant
    <2> DEFINE s == Instant(r.start)
               c == Instant(r.complete)
    <2>3. /\ Cut(o.start) \in Int /\ Cut(o.start) <= o.start /\ o.start < Cut(o.start) + 1000
          /\ Cut(o.start + e) \in Int /\ Cut(o.start + e) <= o.start + e
          /\ o.start + e < Cut(o.start + e) + 1000
      BY <1>1, CutLoses
    <2>4. Cut(o.start) <= Cut(o.start + e)
      BY <1>1, CutOrdered
    <2>5. s \in Int /\ c \in Int /\ s <= c /\ -1000 < c - s - e /\ c - s - e < 1000
      BY <1>1, <2>2, <2>3, <2>4
    <2>6. Abs(c - s - e) <= timingClockSkewToleranceMS
      BY <1>1, <2>5 DEF Abs, timingClockSkewToleranceMS
    <2>7. ~(r.elapsed_ms < 0) /\ r.elapsed_ms = e
      BY <1>1, <1>3
    <2> QED
      BY <2>1, <2>5, <2>6, <2>7 DEF timingSelfConsistent, Judge, PassIf
  <1>6. timingSelfConsistent(r) # "failed"
    BY <1>4, <1>5, StatedToo
  <1> QED
    BY <1>2, <1>6, GivenOn DEF SaysTiming, NotFailed, Check, PassIf

\* The MAT verifies and is the one the receipt names.
LEMMA MATOnOccasion ==
    ASSUME NEW o \in Occasions
    PROVE  NotFailed(SaysMAT(Presentation(o)))
  <1> DEFINE x == Presentation(o)
  <1>1. CASE x.mat = <<>>
    BY <1>1 DEF SaysMAT, NotFailed
  <1>2. CASE x.mat # <<>>
    <2> DEFINE names == PassIf(x.receipt.payload.artifact_id = x.mat[1].payload.id)
    <2>1. x.mat[1] = o.mat /\ MATParses(o.mat, Anchors)
      BY <1>2, ParsedOn
    <2>2. x.mat[1].payload = MATOn(o)
      BY <2>1 DEF MATOn
    <2>3. x.receipt.payload.artifact_id = MATOn(o).id
      BY GivenOn, StatedOn
    <2>4. names = "passed"
      BY <2>2, <2>3 DEF PassIf
    <2>5. SaysMAT(x) = {Check("mat_signature", "passed"), Check("artifact_binding", names)}
      BY <1>2, <2>1 DEF SaysMAT
    <2> HIDE DEF names
    <2> QED
      BY <2>4, <2>5 DEF NotFailed, Check
  <1> QED
    BY <1>1, <1>2

\* What it permits is in the MAT's scope; without the resource it stays in it.
LEMMA ScopeOn ==
    ASSUME NEW o \in Occasions
    PROVE  NotFailed(SaysScope(Presentation(o)))
  <1> DEFINE r == Issued(o)
             m == MATOn(o)
  <1>1. CASE MATIn(Presentation(o)) = <<>>
    BY <1>1 DEF SaysScope, NotFailed
  <1>2. CASE MATIn(Presentation(o)) = <<m>>
    <2>1. ASSUME ScopeReproducible(m, r.action, r.resource), r.decision # "deny"
          PROVE  CoversOperation(m, r.action, r.resource)
      <3>1. CoversOperation(m, o.action, o.resource) /\ <<>> \notin m.boundary.exclusions
        BY <2>1, OccasionsAssumption, StatedOn DEF Decides, MayPermit, Granted
      <3>2. r.action \in {<<>>, o.action} /\ r.resource \in {<<>>, o.resource}
        BY StatedOn
      <3>3. /\ unconstrains(m.scope, "actions") \/ r.action \in m.scope.actions
            /\ r.action \notin m.boundary.exclusions
        BY <2>1, <3>1, <3>2 DEF CoversOperation, ScopeReproducible
      <3>4. r.resource # <<>> => r.resource = o.resource
        BY <3>2
      <3> QED
        BY <3>1, <3>3, <3>4 DEF CoversOperation
    <2>2. ScopeStatus(r, m) # "failed"
      BY <2>1 DEF ScopeStatus, Judge, PassIf, Permitted
    <2>3. SaysScope(Presentation(o)) = {Check("scope_check", ScopeStatus(r, m))}
      BY <1>2, GivenOn DEF SaysScope
    <2> QED
      BY <2>2, <2>3, OneHolds
  <1> QED
    BY <1>1, <1>2, ParsedOn

\* A fresh category has a last reference, and it is fresh.
LEMMA LastIsFresh ==
    ASSUME NEW refs, Len(refs) \in Nat, NEW r, r.evidence_refs = refs, NEW cat,
           \E i \in 1..Len(refs) : refs[i].category = cat,
           \A i \in 1..Len(refs) : refs[i].category = cat => refs[i].fresh
    PROVE  LastRefFresh(r, cat)
  <1> DEFINE N == Len(refs)
             After == {n \in Nat : n < N /\ refs[N - n].category = cat}
  <1>1. PICK i \in 1..N : refs[i].category = cat
    OBVIOUS
  <1>2. N - i \in Nat /\ N - i < N /\ N - (N - i) = i
    OBVIOUS
  <1>3. N - i \in After
    BY <1>1, <1>2
  <1>4. PICK n \in After : \A k \in After : n <= k
    BY <1>3, Least
  <1> DEFINE l == N - n
  <1>5. l \in 1..N /\ refs[l].category = cat /\ refs[l].fresh
    BY <1>4
  <1>6. ASSUME NEW j \in (l+1)..N, refs[j].category = cat PROVE FALSE
    <2>1. N - j \in Nat /\ N - j < N /\ N - (N - j) = j /\ N - j < n
      BY <1>4, <1>6
    <2>2. N - j \in After
      BY <1>6, <2>1
    <2> QED
      BY <1>4, <2>1, <2>2
  <1> QED
    BY <1>5, <1>6 DEF LastRefFresh

\* What it permits is evidenced by fresh references, or by none disclosed.
LEMMA EvidenceOn ==
    ASSUME NEW o \in Occasions
    PROVE  NotFailed(SaysEvidence(Presentation(o)))
  <1> DEFINE r == Issued(o)
             m == MATOn(o)
  <1>1. CASE MATIn(Presentation(o)) = <<>>
    BY <1>1 DEF SaysEvidence, NotFailed
  <1>2. CASE MATIn(Presentation(o)) = <<m>>
    <2>1. ASSUME r.evidence_refs # <<>>, r.decision # "deny", NEW cat \in ObligedCategories(m)
          PROVE  cat \in Referenced(r) /\ LastRefFresh(r, cat)
      <3>1. /\ r.evidence_refs = o.evidence /\ Len(o.evidence) \in Nat
            /\ \E i \in 1..Len(o.evidence) : o.evidence[i].category = cat
            /\ \A i \in 1..Len(o.evidence) :
                  o.evidence[i].category = cat => o.evidence[i].fresh
        BY <2>1, OccasionsAssumption, StatedOn DEF Decides, MayPermit, FreshOn, Recorded
      <3> QED
        BY <3>1, LastIsFresh DEF Referenced
    <2>2. EvidenceCovers(r, m) # "failed" /\ EvidenceFresh(r, m) # "failed"
      BY <2>1 DEF EvidenceCovers, EvidenceFresh, Judge, PassIf, Permitted
    <2> QED
      BY <1>2, <2>2, GivenOn DEF SaysEvidence, NotFailed, Check
  <1> QED
    BY <1>1, <1>2, ParsedOn

\* The budget, the constraint set and the validity of the MAT.
LEMMA BudgetOn ==
    ASSUME NEW o \in Occasions
    PROVE  NotFailed(SaysBudget(Presentation(o)))
  <1> DEFINE r == Issued(o)
             m == MATOn(o)
  <1>1. CASE MATIn(Presentation(o)) = <<>>
    BY <1>1 DEF SaysBudget, NotFailed
  <1>2. CASE MATIn(Presentation(o)) = <<m>>
    <2>1. AuthorizedTiming(r, m) # "failed"
      <3>1. CASE LatencyBudgets(m) = {}
        BY <3>1 DEF AuthorizedTiming, Judge
      <3>2. CASE LatencyBudgets(m) # {}
        <4> DEFINE b == authorizedLatencyBound(m)
        <4>1. /\ b \in Nat /\ b # 0 /\ Elapsed(o) <= b
              /\ r.max_ms = b /\ r.elapsed_ms = Elapsed(o)
          BY <3>2, WithinBudget, StatedToo
        <4>2. b <= b
          BY <4>1
        <4> HIDE DEF b, r, m
        <4> QED
          BY <4>1, <4>2 DEF AuthorizedTiming, Judge, PassIf, b
      <3> QED
        BY <3>1, <3>2
    <2>2. PolicyDigest(r, m) # "failed"
      BY StatedOn DEF PolicyDigest, Judge, PassIf
    <2>3. withinWindow(r.start, m.not_before, m.not_after) # "failed"
      <3>1. Opens(o, m.not_before, m.not_after)
        BY OccasionsAssumption DEF Granted
      <3> QED
        BY <3>1, StampOpens DEF withinWindow, Judge, PassIf
    <2>4. SaysBudget(Presentation(o)) =
             {Check("timing_within_authorized_bound", AuthorizedTiming(r, m)),
              Check("policy_digest", PolicyDigest(r, m)),
              Check("evaluation_within_validity",
                    withinWindow(r.start, m.not_before, m.not_after))}
      BY <1>2, GivenOn DEF SaysBudget
    <2> QED
      BY <2>1, <2>2, <2>3, <2>4 DEF NotFailed, Check
  <1> QED
    BY <1>1, <1>2, ParsedOn

\* The context, and the part of the resource state it read, are reproduced.
LEMMA ContextOn ==
    ASSUME NEW o \in Occasions
    PROVE  NotFailed(SaysContext(Presentation(o)))
  <1> DEFINE r == Issued(o)
             x == Presentation(o)
  <1>1. CASE x.context = <<>>
    BY <1>1 DEF SaysContext, NotFailed
  <1>2. CASE x.context = <<o.context>>
    <2>1. PassIf(r.context_digest = Digest(o.context)) = "passed"
      BY StatedOn DEF PassIf
    <2>2. ResourceStateDigest(r, o.context) # "failed"
      BY StatedToo DEF ResourceStateDigest, Judge, PassIf
    <2>3. SaysContext(x) = {Check("context_digest",
                                  PassIf(r.context_digest = Digest(o.context))),
                            Check("resource_state_digest", ResourceStateDigest(r, o.context))}
      BY <1>2, GivenOn DEF SaysContext
    <2> QED
      BY <2>1, <2>2, <2>3 DEF NotFailed, Check
  <1> QED
    BY <1>1, <1>2, GivenOn

\* The outcomes it discloses are the true ones, and it permits on no others.
LEMMA OutcomesOn ==
    ASSUME NEW o \in Occasions
    PROVE  NotFailed(SaysOutcomes(Presentation(o)))
  <1> DEFINE r == Issued(o)
             x == Presentation(o)
             m == MATOn(o)
             ctx == o.context
             cs == m.constraints
  <1>1. CASE x.context = <<>> \/ MATIn(x) = <<>>
    BY <1>1 DEF SaysOutcomes, NotFailed
  <1>2. CASE x.context = <<ctx>> /\ MATIn(x) = <<m>>
    <2>1. Len(cs) \in Nat /\ validateConstraintIDs(cs)
      BY OccasionsAssumption DEF Granted, TypedMAT, MATParses, ValidateStructure, MATOn
    <2>2. ASSUME NEW p \in r.constraint_outcomes
          PROVE  HasId(cs, p.id) /\ p.satisfied = ConstraintHolds(m, p.id, ctx)
      <3>1. p \in TrueOutcomes(m, ctx)
        BY <2>2, StatedOn
      <3>2. PICK j \in 1..Len(cs) : p = [id |-> cs[j].id, satisfied |-> Evaluate(cs[j], ctx)]
        BY <3>1 DEF TrueOutcomes
      <3>3. HasId(cs, cs[j].id) /\ ById(cs, cs[j].id) = cs[j]
        BY <2>1, TheOneWithId
      <3>4. p.id = cs[j].id /\ p.satisfied = Evaluate(cs[j], ctx)
        BY <3>2
      <3> QED
        BY <3>3, <3>4 DEF ConstraintHolds
    <2>3. recomputeOutcomes(m, ctx, r) # "failed"
      BY <2>2 DEF recomputeOutcomes
    <2>4. decisionConsistent(m, ctx, r)
      <3>1. /\ o.decision \in Decisions
            /\ (o.decision = "permit_with_controls") <=> (o.controls # {})
            /\ o.decision = "permit" => AllHold(m, ctx)
        BY OccasionsAssumption DEF Decides
      <3>2. ASSUME AllHold(m, ctx), NEW i \in 1..Len(cs) PROVE Evaluate(cs[i], ctx)
        <4> SUFFICES ASSUME ~Evaluate(cs[i], ctx) PROVE FALSE
          OBVIOUS
        <4> DEFINE p == [id |-> cs[i].id, satisfied |-> Evaluate(cs[i], ctx)]
        <4>1. p \in TrueOutcomes(m, ctx)
          BY DEF TrueOutcomes
        <4>2. p.satisfied = FALSE
          OBVIOUS
        <4> HIDE DEF p
        <4> QED
          BY <3>2, <4>1, <4>2 DEF AllHold
      <3>3. r.decision = o.decision /\ r.controls = o.controls
        BY StatedOn
      <3> QED
        BY <3>1, <3>2, <3>3 DEF decisionConsistent, Decisions
    <2>5. SaysOutcomes(x) = {Check("constraint_outcomes", recomputeOutcomes(m, ctx, r)),
                             Check("decision_consistent",
                                   PassIf(decisionConsistent(m, ctx, r)))}
      BY <1>2, GivenOn DEF SaysOutcomes
    <2>6. PassIf(decisionConsistent(m, ctx, r)) = "passed"
      BY <2>4 DEF PassIf
    <2> QED
      BY <2>3, <2>5, <2>6 DEF NotFailed, Check
  <1> QED
    BY <1>1, <1>2, ParsedOn, GivenOn

\* The receipt it confirms, the one before it, and the commitment's signature.
LEMMA OthersOn ==
    ASSUME NEW o \in Occasions
    PROVE  /\ NotFailed(SaysConfirmation(Presentation(o)))
           /\ NotFailed(SaysChain(Presentation(o)))
           /\ NotFailed(SaysCommitment(Presentation(o)))
  <1> DEFINE r == Issued(o)
             x == Presentation(o)
  <1>1. ConfirmationLink(r, x.confirmed) # "failed"
    <2>1. CASE x.confirmed = <<>>
      BY <2>1 DEF ConfirmationLink, Judge
    <2>2. CASE x.confirmed = o.confirmed /\ o.confirmed # <<>>
      <3>1. r.confirms = Digest(o.confirmed[1]) /\ r.speculative = FALSE
        BY <2>2, StatedToo
      <3>2. r.confirms # <<>>
        BY <3>1 DEF Digest
      <3>3. o.confirmed[1].speculative
        BY <2>2, OccasionsAssumption DEF Recorded
      <3> QED
        BY <2>2, <3>1, <3>2, <3>3 DEF ConfirmationLink, Judge, PassIf
    <2> QED
      BY <2>1, <2>2, GivenOn
  <1>2. NotFailed(SaysConfirmation(x))
    BY <1>1, OneHolds, GivenOn DEF SaysConfirmation
  <1>3. NotFailed(SaysChain(x))
    <2>1. CASE x.prior = <<>>
      BY <2>1 DEF SaysChain, NotFailed
    <2>2. CASE x.prior = o.prior /\ o.prior # <<>>
      <3>1. ChainLink(r, x.prior[1])
        BY <2>2, StatedToo DEF ChainLink
      <3>2. SaysChain(x) = {Check("chain_link", PassIf(ChainLink(r, x.prior[1])))}
        BY <2>2, GivenOn DEF SaysChain
      <3> QED
        BY <3>1, <3>2, PassHolds
    <2> QED
      BY <2>1, <2>2, GivenOn
  <1>4. NotFailed(SaysCommitment(x))
    <2>1. CASE x.commitment = <<>>
      BY <2>1 DEF SaysCommitment, NotFailed
    <2>2. CASE x.commitment # <<>>
      <3>1. CommitmentParses(x.commitment[1], Anchors)
        BY <2>2, ParsedOn
      <3>2. SaysCommitment(x) =
               {Check("commitment_signature", PassIf(CommitmentParses(x.commitment[1], Anchors)))}
        BY <2>2 DEF SaysCommitment
      <3> QED
        BY <3>1, <3>2, PassHolds
    <2> QED
      BY <2>1, <2>2
  <1> QED
    BY <1>2, <1>3, <1>4

\* The verifier has the commitment of the occasion in hand.
Holds(o) == ComIn(Presentation(o)) # <<>>

\* The commitment is bound to the MAT and inside its scope, as far as there is one.
LEMMA AuthorityOn ==
    ASSUME NEW o \in Occasions, Holds(o)
    PROVE  NotFailed(SaysAuthority(Presentation(o)))
  <1> DEFINE r == Issued(o)
             x == Presentation(o)
             m == MATOn(o)
             k == ComOn(o)
  <1>1. o.commitment # <<>> /\ ComIn(x) = <<k>>
    BY ParsedOn DEF Holds
  <1>2. VerifyBinding(k, m)
    BY <1>1, OccasionsAssumption DEF Committed
  <1>3. CommitmentScope(r, k, m)
    BY <1>1, OccasionsAssumption, StatedOn DEF Decides, MayPermit, CommitmentScope, Permitted
  <1>4. ASSUME MATIn(x) # <<>> PROVE MATIn(x)[1] = m
    BY <1>4, ParsedOn
  <1>5. Judge(MATIn(x) # <<>>, VerifyBinding(ComIn(x)[1], MATIn(x)[1])) # "failed"
    BY <1>1, <1>2, <1>4 DEF Judge, PassIf
  <1>6. Judge(MATIn(x) # <<>>, CommitmentScope(r, ComIn(x)[1], MATIn(x)[1])) # "failed"
    BY <1>1, <1>3, <1>4 DEF Judge, PassIf
  <1> QED
    BY <1>5, <1>6, GivenOn DEF SaysAuthority, NotFailed, Check

\* What the receipt claims of the commitment is so.
LEMMA ClaimsOn ==
    ASSUME NEW o \in Occasions, Holds(o)
    PROVE  /\ NotFailed(SaysCompliance(Presentation(o)))
           /\ NotFailed(SaysProvenance(Presentation(o)))
           /\ NotFailed(SaysDigest(Presentation(o)))
  <1> DEFINE r == Issued(o)
             x == Presentation(o)
             m == MATOn(o)
             k == ComOn(o)
  <1>1. o.commitment # <<>> /\ ComIn(x) = <<k>> /\ ComIn(x)[1] = k
    BY ParsedOn DEF Holds
  <1>2. x.receipt.payload = r
    BY GivenOn
  <1>3. ASSUME MATIn(x) # <<>> PROVE MATIn(x)[1] = m
    BY <1>3, ParsedOn
  <1>4. NotFailed(SaysCompliance(x))
    <2>1. CASE r.compliance = <<>>
      BY <1>2, <2>1 DEF SaysCompliance, NotFailed
    <2>2. CASE r.compliance = <<Claim(o)>>
      <3> DEFINE ac == Claim(o)
      <3>1. r.compliance # <<>> /\ r.compliance[1] = ac
        BY <2>2
      <3>2. ac.commitment_check = DeclaresAction(k, ac.action)
        BY DEF Claim
      <3>3. ac.scope_check = CoversOperation(m, ac.action, <<>>)
        BY DEF Claim
      <3>4. ac.boundary_check = (ac.action \notin m.boundary.exclusions)
        BY DEF Claim
      <3> HIDE DEF ac
      <3>5. PassIf(ac.commitment_check = DeclaresAction(ComIn(x)[1], ac.action)) # "failed"
        BY <1>1, <3>2 DEF PassIf
      <3>6. Judge(MATIn(x) # <<>>,
                  ac.scope_check = CoversOperation(MATIn(x)[1], ac.action, <<>>)) # "failed"
        BY <1>3, <3>3 DEF Judge, PassIf
      <3>7. Judge(MATIn(x) # <<>>,
                  ac.boundary_check = (ac.action \notin MATIn(x)[1].boundary.exclusions))
            # "failed"
        BY <1>3, <3>4 DEF Judge, PassIf
      <3> QED
        BY <1>2, <3>1, <3>5, <3>6, <3>7 DEF SaysCompliance, NotFailed, Check
    <2> QED
      BY <1>1, <2>1, <2>2, StatedToo DEF OnCommitted
  <1>5. NotFailed(SaysProvenance(x))
    <2>1. r.provenance \in {<<>>, k.provenance}
      BY <1>1, StatedToo DEF OnCommitted
    <2> QED
      BY <1>1, <1>2, <2>1 DEF SaysProvenance, NotFailed, Check, PassIf
  <1>6. NotFailed(SaysDigest(x))
    <2>1. r.commitment_digest \in {<<>>, Digest(k)}
      BY <1>1, StatedToo DEF OnCommitted
    <2> QED
      BY <1>1, <1>2, <2>1 DEF SaysDigest, NotFailed, Check, PassIf
  <1> QED
    BY <1>4, <1>5, <1>6

\* The evaluation starts in the commitment's validity and action window.
LEMMA WindowsOn ==
    ASSUME NEW o \in Occasions, Holds(o)
    PROVE  NotFailed(SaysWindows(Presentation(o)))
  <1> DEFINE r == Issued(o)
             x == Presentation(o)
             k == ComOn(o)
  <1>1. o.commitment # <<>> /\ ComIn(x)[1] = k
    BY ParsedOn DEF Holds
  <1>2. /\ k.not_before # Absent \/ k.not_after # Absent
        /\ Opens(o, k.not_before, k.not_after)
        /\ k.action_window # <<>> => Opens(o, k.action_window[1], k.action_window[2])
    BY <1>1, OccasionsAssumption DEF Committed
  <1>3. CommitmentTemporal(r, k) # "failed"
    <2>1. withinWindow(r.start, k.not_before, k.not_after) = "passed"
      BY <1>2, StampOpens DEF withinWindow, Judge, PassIf
    <2> QED
      BY <2>1 DEF CommitmentTemporal, PassIf
  <1>4. CommitmentActionWindow(r, k) # "failed"
    <2>1. CASE k.action_window = <<>>
      BY <2>1 DEF CommitmentActionWindow
    <2>2. CASE k.action_window # <<>>
      <3>1. withinWindow(r.start, k.action_window[1], k.action_window[2]) # "failed"
        BY <1>2, <2>2, StampOpens DEF withinWindow, Judge, PassIf
      <3> QED
        BY <2>2, <3>1 DEF CommitmentActionWindow
    <2> QED
      BY <2>1, <2>2
  <1> QED
    BY <1>1, <1>3, <1>4, GivenOn DEF SaysWindows, NotFailed, Check

\* The commitment names the machine the MAT names.
LEMMA IdentityOn ==
    ASSUME NEW o \in Occasions, Holds(o)
    PROVE  NotFailed(SaysIdentity(Presentation(o)))
  <1> DEFINE x == Presentation(o)
             k == ComOn(o)
             m == MATOn(o)
             agrees == IF MATIn(x) = <<>> THEN "not_performed"
                       ELSE identitiesAgree(k.agent_identity, MATIn(x)[1].machine_identity)
  <1>1. o.commitment # <<>> /\ ComIn(x)[1] = k
    BY ParsedOn DEF Holds
  <1>2. /\ identityUnset(k.agent_identity) \/ ValidateIdentity(k.agent_identity)
        /\ identityUnset(m.machine_identity) \/ k.agent_identity = m.machine_identity
    BY <1>1, OccasionsAssumption DEF Committed
  <1>3. AgentIdentityWellformed(k) # "failed"
    BY <1>2 DEF AgentIdentityWellformed, Judge, PassIf
  <1>4. identitiesAgree(k.agent_identity, m.machine_identity) # "failed"
    BY <1>2 DEF identitiesAgree, Judge, PassIf
  <1>5. agrees # "failed"
    BY <1>4, ParsedOn
  <1>6. SaysIdentity(x) = {Check("agent_identity_wellformed", AgentIdentityWellformed(k)),
                           Check("agent_identity_binding", agrees)}
    BY <1>1 DEF SaysIdentity
  <1> QED
    BY <1>3, <1>5, <1>6 DEF NotFailed, Check

\* No step says "failed" of what an occasion presents.
LEMMA NothingFails ==
    ASSUME NEW o \in Occasions
    PROVE  NotFailed(Answers(Presentation(o)))
  <1> DEFINE x == Presentation(o)
  <1>1. /\ ReceiptParses(x.receipt, Anchors) /\ NotFailed(SaysSignature(x))
        /\ NotFailed(SaysStructure(x))
        /\ NotFailed(SaysReplay(x)) /\ NotFailed(SaysFinal(x)) /\ NotFailed(SaysPoint(x))
        /\ NotFailed(SaysTiming(x)) /\ NotFailed(SaysMAT(x)) /\ NotFailed(SaysScope(x))
        /\ NotFailed(SaysEvidence(x)) /\ NotFailed(SaysBudget(x)) /\ NotFailed(SaysContext(x))
        /\ NotFailed(SaysOutcomes(x)) /\ NotFailed(SaysConfirmation(x))
        /\ NotFailed(SaysChain(x)) /\ NotFailed(SaysCommitment(x))
    BY SignatureOn, StructureOn, OwnOn, TimingOn, MATOnOccasion, ScopeOn, EvidenceOn, BudgetOn,
       ContextOn, OutcomesOn, OthersOn
  <1>2. ComIn(x) # <<>> =>
           /\ NotFailed(SaysAuthority(x)) /\ NotFailed(SaysCompliance(x))
           /\ NotFailed(SaysProvenance(x)) /\ NotFailed(SaysWindows(x))
           /\ NotFailed(SaysIdentity(x)) /\ NotFailed(SaysDigest(x))
    BY AuthorityOn, ClaimsOn, WindowsOn, IdentityOn DEF Holds
  <1> HIDE DEF x
  <1>3. NotFailed(ToAuthority(x))
    BY <1>1 DEF NotFailed, ToAuthority, ToCommitment, ToChain, ToConfirmation, ToOutcomes,
       ToContext, ToBudget, ToEvidence, ToScope, ToMAT, ToTiming, ToPoint, ToFinal, ToReplay
  <1>4. NotFailed(OfCommitment(x))
    BY <1>2 DEF NotFailed, OfCommitment
  <1>5. NotFailed(Said(x))
    BY <1>3, <1>4, UnionHolds DEF Said
  <1>6. NotFailed(Unsaid(x, Carried))
    BY DEF NotFailed, Unsaid, Check
  <1>7. Answers(x) = Said(x) \cup Unsaid(x, Carried)
    BY <1>1 DEF Answers
  <1>8. NotFailed(Answers(x))
    BY <1>5, <1>6, <1>7, UnionHolds
  <1> QED
    BY <1>8 DEF x

------------------------------------------------------------------------------

\* The call verifies the receipt of its occasion and answers from it.
HonestInv ==
    /\ IInv /\ Answering
    /\ occasion \in Occasions
    /\ in = Presentation(occasion)

\* No step changes what the call was given.
LEMMA GivenStays == [Next]_vars => UNCHANGED in
  BY DEF Next, ReceiptSignature, Structure, ReplayUnseen, ReceiptFinal, EnforcementPoint,
     SelfTiming, GoverningMAT, ScopeCheck, Evidence, AuthorizedBudget, Context, Outcomes,
     Confirmation, Chain, Commitment, Authority, Compliance, Provenance, Windows, Identity,
     CommitmentDigest, Inventory, Reconcile, Return, PlainStep, Step, vars

LEMMA HonestInvariance == HonestSpec => []HonestInv
  <1>1. HonestInit => HonestInv
    BY FreshInv, FreshTold DEF HonestInit, HonestInv
  <1>2. HonestInv /\ [HonestNext]_<<vars, occasion>> => HonestInv'
    <2> SUFFICES ASSUME HonestInv, [HonestNext]_<<vars, occasion>> PROVE HonestInv'
      OBVIOUS
    <2>1. [Next]_vars /\ UNCHANGED occasion
      BY DEF HonestNext
    <2>2. IInv' /\ Answering'
      BY <2>1, NextInv, NextTold DEF HonestInv
    <2>3. in' = in
      BY <2>1, GivenStays
    <2>4. Presentation(occasion)' = Presentation(occasion)
      BY <2>1
    <2> QED
      BY <2>1, <2>2, <2>3, <2>4 DEF HonestInv
  <1> QED
    BY <1>1, <1>2, PTL DEF HonestSpec

\* Whatever an honest enforcement point decided, however coarse its clock, whatever
\* it left undisclosed and whatever the caller lacks: its receipt is never refuted.
THEOREM HonestStands == HonestSpec => []HonestNeverRefuted
  <1>1. HonestInv => HonestNeverRefuted
    <2> SUFFICES ASSUME HonestInv, pc = "done" PROVE valid
      BY DEF HonestNeverRefuted
    <2>1. Members(checks) = Answers(Presentation(occasion))
      BY DEF HonestInv, Answering
    <2>2. NotFailed(Members(checks))
      BY <2>1, NothingFails DEF HonestInv
    <2>3. NoneFailed(checks)
      BY <2>2 DEF NotFailed, Members, NoneFailed
    <2>4. valid = NoneFailed(checks)
      BY DEF HonestInv, IInv, Tallied, Summarised
    <2> QED
      BY <2>3, <2>4
  <1> QED
    BY <1>1, HonestInvariance, PTL
=============================================================================
