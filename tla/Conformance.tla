----------------------------- MODULE Conformance -----------------------------
(***************************************************************************)
(* The conformance harness (conformance.go): the vectors of a manifest are *)
(* run one after the other (RunAll), then walked again to record the       *)
(* statuses each check was driven to (CheckCoverage) and the delegation    *)
(* faults that were reached (DerivationCoverage), as its test suite does.  *)
(*                                                                         *)
(* A vector is [kind, expect, mat, parent, mats, commitment, receipt,      *)
(* receipts, context, prior, confirmed, at, replay, expect_checks,         *)
(* expect_code, expect_digest]: files are named, "" when not, at is <<>>   *)
(* or a text, expect_checks maps check names to statuses. Disk says what a *)
(* file decodes to: <<>> when it is missing or not hex, else one envelope  *)
(* or one context. The verifier is seen through what it reports: Reported  *)
(* is the set of [name, status] it gives for an input.                     *)
(***************************************************************************)
EXTENDS Checks, Derivation

CONSTANTS Manifests,      \* the sequences of vectors a manifest may hold
          Disk,           \* the files embedded with it
          Anchors,        \* what BuildAnchors made of its anchors
          Reported(_)     \* the checks Verify reports for an input

VARIABLES manifest,   \* the argument
          walk,       \* "run", "coverage" or "derivations", then "done"
          n,          \* the vector at hand
          results,    \* RunAll: whether each vector passed
          drove,      \* CheckCoverage: the pairs <<check, status>> observed
          reached,    \* DerivationCoverage: the faults observed
          errors      \* the walks that ended in an error

vars == <<manifest, walk, n, results, drove, reached, errors>>

v == manifest[n]

NoFile == ""

Loads(file) == Disk[file] # <<>>
File(file) == Disk[file][1]

\* <<x>>, or <<>> for nothing.
OptionalFile(file) == IF file = NoFile THEN <<>> ELSE <<File(file)>>
OptionalPayload(file) == IF file = NoFile THEN <<>> ELSE <<File(file).payload>>

NamedFiles(x, fields) == {x[f] : f \in fields} \ {NoFile}

------------------------------------------------------------------------------
(* Receipt vectors.                                                         *)

UnverifiedReceipt(file) ==
    Loads(file) /\ File(file).decodes /\ Unmarshals(File(file), "receipt")

VerifiedReceipt(file) == Loads(file) /\ ReceiptParses(File(file), Anchors)

\* buildVerifyInput returns no error: what is named is there, other receipts verify.
InputBuilds(x) ==
    /\ x.replay \in {"", "fresh", "seen"}
    /\ \A f \in {x.receipt} \cup NamedFiles(x, {"mat", "commitment", "context"}) : Loads(f)
    /\ x.replay = "seen" => UnverifiedReceipt(x.receipt)
    /\ \A f \in NamedFiles(x, {"prior", "confirmed"}) : VerifiedReceipt(f)

Replay(x) ==
    CASE x.replay = ""      -> <<>>
      [] x.replay = "fresh" -> <<{}>>
      [] x.replay = "seen"  -> <<{Digest(File(x.receipt).payload)}>>

buildVerifyInput(x) ==
    [receipt |-> File(x.receipt), mat |-> OptionalFile(x.mat),
     context |-> OptionalFile(x.context), prior |-> OptionalPayload(x.prior),
     confirmed |-> OptionalPayload(x.confirmed),
     commitment |-> OptionalFile(x.commitment), replay |-> Replay(x)]

Valid(checks) == \A c \in checks : c.status # "failed"

\* No file has no name, a manifest is a list, and the verifier answers in statuses.
ASSUME ConformanceAssumption ==
    /\ Disk[NoFile] = <<>>
    /\ \A s \in Manifests :
          /\ Len(s) \in Nat
          /\ \A k \in 1..Len(s) :
                InputBuilds(s[k]) =>
                    \A c \in Reported(buildVerifyInput(s[k])) : c.status \in Statuses

hasCode(rc, code) ==
    \/ code \in rc.rationale_codes
    \/ rc.compliance # <<>> /\ rc.compliance[1].code = code

NoCode == ""

\* Mutant of receiptVerifies: a second assembly of the input, without the record.
receiptVerifiesForgetful(x, wantValid) ==
    /\ InputBuilds(x)
    /\ LET checks == Reported([buildVerifyInput(x) EXCEPT !.replay = <<>>]) IN
       /\ Valid(checks) = wantValid
       /\ \A name \in DOMAIN x.expect_checks :
             [name |-> name, status |-> x.expect_checks[name]] \in checks
    /\ x.expect_code # NoCode =>
          VerifiedReceipt(x.receipt) /\ hasCode(File(x.receipt).payload, x.expect_code)

receiptVerifies(x, wantValid) ==
    /\ InputBuilds(x)
    /\ LET checks == Reported(buildVerifyInput(x)) IN
       /\ Valid(checks) = wantValid
       /\ \A name \in DOMAIN x.expect_checks :
             [name |-> name, status |-> x.expect_checks[name]] \in checks
    /\ x.expect_code # NoCode =>
          VerifiedReceipt(x.receipt) /\ hasCode(File(x.receipt).payload, x.expect_code)

------------------------------------------------------------------------------
(* The other kinds: whether the SDK raises no error.                        *)

VerifiedMAT(file) == Loads(file) /\ MATParses(File(file), Anchors)

matAccepts(x) ==
    /\ VerifiedMAT(x.mat)
    /\ x.at # <<>> => IsInstant(x.at[1]) /\ ValidateAt(File(x.mat).payload, Instant(x.at[1]))

\* The MATs of a delegation vector, in the order they are loaded and verified.
Line(x) == IF x.kind = "delegation" THEN <<x.parent, x.mat>> ELSE x.mats

LineVerifies(x) == \A i \in 1..Len(Line(x)) : VerifiedMAT(Line(x)[i])

\* The fault paths of the rules the line breaks; Unnamed for an error without one.
LineFaults(x) ==
    LET mats == [i \in 1..Len(Line(x)) |-> File(Line(x)[i]).payload] IN
    IF Line(x) = <<>> \/ ~LineVerifies(x) THEN {Unnamed}
    ELSE IF x.kind = "delegation" THEN ValidateDerivation(mats[1], mats[2])
    ELSE ChainFaults(mats)

commitmentBinds(x) ==
    /\ Loads(x.commitment) /\ Loads(x.mat)
    /\ CommitmentParses(File(x.commitment), Anchors) /\ MATParses(File(x.mat), Anchors)
    /\ VerifyBinding(File(x.commitment).payload, File(x.mat).payload)

\* Only what DerivationPath says of sequences of receipts is used of it.
Provenance == INSTANCE DerivationPath WITH receipts <- <<>>, verdict <- "", path <- <<>>

provenanceReconstructs(x) ==
    /\ \A i \in 1..Len(x.receipts) : VerifiedReceipt(x.receipts[i])
    /\ LET rs == [i \in 1..Len(x.receipts) |-> File(x.receipts[i]).payload]
       IN  \E p \in Provenance!Paths(rs) : Provenance!SinglePath(rs, p)

canonMatches(x) == Loads(x.context) /\ Digest(File(x.context)) = x.expect_digest

Accepts(x) ==
    CASE x.kind = "mat" -> matAccepts(x)
      [] x.kind \in {"delegation", "delegation_chain"} -> LineFaults(x) = {}
      [] x.kind = "commitment_binding" -> commitmentBinds(x)
      [] x.kind = "provenance" -> provenanceReconstructs(x)

ExpectKinds == {"mat", "delegation", "delegation_chain", "commitment_binding", "provenance"}

\* Every expectation other than "valid" is read as "invalid"; an error is a rejection.
dispatch(x) ==
    \/ x.kind \in ExpectKinds /\ Accepts(x) = (x.expect = "valid")
    \/ x.kind = "receipt" /\ receiptVerifies(x, x.expect = "valid")
    \/ x.kind = "canon" /\ canonMatches(x)

------------------------------------------------------------------------------
(* The three walks.                                                         *)

Init ==
    /\ manifest \in Manifests /\ walk = "run" /\ n = 1
    /\ results = <<>> /\ drove = {} /\ reached = {} /\ errors = {}

Walks == <<"run", "coverage", "derivations", "done">>

\* To the next vector.
Onwards == n' = n + 1 /\ UNCHANGED <<walk, errors>>

\* To the next walk, after the last vector or at an error.
Leave ==
    /\ n' = 1
    /\ walk' = CHOOSE w \in {Walks[i + 1] : i \in {j \in 1..3 : Walks[j] = walk}} : TRUE

\* Mutant of RunVector: what does not pass is not listed.
RunVectorQuietly ==
    /\ walk = "run" /\ n <= Len(manifest)
    /\ results' = IF dispatch(v) THEN Append(results, TRUE) ELSE results
    /\ Onwards /\ UNCHANGED <<manifest, drove, reached>>

\* RunAll.
RunVector ==
    /\ walk = "run" /\ n <= Len(manifest)
    /\ results' = Append(results, dispatch(v))
    /\ Onwards /\ UNCHANGED <<manifest, drove, reached>>

\* CheckCoverage: receipt vectors only; an input that does not build is an error.
Cover ==
    /\ walk = "coverage" /\ n <= Len(manifest)
    /\ IF v.kind # "receipt" \/ v.receipt = NoFile THEN Onwards /\ UNCHANGED drove
       ELSE IF ~InputBuilds(v)
       THEN Leave /\ errors' = errors \cup {"coverage"} /\ UNCHANGED drove
       ELSE /\ drove' = drove \cup {<<c.name, c.status>> : c \in Reported(buildVerifyInput(v))}
            /\ Onwards
    /\ UNCHANGED <<manifest, results, reached>>

\* Mutant of CoverDerivation: a rejection without a fault path is passed over.
CoverDerivationUnnamed ==
    /\ walk = "derivations" /\ n <= Len(manifest)
    /\ IF v.expect # "invalid" \/ v.kind \notin {"delegation", "delegation_chain"}
       THEN Onwards /\ UNCHANGED reached
       ELSE IF LineFaults(v) = {}
       THEN Leave /\ errors' = errors \cup {"derivations"} /\ UNCHANGED reached
       ELSE /\ \E fault \in LineFaults(v) : reached' = reached \cup ({fault} \ {Unnamed})
            /\ Onwards
    /\ UNCHANGED <<manifest, results, drove>>

\* Mutant of CoverDerivation: any rejection counts as one by a rule.
CoverDerivationAny ==
    /\ walk = "derivations" /\ n <= Len(manifest)
    /\ IF v.expect # "invalid" \/ v.kind \notin {"delegation", "delegation_chain"}
       THEN Onwards /\ UNCHANGED reached
       ELSE \/ /\ LineFaults(v) = {}
               /\ Leave /\ errors' = errors \cup {"derivations"} /\ UNCHANGED reached
            \/ /\ \E fault \in LineFaults(v) : reached' = reached \cup {fault}
               /\ Onwards
    /\ UNCHANGED <<manifest, results, drove>>

\* DerivationCoverage: of the delegation vectors that expect "invalid", one that is
\* accepted or whose rejection names no fault path is an error.
CoverDerivation ==
    /\ walk = "derivations" /\ n <= Len(manifest)
    /\ IF v.expect # "invalid" \/ v.kind \notin {"delegation", "delegation_chain"}
       THEN Onwards /\ UNCHANGED reached
       ELSE \/ /\ LineFaults(v) \in {{}, {Unnamed}}
               /\ Leave /\ errors' = errors \cup {"derivations"} /\ UNCHANGED reached
            \/ /\ \E fault \in LineFaults(v) \ {Unnamed} : reached' = reached \cup {fault}
               /\ Onwards
    /\ UNCHANGED <<manifest, results, drove>>

EndOfWalk ==
    /\ walk # "done" /\ n > Len(manifest)
    /\ Leave
    /\ UNCHANGED <<manifest, results, drove, reached, errors>>

Next == RunVector \/ Cover \/ CoverDerivation \/ EndOfWalk

Spec == Init /\ [][Next]_vars

------------------------------------------------------------------------------
(* What must hold.                                                          *)

\* Type invariant.
TypeOK ==
    /\ walk \in {Walks[i] : i \in 1..4}
    /\ n \in 1..(Len(manifest) + 1)
    /\ results \in Seq(BOOLEAN)
    /\ Len(results) = (IF walk = "run" THEN n - 1 ELSE Len(manifest))
    /\ \A d \in drove : d[2] \in Statuses
    /\ errors \subseteq {"coverage", "derivations"}

Passed(k) == walk = "done" /\ results[k]

\* The two walks over a receipt vector assemble one input: what a vector that passes
\* pins of the verifier's answers, the coverage has seen (conformance.go:480-485).
PinnedIsCovered ==
    "coverage" \notin errors =>
        \A k \in 1..Len(manifest) :
            (Passed(k) /\ manifest[k].kind = "receipt") =>
                \A name \in DOMAIN manifest[k].expect_checks :
                    <<name, manifest[k].expect_checks[name]>> \in drove

FilesOf(x) ==
    CASE x.kind = "receipt" ->
            {x.receipt} \cup NamedFiles(x, {"mat", "commitment", "context", "prior", "confirmed"})
      [] x.kind = "canon" -> {x.context}
      [] x.kind = "mat" -> {x.mat}
      [] x.kind \in {"delegation", "delegation_chain"} -> {Line(x)[i] : i \in 1..Len(Line(x))}
      [] x.kind = "commitment_binding" -> {x.commitment, x.mat}
      [] x.kind = "provenance" -> {x.receipts[i] : i \in 1..Len(x.receipts)}

\* The SDK was given what the vector names.
Given(x) ==
    /\ \A f \in FilesOf(x) : Loads(f)
    /\ x.kind = "delegation_chain" => x.mats # <<>>
    /\ x.kind = "mat" /\ x.at # <<>> => IsInstant(x.at[1])

\* A clean suite rests on artifacts: a vector that passes was run on the files it
\* names, unless it expects a rejection and is of a kind no coverage walk visits,
\* or states an expectation that is neither "valid" nor "invalid"
\* (conformance.go:653-676).
PassesRestOnArtifacts ==
    errors = {} =>
        \A k \in 1..Len(manifest) :
            Passed(k) =>
                \/ Given(manifest[k])
                \/ manifest[k].expect \notin {"valid", "invalid"}
                \/ /\ manifest[k].expect = "invalid"
                   /\ manifest[k].kind \in {"mat", "commitment_binding", "provenance"}

\* The faults counted as reached are those of rules that artifacts of the manifest
\* break, one for each vector that expects a rejection (conformance.go:649-674).
ReachedByArtifacts ==
    /\ Unnamed \notin reached
    /\ \A fault \in reached :
          \E k \in 1..Len(manifest) : Given(manifest[k]) /\ fault \in LineFaults(manifest[k])
    /\ (walk = "done" /\ "derivations" \notin errors) =>
          \A k \in 1..Len(manifest) :
              (manifest[k].expect = "invalid" /\ manifest[k].kind \in {"delegation", "delegation_chain"})
                  => LineFaults(manifest[k]) \cap reached # {}
=============================================================================
