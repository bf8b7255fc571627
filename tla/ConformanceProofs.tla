------------------------- MODULE ConformanceProofs -------------------------
(***************************************************************************)
(* What a clean run of the conformance suite is worth, for every manifest, *)
(* every disk and every verifier: what its vectors pin was observed by the *)
(* coverage walk, what passes was run on the artifacts it names, and every *)
(* fault counted as reached is one its artifacts have.                     *)
(*                                                                         *)
(* The three walks meet in nothing but the manifest. The invariant says of *)
(* each what it has established of the vectors behind it, and that a later *)
(* walk leaves it as it was.                                               *)
(***************************************************************************)
EXTENDS Conformance, TLAPS

\* How far each walk has come: the vectors behind it.
Behind(w, earlier) == IF walk \in earlier THEN 0 ELSE IF walk = w THEN n - 1 ELSE Len(manifest)

Ran == Behind("run", {})
Covered == Behind("coverage", {"run"})
Derived == Behind("derivations", {"run", "coverage"})

Delegates(x) == x.kind \in {"delegation", "delegation_chain"}

\* Of a receipt vector, all that the verifier reports is in the record d.
Observed(x, d) ==
    (x.kind = "receipt" /\ x.receipt # NoFile) =>
        \A c \in Reported(buildVerifyInput(x)) : <<c.name, c.status>> \in d

\* Of a rejected delegation, a fault is in the record r.
Counted(x, r) == (x.expect = "invalid" /\ Delegates(x)) => LineFaults(x) \cap r # {}

\* The fault is one of a line of MATs of the manifest s.
FaultIn(s, fault) ==
    \E k \in 1..Len(s) : Delegates(s[k]) /\ fault \in LineFaults(s[k])

RunInv == \A k \in 1..Ran : results[k] = dispatch(manifest[k])
CoverageInv == "coverage" \notin errors => \A k \in 1..Covered : Observed(manifest[k], drove)
DerivationInv ==
    "derivations" \notin errors => \A k \in 1..Derived : Counted(manifest[k], reached)
FaultsInv == \A fault \in reached : fault # Unnamed /\ FaultIn(manifest, fault)

IInv ==
    /\ manifest \in Manifests
    /\ TypeOK
    /\ RunInv /\ CoverageInv /\ DerivationInv /\ FaultsInv

------------------------------------------------------------------------------
(* The walks in their order.                                                *)

LEMMA WalkNames == {Walks[i] : i \in 1..4} = {"run", "coverage", "derivations", "done"}
  <1>1. 1..4 = {1, 2, 3, 4}
    OBVIOUS
  <1> QED
    BY <1>1 DEF Walks

LEMMA Leaving ==
    ASSUME Leave
    PROVE  /\ n' = 1
           /\ walk = "run" => walk' = "coverage"
           /\ walk = "coverage" => walk' = "derivations"
           /\ walk = "derivations" => walk' = "done"
  <1> DEFINE nexts == {Walks[i + 1] : i \in {j \in 1..3 : Walks[j] = walk}}
  <1>1. n' = 1 /\ walk' = CHOOSE w \in nexts : TRUE
    BY DEF Leave
  <1>2. 1..3 = {1, 2, 3}
    OBVIOUS
  <1>3. /\ walk = "run" => nexts = {"coverage"}
        /\ walk = "coverage" => nexts = {"derivations"}
        /\ walk = "derivations" => nexts = {"done"}
    BY <1>2 DEF Walks
  <1> HIDE DEF nexts
  <1> QED
    BY <1>1, <1>3

\* What a manifest is.
LEMMA ManifestTyped ==
    ASSUME NEW s \in Manifests
    PROVE  /\ Len(s) \in Nat
           /\ \A k \in 1..Len(s) :
                 InputBuilds(s[k]) =>
                     \A c \in Reported(buildVerifyInput(s[k])) : c.status \in Statuses
  BY ConformanceAssumption, Zenon

------------------------------------------------------------------------------
(* Artifacts.                                                               *)

\* A fault with a path is one of a line of MATs that all verify.
LEMMA FaultsOfGiven ==
    ASSUME NEW x, Delegates(x), NEW fault \in LineFaults(x), fault # Unnamed
    PROVE  Given(x)
  <1>1. Line(x) # <<>> /\ LineVerifies(x)
    BY DEF LineFaults
  <1>2. \A f \in {Line(x)[i] : i \in 1..Len(Line(x))} : Loads(f)
    BY <1>1 DEF LineVerifies, VerifiedMAT
  <1>3. FilesOf(x) = {Line(x)[i] : i \in 1..Len(Line(x))}
    BY DEF FilesOf, Delegates
  <1>4. x.kind = "delegation_chain" => x.mats # <<>>
    BY <1>1 DEF Line
  <1> QED
    BY <1>2, <1>3, <1>4 DEF Given, Delegates

\* So is a line without a fault.
LEMMA FaultlessGiven ==
    ASSUME NEW x, Delegates(x), LineFaults(x) = {}
    PROVE  Given(x)
  <1>1. Line(x) # <<>> /\ LineVerifies(x)
    BY DEF LineFaults
  <1>2. \A f \in {Line(x)[i] : i \in 1..Len(Line(x))} : Loads(f)
    BY <1>1 DEF LineVerifies, VerifiedMAT
  <1>3. FilesOf(x) = {Line(x)[i] : i \in 1..Len(Line(x))}
    BY DEF FilesOf, Delegates
  <1>4. x.kind = "delegation_chain" => x.mats # <<>>
    BY <1>1 DEF Line
  <1> QED
    BY <1>2, <1>3, <1>4 DEF Given, Delegates

\* What a receipt vector that passes was given: its receipt and all it names.
LEMMA BuiltGiven ==
    ASSUME NEW x, x.kind = "receipt", InputBuilds(x)
    PROVE  Given(x) /\ x.receipt # NoFile
  <1>1. \A f \in {x.receipt} \cup NamedFiles(x, {"mat", "commitment", "context"}) : Loads(f)
    BY DEF InputBuilds
  <1>2. \A f \in NamedFiles(x, {"prior", "confirmed"}) : Loads(f)
    BY DEF InputBuilds, VerifiedReceipt
  <1>3. FilesOf(x) = {x.receipt} \cup NamedFiles(x, {"mat", "commitment", "context"})
                        \cup NamedFiles(x, {"prior", "confirmed"})
    BY DEF FilesOf, NamedFiles
  <1>4. ~Loads(NoFile)
    BY ConformanceAssumption, Zenon DEF Loads
  <1> QED
    BY <1>1, <1>2, <1>3, <1>4 DEF Given

\* What every other kind of vector that is accepted was given.
LEMMA AcceptedGiven ==
    ASSUME NEW x, x.kind \in ExpectKinds, Accepts(x)
    PROVE  Given(x)
  <1>1. CASE Delegates(x)
    <2>1. x.kind # "mat" /\ x.kind # "commitment_binding" /\ x.kind # "provenance"
      BY <1>1 DEF Delegates
    <2>2. LineFaults(x) = {}
      BY <1>1, <2>1 DEF Accepts, Delegates
    <2> QED
      BY <1>1, <2>2, FaultlessGiven
  <1>2. CASE x.kind = "mat"
    BY <1>2 DEF Accepts, matAccepts, VerifiedMAT, Given, FilesOf
  <1>3. CASE x.kind = "commitment_binding"
    BY <1>3 DEF Accepts, commitmentBinds, Given, FilesOf
  <1>4. CASE x.kind = "provenance"
    <2>1. \A i \in 1..Len(x.receipts) : Loads(x.receipts[i])
      BY <1>4 DEF Accepts, provenanceReconstructs, VerifiedReceipt
    <2> QED
      BY <1>4, <2>1 DEF Given, FilesOf
  <1> QED
    BY <1>1, <1>2, <1>3, <1>4 DEF ExpectKinds, Delegates

------------------------------------------------------------------------------
(* One step each.                                                           *)

LEMMA InitInv == Init => IInv
  <1> SUFFICES ASSUME Init PROVE IInv
    OBVIOUS
  <1>1. /\ manifest \in Manifests /\ walk = "run" /\ n = 1
        /\ results = <<>> /\ drove = {} /\ reached = {} /\ errors = {}
    BY DEF Init
  <1>2. Len(manifest) \in Nat
    BY <1>1, ManifestTyped
  <1>3. TypeOK
    <2>1. walk \in {Walks[i] : i \in 1..4}
      BY <1>1, WalkNames
    <2> QED
      BY <1>1, <1>2, <2>1 DEF TypeOK
  <1>4. Ran = 0 /\ Covered = 0 /\ Derived = 0
    BY <1>1 DEF Ran, Covered, Derived, Behind
  <1> QED
    BY <1>1, <1>3, <1>4 DEF IInv, RunInv, CoverageInv, DerivationInv, FaultsInv

\* What the step lemmas use of the state before.
LEMMA Unfolded ==
    ASSUME IInv
    PROVE  /\ manifest \in Manifests /\ Len(manifest) \in Nat
           /\ walk \in {"run", "coverage", "derivations", "done"}
           /\ n \in 1..(Len(manifest) + 1)
           /\ results \in Seq(BOOLEAN)
           /\ Len(results) = (IF walk = "run" THEN n - 1 ELSE Len(manifest))
  BY ManifestTyped, WalkNames DEF IInv, TypeOK

LEMMA RunVectorInv == ASSUME IInv, RunVector PROVE IInv'
  <1>1. /\ walk = "run" /\ n <= Len(manifest)
        /\ results' = Append(results, dispatch(v))
        /\ n' = n + 1 /\ UNCHANGED <<manifest, walk, drove, reached, errors>>
    BY DEF RunVector, Onwards
  <1>2. /\ Len(manifest) \in Nat /\ n \in 1..Len(manifest)
        /\ results \in Seq(BOOLEAN) /\ Len(results) = n - 1
    BY <1>1, Unfolded
  <1>3. dispatch(v) \in BOOLEAN
    BY DEF dispatch
  <1>4. /\ results' \in Seq(BOOLEAN) /\ Len(results') = n
        /\ results'[n] = dispatch(v)
        /\ \A k \in 1..(n - 1) : results'[k] = results[k]
    <2> DEFINE d == dispatch(v)
    <2> HIDE DEF d
    <2>1. d \in BOOLEAN /\ results' = Append(results, d)
      BY <1>1, <1>3 DEF d
    <2>2. /\ results' \in Seq(BOOLEAN) /\ Len(results') = n
          /\ results'[n] = d
          /\ \A k \in 1..(n - 1) : results'[k] = results[k]
      BY <1>2, <2>1
    <2> QED
      BY <2>2 DEF d
  <1>5. TypeOK'
    BY <1>1, <1>2, <1>4 DEF IInv, TypeOK
  <1>6. /\ Ran = n - 1 /\ Ran' = n /\ Covered' = 0 /\ Derived' = 0
    BY <1>1, <1>2 DEF Ran, Covered, Derived, Behind
  <1>7. \A k \in 1..Ran' : results'[k] = dispatch(manifest[k])
    <2> SUFFICES ASSUME NEW k \in 1..n PROVE results'[k] = dispatch(manifest[k])
      BY <1>6
    <2>1. CASE k = n
      <3>1. results'[n] = dispatch(manifest[n])
        BY <1>4, Zenon DEF v
      <3> QED
        BY <2>1, <3>1, Zenon
    <2>2. CASE k # n
      <3>1. k \in 1..Ran
        BY <1>2, <1>6, <2>2
      <3> QED
        BY <1>4, <1>6, <3>1 DEF IInv, RunInv
    <2> QED
      BY <2>1, <2>2
  <1>8. CoverageInv' /\ DerivationInv'
    BY <1>6 DEF CoverageInv, DerivationInv
  <1>9. FaultsInv'
    BY <1>1 DEF IInv, FaultsInv
  <1> QED
    BY <1>1, <1>5, <1>6, <1>7, <1>8, <1>9 DEF IInv, RunInv

\* A step of a later walk leaves what the walks before it established.
LEMMA CoverInv == ASSUME IInv, Cover PROVE IInv'
  <1>1. /\ walk = "coverage" /\ n <= Len(manifest)
        /\ UNCHANGED <<manifest, results, reached>>
    BY DEF Cover
  <1>2. /\ manifest \in Manifests /\ Len(manifest) \in Nat /\ n \in 1..Len(manifest)
        /\ results \in Seq(BOOLEAN) /\ Len(results) = Len(manifest)
    BY <1>1, Unfolded
  <1>3. Ran = Len(manifest) /\ Covered = n - 1
    BY <1>1 DEF Ran, Covered, Behind
  <1>4. FaultsInv'
    BY <1>1 DEF IInv, FaultsInv
  <1>5. ASSUME Leave, errors' = errors \cup {"coverage"}, drove' = drove PROVE IInv'
    <2>1. walk' = "derivations" /\ n' = 1
      BY <1>1, <1>5, Leaving
    <2>2. TypeOK'
      <3>1. walk' \in {Walks[i] : i \in 1..4} /\ walk' # "run"
        BY <2>1, WalkNames
      <3>2. n' \in 1..(Len(manifest') + 1)
        BY <1>1, <1>2, <2>1
      <3>3. results' \in Seq(BOOLEAN) /\ Len(results') = Len(manifest')
        BY <1>1, <1>2
      <3>4. (\A d \in drove' : d[2] \in Statuses) /\ errors' \subseteq {"coverage", "derivations"}
        BY <1>5 DEF IInv, TypeOK
      <3> QED
        BY <3>1, <3>2, <3>3, <3>4 DEF TypeOK
    <2>3. Ran' = Len(manifest) /\ Derived' = 0
      BY <1>1, <2>1 DEF Ran, Derived, Behind
    <2>4. RunInv'
      BY <1>1, <1>3, <2>3 DEF IInv, RunInv
    <2>5. CoverageInv' /\ DerivationInv'
      BY <1>5, <2>3 DEF CoverageInv, DerivationInv
    <2> QED
      BY <1>1, <1>2, <1>4, <2>2, <2>4, <2>5 DEF IInv
  <1>6. ASSUME Onwards, drove \subseteq drove', Observed(v, drove'),
               \A d \in drove' : d[2] \in Statuses
        PROVE  IInv'
    <2>1. n' = n + 1 /\ walk' = "coverage" /\ errors' = errors
      BY <1>1, <1>6 DEF Onwards
    <2>2. TypeOK'
      BY <1>1, <1>2, <1>6, <2>1, WalkNames DEF IInv, TypeOK
    <2>3. Ran' = Len(manifest) /\ Covered' = n /\ Derived' = 0
      BY <1>1, <1>2, <2>1 DEF Ran, Covered, Derived, Behind
    <2>4. RunInv'
      BY <1>1, <1>3, <2>3 DEF IInv, RunInv
    <2>5. CoverageInv'
      <3> SUFFICES ASSUME "coverage" \notin errors, NEW k \in 1..n
                   PROVE  Observed(manifest[k], drove')
        BY <1>1, <2>1, <2>3 DEF CoverageInv
      <3>1. CASE k = n
        BY <1>6, <3>1 DEF v
      <3>2. CASE k # n
        <4>1. k \in 1..Covered
          BY <1>2, <1>3, <3>2
        <4>2. Observed(manifest[k], drove)
          BY <4>1 DEF IInv, CoverageInv
        <4> QED
          BY <1>6, <4>2 DEF Observed
      <3> QED
        BY <3>1, <3>2
    <2>6. DerivationInv'
      BY <2>3 DEF DerivationInv
    <2> QED
      BY <1>1, <1>2, <1>4, <2>2, <2>4, <2>5, <2>6 DEF IInv
  <1>7. \A d \in drove : d[2] \in Statuses
    BY DEF IInv, TypeOK
  <1>8. CASE v.kind # "receipt" \/ v.receipt = NoFile
    BY <1>6, <1>7, <1>8 DEF Cover, Observed
  <1>9. CASE v.kind = "receipt" /\ v.receipt # NoFile /\ ~InputBuilds(v)
    BY <1>5, <1>9 DEF Cover
  <1>10. CASE v.kind = "receipt" /\ v.receipt # NoFile /\ InputBuilds(v)
    <2> DEFINE seen == {<<c.name, c.status>> : c \in Reported(buildVerifyInput(v))}
    <2>1. Onwards /\ drove' = drove \cup seen
      BY <1>10 DEF Cover
    <2>2. \A c \in Reported(buildVerifyInput(v)) : c.status \in Statuses
      BY <1>2, <1>10, ManifestTyped DEF v
    <2>3. \A d \in seen : d[2] \in Statuses
      BY <2>2
    <2>4. Observed(v, drove')
      BY <2>1 DEF Observed
    <2> HIDE DEF seen
    <2> QED
      BY <1>6, <1>7, <2>1, <2>3, <2>4
  <1> QED
    BY <1>8, <1>9, <1>10

LEMMA CoverDerivationInv == ASSUME IInv, CoverDerivation PROVE IInv'
  <1>1. /\ walk = "derivations" /\ n <= Len(manifest)
        /\ UNCHANGED <<manifest, results, drove>>
    BY DEF CoverDerivation
  <1>2. /\ manifest \in Manifests /\ Len(manifest) \in Nat /\ n \in 1..Len(manifest)
        /\ results \in Seq(BOOLEAN) /\ Len(results) = Len(manifest)
    BY <1>1, Unfolded
  <1>3. Ran = Len(manifest) /\ Covered = Len(manifest) /\ Derived = n - 1
    BY <1>1 DEF Ran, Covered, Derived, Behind
  <1>4. ASSUME Leave, errors' = errors \cup {"derivations"}, reached' = reached PROVE IInv'
    <2>1. walk' = "done" /\ n' = 1
      BY <1>1, <1>4, Leaving
    <2>2. TypeOK'
      <3>1. walk' \in {Walks[i] : i \in 1..4}
        BY <2>1, WalkNames
      <3> QED
        BY <1>1, <1>2, <1>4, <2>1, <3>1 DEF IInv, TypeOK
    <2>3. Ran' = Len(manifest) /\ Covered' = Len(manifest)
      BY <1>1, <2>1 DEF Ran, Covered, Behind
    <2>4. RunInv' /\ CoverageInv' /\ DerivationInv' /\ FaultsInv'
      BY <1>1, <1>3, <1>4, <2>3 DEF IInv, RunInv, CoverageInv, DerivationInv, FaultsInv
    <2> QED
      BY <1>1, <1>2, <2>2, <2>4 DEF IInv
  <1>5. ASSUME Onwards, reached \subseteq reached', Counted(v, reached'),
               \A fault \in reached' : fault # Unnamed /\ FaultIn(manifest, fault)
        PROVE  IInv'
    <2>1. n' = n + 1 /\ walk' = "derivations" /\ errors' = errors
      BY <1>1, <1>5 DEF Onwards
    <2>2. TypeOK'
      BY <1>1, <1>2, <1>5, <2>1, WalkNames DEF IInv, TypeOK
    <2>3. Ran' = Len(manifest) /\ Covered' = Len(manifest) /\ Derived' = n
      BY <1>1, <1>2, <2>1 DEF Ran, Covered, Derived, Behind
    <2>4. RunInv' /\ CoverageInv' /\ FaultsInv'
      BY <1>1, <1>3, <1>5, <2>1, <2>3 DEF IInv, RunInv, CoverageInv, FaultsInv
    <2>5. DerivationInv'
      <3> SUFFICES ASSUME "derivations" \notin errors, NEW k \in 1..n
                   PROVE  Counted(manifest[k], reached')
        BY <1>1, <2>1, <2>3 DEF DerivationInv
      <3>1. CASE k = n
        BY <1>5, <3>1 DEF v
      <3>2. CASE k # n
        <4>1. k \in 1..Derived
          BY <1>2, <1>3, <3>2
        <4>2. Counted(manifest[k], reached)
          BY <4>1 DEF IInv, DerivationInv
        <4> QED
          BY <1>5, <4>2 DEF Counted
      <3> QED
        BY <3>1, <3>2
    <2> QED
      BY <1>1, <1>2, <2>2, <2>4, <2>5 DEF IInv
  <1>6. \A fault \in reached : fault # Unnamed /\ FaultIn(manifest, fault)
    BY DEF IInv, FaultsInv
  <1>7. CASE v.expect # "invalid" \/ ~Delegates(v)
    BY <1>5, <1>6, <1>7 DEF CoverDerivation, Counted, Delegates
  <1>8. CASE v.expect = "invalid" /\ Delegates(v)
    <2>1. CASE Leave /\ errors' = errors \cup {"derivations"} /\ UNCHANGED reached
      BY <1>4, <2>1
    <2>2. CASE \E fault \in LineFaults(v) \ {Unnamed} :
                   reached' = reached \cup {fault} /\ Onwards
      <3>1. PICK fault \in LineFaults(v) \ {Unnamed} :
                   reached' = reached \cup {fault} /\ Onwards
        BY <2>2
      <3>2. FaultIn(manifest, fault)
        BY <1>2, <1>8, <3>1 DEF FaultIn, v
      <3>3. Counted(v, reached')
        BY <3>1 DEF Counted
      <3> QED
        BY <1>5, <1>6, <3>1, <3>2, <3>3
    <2> QED
      BY <1>8, <2>1, <2>2 DEF CoverDerivation, Delegates
  <1> QED
    BY <1>7, <1>8

LEMMA EndOfWalkInv == ASSUME IInv, EndOfWalk PROVE IInv'
  <1>1. /\ walk # "done" /\ n > Len(manifest) /\ Leave
        /\ UNCHANGED <<manifest, results, drove, reached, errors>>
    BY DEF EndOfWalk
  <1>2. /\ manifest \in Manifests /\ Len(manifest) \in Nat /\ n = Len(manifest) + 1
        /\ results \in Seq(BOOLEAN) /\ Len(results) = Len(manifest)
        /\ walk \in {"run", "coverage", "derivations"}
    BY <1>1, Unfolded
  <1>3. /\ n' = 1
        /\ walk = "run" => walk' = "coverage"
        /\ walk = "coverage" => walk' = "derivations"
        /\ walk = "derivations" => walk' = "done"
    BY <1>1, Leaving
  <1>4. TypeOK'
    <2>1. walk' \in {Walks[i] : i \in 1..4}
      BY <1>2, <1>3, WalkNames
    <2> QED
      BY <1>1, <1>2, <1>3, <2>1 DEF IInv, TypeOK
  <1>5. Ran' = Ran /\ Covered' = Covered /\ Derived' = Derived
    BY <1>1, <1>2, <1>3 DEF Ran, Covered, Derived, Behind
  <1>6. RunInv' /\ CoverageInv' /\ DerivationInv' /\ FaultsInv'
    BY <1>1, <1>5 DEF IInv, RunInv, CoverageInv, DerivationInv, FaultsInv
  <1> QED
    BY <1>1, <1>2, <1>4, <1>6 DEF IInv

LEMMA NextInv == IInv /\ [Next]_vars => IInv'
  <1> SUFFICES ASSUME IInv, [Next]_vars PROVE IInv'
    OBVIOUS
  <1>1. CASE UNCHANGED vars
    BY <1>1 DEF vars, IInv, TypeOK, RunInv, CoverageInv, DerivationInv, FaultsInv, Ran, Covered,
       Derived, Behind
  <1>2. CASE Next
    BY <1>2, RunVectorInv, CoverInv, CoverDerivationInv, EndOfWalkInv DEF Next
  <1> QED
    BY <1>1, <1>2

LEMMA Invariance == Spec => []IInv
  BY InitInv, NextInv, PTL DEF Spec

------------------------------------------------------------------------------
(* The theorems.                                                            *)

\* The walks stay inside the manifest, and every vector gets one result.
THEOREM TypeCorrect == Spec => []TypeOK
  <1>1. IInv => TypeOK
    BY DEF IInv
  <1> QED
    BY <1>1, Invariance, PTL

\* At the end, every vector has been run, covered and counted.
LEMMA AtTheEnd ==
    ASSUME IInv, walk = "done", NEW k \in 1..Len(manifest)
    PROVE  /\ results[k] = dispatch(manifest[k])
           /\ "coverage" \notin errors => Observed(manifest[k], drove)
           /\ "derivations" \notin errors => Counted(manifest[k], reached)
  <1>1. Ran = Len(manifest) /\ Covered = Len(manifest) /\ Derived = Len(manifest)
    BY DEF Ran, Covered, Derived, Behind
  <1> QED
    BY <1>1 DEF IInv, RunInv, CoverageInv, DerivationInv

\* What a vector that passes pins of the verifier's answers, the coverage walk has
\* seen, for any manifest: the two walks give the verifier one input.
THEOREM PinsAreCovered == Spec => []PinnedIsCovered
  <1>1. IInv => PinnedIsCovered
    <2> SUFFICES ASSUME IInv, "coverage" \notin errors, NEW k \in 1..Len(manifest),
                        Passed(k), manifest[k].kind = "receipt",
                        NEW name \in DOMAIN manifest[k].expect_checks
                 PROVE  <<name, manifest[k].expect_checks[name]>> \in drove
      BY DEF PinnedIsCovered
    <2> DEFINE x == manifest[k]
               c == [name |-> name, status |-> x.expect_checks[name]]
    <2>1. dispatch(x) /\ Observed(x, drove)
      BY AtTheEnd DEF Passed
    <2>2. receiptVerifies(x, x.expect = "valid")
      BY <2>1 DEF dispatch, ExpectKinds
    <2>3. InputBuilds(x) /\ c \in Reported(buildVerifyInput(x))
      BY <2>2 DEF receiptVerifies
    <2>4. x.receipt # NoFile
      BY <2>3, BuiltGiven
    <2>5. <<c.name, c.status>> \in drove
      BY <2>1, <2>3, <2>4 DEF Observed
    <2> QED
      BY <2>5
  <1> QED
    BY <1>1, Invariance, PTL

\* A vector that passes in a clean suite was run on the files it names, but for the
\* rejections no coverage walk visits.
THEOREM PassesAreGrounded == Spec => []PassesRestOnArtifacts
  <1>1. IInv => PassesRestOnArtifacts
    <2> SUFFICES ASSUME IInv, errors = {}, NEW k \in 1..Len(manifest), Passed(k)
                 PROVE  \/ Given(manifest[k])
                        \/ manifest[k].expect \notin {"valid", "invalid"}
                        \/ /\ manifest[k].expect = "invalid"
                           /\ manifest[k].kind \in {"mat", "commitment_binding", "provenance"}
      BY DEF PassesRestOnArtifacts
    <2> DEFINE x == manifest[k]
    <2>1. dispatch(x) /\ Counted(x, reached)
      BY AtTheEnd DEF Passed
    <2>2. CASE x.kind = "receipt"
      <3>1. InputBuilds(x)
        BY <2>1, <2>2 DEF dispatch, ExpectKinds, receiptVerifies
      <3> QED
        BY <2>2, <3>1, BuiltGiven
    <2>3. CASE x.kind = "canon"
      BY <2>1, <2>3 DEF dispatch, ExpectKinds, canonMatches, Given, FilesOf
    <2>4. CASE x.kind \in ExpectKinds /\ x.expect = "valid"
      <3>1. Accepts(x)
        BY <2>1, <2>4 DEF dispatch, ExpectKinds
      <3> QED
        BY <2>4, <3>1, AcceptedGiven
    <2>5. CASE Delegates(x) /\ x.expect = "invalid"
      <3>1. PICK fault \in LineFaults(x) : fault \in reached
        BY <2>1, <2>5 DEF Counted
      <3>2. fault # Unnamed
        BY <3>1 DEF IInv, FaultsInv
      <3> QED
        BY <2>5, <3>1, <3>2, FaultsOfGiven
    <2> QED
      BY <2>1, <2>2, <2>3, <2>4, <2>5 DEF dispatch, ExpectKinds, Delegates
  <1> QED
    BY <1>1, Invariance, PTL

\* Every fault counted as reached is one that artifacts of the manifest have, and
\* every delegation that expects a rejection contributed one.
THEOREM ReachedAreReal == Spec => []ReachedByArtifacts
  <1>1. IInv => ReachedByArtifacts
    <2> SUFFICES ASSUME IInv PROVE ReachedByArtifacts
      OBVIOUS
    <2>1. Unnamed \notin reached
      BY DEF IInv, FaultsInv
    <2>2. ASSUME NEW fault \in reached
          PROVE  \E k \in 1..Len(manifest) :
                     Given(manifest[k]) /\ fault \in LineFaults(manifest[k])
      <3>1. fault # Unnamed /\ FaultIn(manifest, fault)
        BY <2>2 DEF IInv, FaultsInv
      <3>2. PICK k \in 1..Len(manifest) :
                Delegates(manifest[k]) /\ fault \in LineFaults(manifest[k])
        BY <3>1 DEF FaultIn
      <3>3. Given(manifest[k])
        BY <3>1, <3>2, FaultsOfGiven
      <3> QED
        BY <3>2, <3>3
    <2>3. (walk = "done" /\ "derivations" \notin errors) =>
              \A k \in 1..Len(manifest) :
                  (manifest[k].expect = "invalid" /\ Delegates(manifest[k]))
                      => LineFaults(manifest[k]) \cap reached # {}
      BY AtTheEnd DEF Counted
    <2> QED
      BY <2>1, <2>2, <2>3 DEF ReachedByArtifacts, Delegates
  <1> QED
    BY <1>1, Invariance, PTL
=============================================================================
