----------------------------- MODULE Provenance -----------------------------
(***************************************************************************)
(* ReconstructProvenance as the loops it is (provenance.go): the receipts  *)
(* are indexed by commitment digest while roots are collected, there must  *)
(* be one root, every parent named must be indexed, and the chain is       *)
(* walked from the root through the unique child of each receipt. What the *)
(* walk missed is found by counting.                                       *)
(***************************************************************************)
EXTENDS Integers, Sequences

CONSTANT Presentations   \* the sequences of receipts a caller may present

ASSUME PresentationsAssumption == \A rs \in Presentations : Len(rs) \in Nat

VARIABLES receipts,   \* the argument
          pc,         \* the loop about to run
          i,          \* the position of the indexing loop
          byDigest,   \* the keys of the index
          roots,      \* the positions of the roots found
          cur,        \* the receipt the walk stands on
          visited,    \* the digests the walk has passed
          links,      \* the positions of the receipts in the chain
          fault       \* which error is returned

vars == <<receipts, pc, i, byDigest, roots, cur, visited, links, fault>>

Path == INSTANCE DerivationPath WITH
    verdict <- IF pc = "accepted" THEN "accepted"
               ELSE IF pc = "rejected" THEN "refused" ELSE "undecided",
    path <- IF pc = "accepted" THEN links ELSE <<>>

NoFault == "nil"

\* Provenance is nil, or its parent digest empty.
IsRoot(r) == r.provenance = <<>> \/ r.provenance[1].parent_commitment_digest = <<>>

\* hexEqual of the parent digest and the commitment digest, Provenance not nil.
PointsAt(r, q) ==
    /\ r.provenance # <<>>
    /\ r.provenance[1].parent_commitment_digest = q.commitment_digest

\* {} stands for nil, which is returned for no child and for several.
childOf(parent) ==
    LET children == {c \in 1..Len(receipts) : PointsAt(receipts[c], receipts[parent])}
    IN  {c \in children : \A d \in children : d = c}

Init ==
    /\ receipts \in Presentations
    /\ pc = "start" /\ i = 1
    /\ byDigest = {} /\ roots = <<>>
    /\ cur = 0 /\ visited = {} /\ links = <<>>
    /\ fault = NoFault

\* Mutant of Reject: a refusal that returns no error.
RejectSilently(what) ==
    /\ pc' = "rejected"
    /\ UNCHANGED <<receipts, i, byDigest, roots, cur, visited, links, fault>>

Reject(what) ==
    /\ pc' = "rejected" /\ fault' = what
    /\ UNCHANGED <<receipts, i, byDigest, roots, cur, visited, links>>

Start ==
    /\ pc = "start"
    /\ IF Len(receipts) = 0 THEN Reject("no receipts")
       ELSE /\ pc' = "index"
            /\ UNCHANGED <<receipts, i, byDigest, roots, cur, visited, links, fault>>

\* Mutant of Index: a digest met twice replaces the first in the index.
IndexReplacing ==
    /\ pc = "index" /\ i <= Len(receipts)
    /\ LET r == receipts[i] IN
       IF r.commitment_digest = <<>> THEN Reject("no commitment digest")
       ELSE /\ byDigest' = byDigest \cup {r.commitment_digest}
            /\ roots' = IF IsRoot(r) THEN Append(roots, i) ELSE roots
            /\ i' = i + 1
            /\ UNCHANGED <<receipts, pc, cur, visited, links, fault>>

Index ==
    /\ pc = "index" /\ i <= Len(receipts)
    /\ LET r == receipts[i] IN
       IF r.commitment_digest = <<>> THEN Reject("no commitment digest")
       ELSE IF r.commitment_digest \in byDigest THEN Reject("shared commitment digest")
       ELSE /\ byDigest' = byDigest \cup {r.commitment_digest}
            /\ roots' = IF IsRoot(r) THEN Append(roots, i) ELSE roots
            /\ i' = i + 1
            /\ UNCHANGED <<receipts, pc, cur, visited, links, fault>>

OneRoot ==
    /\ pc = "index" /\ i > Len(receipts)
    /\ IF Len(roots) # 1 THEN Reject("not one root")
       ELSE /\ pc' = "resolve" /\ cur' = roots[1]
            /\ UNCHANGED <<receipts, i, byDigest, roots, visited, links, fault>>

Resolve ==
    /\ pc = "resolve"
    /\ IF \E k \in 1..Len(receipts) :
             /\ ~IsRoot(receipts[k])
             /\ receipts[k].provenance[1].parent_commitment_digest \notin byDigest
       THEN Reject("broken link")
       ELSE /\ pc' = "walk"
            /\ UNCHANGED <<receipts, i, byDigest, roots, cur, visited, links, fault>>

\* Mutant of Walk: the walk never moves on from a receipt that has a child.
WalkInPlace ==
    /\ pc = "walk"
    /\ visited' = visited \cup {receipts[cur].commitment_digest}
    /\ links' = IF receipts[cur].commitment_digest \in visited THEN links
                ELSE Append(links, cur)
    /\ IF childOf(cur) = {} THEN pc' = "count" ELSE UNCHANGED pc
    /\ UNCHANGED <<receipts, i, byDigest, roots, cur, fault>>

Walk ==
    /\ pc = "walk"
    /\ IF receipts[cur].commitment_digest \in visited THEN Reject("cycle")
       ELSE /\ visited' = visited \cup {receipts[cur].commitment_digest}
            /\ links' = Append(links, cur)
            /\ \/ childOf(cur) = {} /\ pc' = "count" /\ UNCHANGED cur
               \/ cur' \in childOf(cur) /\ UNCHANGED pc
            /\ UNCHANGED <<receipts, i, byDigest, roots, fault>>

\* Mutant of Count: what the walk reached is the chain.
CountReached ==
    /\ pc = "count"
    /\ pc' = "accepted"
    /\ UNCHANGED <<receipts, i, byDigest, roots, cur, visited, links, fault>>

Count ==
    /\ pc = "count"
    /\ IF Len(links) # Len(receipts) THEN Reject("not a single chain")
       ELSE /\ pc' = "accepted"
            /\ UNCHANGED <<receipts, i, byDigest, roots, cur, visited, links, fault>>

Next == Start \/ Index \/ OneRoot \/ Resolve \/ Walk \/ Count

Spec == Init /\ [][Next]_vars

\* Sequential code without blocking calls.
FairSpec == Spec /\ WF_vars(Next)

------------------------------------------------------------------------------
(* What must hold.                                                          *)

\* Type invariant.
TypeOK ==
    /\ pc \in {"start", "index", "resolve", "walk", "count", "accepted", "rejected"}
    /\ i \in 1..(Len(receipts) + 1)
    /\ byDigest \subseteq {receipts[k].commitment_digest : k \in 1..Len(receipts)}
    /\ visited \subseteq byDigest
    /\ links \in Seq(1..Len(receipts))
    /\ pc \in {"resolve", "walk", "count", "accepted"} => cur \in 1..Len(receipts)
    /\ fault = NoFault <=> pc # "rejected"

\* The receipts are accepted, in derivation order and in full, exactly when they
\* form one path from one root: a fan-out, a detached cycle, a second root, a
\* broken or an ambiguous link is refused, and no path is, in whatever order its
\* receipts are presented (provenance.go:26-30).
ImplementsPath == Path!Spec

\* The walk's own test for a cycle is never what refuses: a cycle has no root and
\* is not reached from one, so it is left to the final count (provenance.go:79-81,
\* 102-104).
CyclesAreCountedOut == fault # "cycle"

\* The walk always ends in a verdict, whatever the receipts refer to.
AlwaysDecides == <>(pc \in {"accepted", "rejected"})
=============================================================================
