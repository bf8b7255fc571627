--------------------------- MODULE DerivationPath ---------------------------
(***************************************************************************)
(* What reconstructing a provenance chain promises, with nothing said of   *)
(* how: one answer, given once. It is the receipts in derivation order,    *)
(* root first, when they form exactly one path, and a refusal otherwise.   *)
(*                                                                         *)
(* A receipt is [id, artifact_id, commitment_digest, provenance]; a digest *)
(* is <<>> when absent and provenance is <<>> or one record                *)
(* [parent_artifact_id, parent_commitment_digest].                         *)
(***************************************************************************)
EXTENDS Integers, Sequences

VARIABLES receipts,   \* the receipts presented, in the order presented
          verdict,    \* "undecided", "accepted" or "refused"
          path        \* their positions in derivation order, once accepted

\* A receipt that derives from no commitment.
IsRoot(r) == r.provenance = <<>> \/ r.provenance[1].parent_commitment_digest = <<>>

\* The commitment r refers to is the one that governs q.
DerivesFrom(r, q) ==
    /\ r.provenance # <<>>
    /\ r.provenance[1].parent_commitment_digest = q.commitment_digest

Identified(rs) ==
    /\ \A i \in 1..Len(rs) : rs[i].commitment_digest # <<>>
    /\ \A i, j \in 1..Len(rs) : rs[i].commitment_digest = rs[j].commitment_digest => i = j

\* p passes through every receipt once, from a root and along derivations only.
IsPath(rs, p) ==
    /\ Len(rs) > 0
    /\ p \in [1..Len(rs) -> 1..Len(rs)]
    /\ \A k, l \in 1..Len(rs) : p[k] = p[l] => k = l
    /\ \A i \in 1..Len(rs) : \E k \in 1..Len(rs) : p[k] = i
    /\ IsRoot(rs[p[1]])
    /\ \A k \in 1..(Len(rs) - 1) :
          ~IsRoot(rs[p[k+1]]) /\ DerivesFrom(rs[p[k+1]], rs[p[k]])

SinglePath(rs, p) == Identified(rs) /\ IsPath(rs, p)

Paths(rs) == [1..Len(rs) -> 1..Len(rs)]

Init == verdict = "undecided" /\ path = <<>>

Accept ==
    /\ verdict = "undecided" /\ verdict' = "accepted"
    /\ SinglePath(receipts, path')
    /\ UNCHANGED receipts

Refuse ==
    /\ verdict = "undecided" /\ verdict' = "refused"
    /\ \A p \in Paths(receipts) : ~SinglePath(receipts, p)
    /\ UNCHANGED <<receipts, path>>

Next == Accept \/ Refuse

Spec == Init /\ [][Next]_<<receipts, verdict, path>>
=============================================================================
