------------------------------ MODULE Verdict ------------------------------
(***************************************************************************)
(* What a verification promises its caller, with nothing said of how: no   *)
(* answer at first, then one whole answer, which never changes. The answer *)
(* names each check at most once, is invalid exactly when a check failed,  *)
(* lists exactly the checks that were not performed, and is complete -     *)
(* except that a receipt that is not authentic is answered by that alone.  *)
(***************************************************************************)
EXTENDS Integers, Sequences

CONSTANTS Required,        \* the checks a complete answer reports
          NoVerdict        \* no answer yet

VARIABLE verdict           \* NoVerdict or [valid, notPerformed, checks]

CheckNames(v) == {v.checks[i].name : i \in 1..Len(v.checks)}

NamesWith(v, status) ==
    {v.checks[i].name : i \in {j \in 1..Len(v.checks) : v.checks[j].status = status}}

Complete(v) ==
    \/ Required \subseteq CheckNames(v)
    \/ v.checks = <<[name |-> "receipt_signature", status |-> "failed"]>>

Coherent(v) ==
    /\ \A i, j \in 1..Len(v.checks) : v.checks[i].name = v.checks[j].name => i = j
    /\ v.valid <=> NamesWith(v, "failed") = {}
    /\ v.notPerformed = NamesWith(v, "not_performed")
    /\ Complete(v)

Init == verdict = NoVerdict

Answer ==
    /\ verdict = NoVerdict
    /\ verdict' # NoVerdict
    /\ Coherent(verdict')

Spec == Init /\ [][Answer]_verdict
=============================================================================
