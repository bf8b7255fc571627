--------------------------- MODULE MCReplayGuard ---------------------------
(***************************************************************************)
(* Two receipts of one artifact and a speculative one; the first also in a *)
(* second envelope, and once under a signature nobody made.                *)
(***************************************************************************)
EXTENDS ReplayGuard, MCInputs, TLC

Rc(id, speculative) == [id |-> id, artifact_id |-> "mat", speculative |-> speculative]

\* An envelope of the enforcement point; its unprotected header is not signed.
Enveloped(payload, header) == [unprotected |-> header] @@ Sealed("ke", "receipt", payload)

MCPresentable ==
    {Enveloped(Rc("r1", FALSE), "h1"), Enveloped(Rc("r1", FALSE), "h2"),
     Enveloped(Rc("r2", FALSE), "h1"), Enveloped(Rc("r3", TRUE), "h1"),
     [Enveloped(Rc("r2", FALSE), "h1") EXCEPT !.signature = <<"none">>]}

=============================================================================
