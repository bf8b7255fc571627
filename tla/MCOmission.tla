----------------------------- MODULE MCOmission -----------------------------
(***************************************************************************)
(* Omission over the inputs of MCVerify that are one deviation away from   *)
(* honest, every one and every two inputs withheld, and all together.      *)
(***************************************************************************)
EXTENDS Omission, MCVerify

MCWithholdings == {{f, g} : f, g \in Optional} \cup {Optional}
=============================================================================
