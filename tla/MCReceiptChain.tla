--------------------------- MODULE MCReceiptChain ---------------------------
(***************************************************************************)
(* Receipts of the enforcement point ke: enough for one to settle another  *)
(* across a third, and as many changes of the log.                         *)
(***************************************************************************)
EXTENDS ReceiptChain, MCInputs
=============================================================================
