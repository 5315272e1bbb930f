-------------------------- MODULE MC_ReceiptStore --------------------------
(* Model checking of ReceiptStore.                                         *)
EXTENDS ReceiptStore
=============================================================================
