------------------------- MODULE MCFrontendReceipts -------------------------
(* Model-checking instances of FrontendReceipts. *)
EXTENDS FrontendReceipts
=============================================================================
