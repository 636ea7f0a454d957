--------------------------- MODULE MCFinalOutbox ---------------------------
(* Model-checking instance of FinalOutbox.                                 *)
EXTENDS FinalOutbox
=============================================================================
