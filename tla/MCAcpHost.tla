----------------------------- MODULE MCAcpHost -----------------------------
(* Model-checking instance of AcpHost.                                     *)
EXTENDS AcpHost
=============================================================================
