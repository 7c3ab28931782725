-------------------------- MODULE MCSandboxPayment --------------------------
(* Small instances of SandboxPayment.                                       *)
EXTENDS SandboxPayment
=============================================================================
