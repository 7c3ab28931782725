------------------------- MODULE MCSandboxAllocation -------------------------
(* Small instances of SandboxAllocation.                                    *)
EXTENDS SandboxAllocation
=============================================================================
