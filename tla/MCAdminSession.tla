--------------------------- MODULE MCAdminSession ---------------------------
(* Small instances of AdminSession.                                         *)
EXTENDS AdminSession, TLC

Symmetric == Permutations(Requests) \cup Permutations(Calls) \cup Permutations(Operations)
=============================================================================
