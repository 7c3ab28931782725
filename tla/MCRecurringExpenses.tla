------------------------ MODULE MCRecurringExpenses ------------------------
(* Small calendars; the second month is shorter than others.                 *)
EXTENDS RecurringExpenses, TLC

ThreeMonths == <<2, 1, 2>>
TwoMonths == <<2, 1>>
Symmetric == Permutations(Requests) \cup Permutations(Terms)
=============================================================================
