---------------------------- MODULE MCFinanceWriters ----------------------------
(* Finance transactions that overlap: writers of the stock book, and of a   *)
(* recurring template and its charges.  They share nothing; a behaviour is  *)
(* one of either.                                                           *)
EXTENDS InventoryLedger, MCRecurringExpenses

VARIABLE part

MCInit == /\ part \in {"stock", "recurring"} /\ LedgerInit /\ RecurringInit
          /\ part = "stock" => template.active /\ template.end = Never

MCNext ==
    /\ UNCHANGED part
    /\ \/ part = "stock" /\ LedgerNext /\ UNCHANGED recurringVars
       \/ part = "recurring" /\ RecurringNext /\ UNCHANGED vars

MCSpec == MCInit /\ [][MCNext]_<<part, vars, recurringVars>>
=============================================================================
