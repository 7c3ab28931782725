-------------------------- MODULE MCFinanceReports --------------------------
(* A small shop's reports: five days in three months and two years, after    *)
(* every history of the stock book of one writer.                            *)
EXTENDS FinanceReports, TLC

CONSTANTS p1, p2

SmallShelf ==
    p1 :> [category |-> "bars", price |-> 3, low |-> 1, words |-> {"oat"}] @@
    p2 :> [category |-> "drinks", price |-> 2, low |-> 0, words |-> {"milk", "oat"}]

SmallDeals ==
    1 :> [party |-> "A", price |-> 3, discount |-> 1, words |-> {"milk"}] @@
    2 :> [party |-> "B", price |-> 2, discount |-> 0, words |-> {}] @@
    3 :> [party |-> "A", price |-> 4, discount |-> 0, words |-> {"oat"}]

Spent(id, date, category, label, amount, recurring) ==
    [id |-> id, date |-> date, created |-> 1, category |-> category, label |-> label,
     amount |-> amount, recurring |-> recurring, words |-> {label}]

(* A category that was renamed after its first recurring charge. *)
SmallSpendings ==
    {Spent(1, 0, "rent", "hall", 24, TRUE), Spent(2, 1, "rent", "gym", 7, TRUE),
     Spent(3, 2, "tax", "tax", 13, FALSE), Spent(4, 3, "rent", "gym", 7, FALSE),
     Spent(5, 4, "tax", "tax", 26, FALSE)}

Months == <<-4, -3, -2, -1, 0, 1, 3, 5>>
Years == <<-4, -2, 1, 5>>

Period(from, to) ==
    [from |-> from, to |-> to, product |-> Unset, category |-> Unset, supplier |-> Unset, channel |-> Unset,
     expenseCategory |-> Unset, stock |-> Unset, search |-> Unset]

(* Every period with no filter, those with names on the last day, and one    *)
(* that cuts two months with each filter.                                    *)
SmallReports ==
    {Period(f, t) : <<f, t>> \in {r \in (1..4) \X (1..4) : r[1] <= r[2]}}
    \cup {At(Period(4, 4), PresetRange(p, 4)) : p \in {"today", "thisMonth", "previousMonth", "thisYear"}}
    \cup LET cut == Period(2, 3) IN
         {[cut EXCEPT !.product = p1], [cut EXCEPT !.category = "drinks"], [cut EXCEPT !.supplier = "A"],
          [cut EXCEPT !.channel = "B"], [cut EXCEPT !.expenseCategory = "rent"],
          [cut EXCEPT !.stock = "LOW_STOCK"], [cut EXCEPT !.search = "milk"]}

List(from, to) ==
    [from |-> from, to |-> to, product |-> Unset, category |-> Unset, party |-> Unset, search |-> Unset,
     sort |-> "date", asc |-> FALSE]

SmallLists ==
    {List(0, 4), [List(2, 4) EXCEPT !.asc = TRUE], [List(0, 4) EXCEPT !.sort = "revenue"],
     [List(1, 2) EXCEPT !.sort = "profit", !.asc = TRUE], [List(1, 2) EXCEPT !.party = "A"],
     [List(0, 4) EXCEPT !.product = p1, !.search = "milk"], [List(0, 4) EXCEPT !.category = "drinks"],
     [List(0, 4) EXCEPT !.search = "milk"], [List(0, 4) EXCEPT !.search = "oat"]}
=============================================================================
