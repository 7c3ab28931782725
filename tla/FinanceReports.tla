--------------------------- MODULE FinanceReports ---------------------------
(***************************************************************************)
(* The figures FinanceReportingService gives out of the stock book and the *)
(* expenses, and the exports of the lists beside the lists themselves.     *)
(* A report is a function of what one REPEATABLE READ transaction saw: the *)
(* documents with their stored unit costs, and the expenses of a period.   *)
(* (What a report writes first, the recurring charges that are due, is     *)
(* RecurringExpenses'.)  Amounts are in storable parts of money; what is   *)
(* shown is rounded to whole units, after adding up.                       *)
(***************************************************************************)
EXTENDS InventoryLedger, FiniteSets, Sequences, Functions

CONSTANTS
    Unset,        \* a filter that is not given
    Shelf,        \* of a product: category, price, lowStockThreshold, words of its texts
    Deals,        \* of a document: its supplier or channel, unit price, discount, words
    Spendings,    \* expenses: id, date, created, category, label, amount, recurring, words
    MonthStarts, YearStarts,  \* the first days of the months and of the years, in order
    ReportQueries, ListQueries   \* the queries asked

ASSUME ReportAssumption ==
    /\ IsFiniteSet(Products) /\ DOMAIN Shelf = Products
    /\ \A e \in Documents : Deals[e].price \in Nat /\ Deals[e].discount \in Nat
    /\ IsFiniteSet(Spendings)
    /\ \A x \in Spendings : x.id \in Nat /\ x.date \in Int /\ x.created \in Nat /\ x.amount \in Nat /\ x.recurring \in BOOLEAN
    /\ \A x, y \in Spendings : x.id = y.id => x = y

Passes(filter, x) == filter = Unset \/ filter = x
Says(words, q) == q = Unset \/ q \in words

-----------------------------------------------------------------------------
(* Days, months and years.  A range is inclusive at both ends.              *)

InRange(day, range) == range.from <= day /\ day <= range.to

(* calendarRange: the i-th of periods that start on the given days. *)
CalendarRange(starts, i) == [from |-> starts[i], to |-> starts[i + 1] - 1]
Periods(starts) == [i \in 1..(Len(starts) - 1) |-> CalendarRange(starts, i)]

(* Each start is later than the one before, years start with a month and    *)
(* have more than one, and the calendar reaches from two years before what  *)
(* is asked to some day after it.                                           *)
Rising(starts) == starts \in Seq(Int) /\ \A i, j \in 1..Len(starts) : i < j => starts[i] < starts[j]

Fields == {"from", "to", "product", "category", "supplier", "channel", "expenseCategory", "stock", "search"}

ASSUME PeriodAssumption ==
    /\ Rising(MonthStarts) /\ Rising(YearStarts) /\ Len(YearStarts) > 2
    /\ Range(YearStarts) \subseteq Range(MonthStarts)
    /\ Range(Periods(YearStarts)) \cap Range(Periods(MonthStarts)) = {}
    /\ \A q \in ReportQueries : /\ DOMAIN q = Fields /\ q.from \in Int /\ q.to \in Int /\ q.from <= q.to
                                /\ YearStarts[3] <= q.from /\ q.to < MonthStarts[Len(MonthStarts)]
    /\ \A q \in ListQueries : q.from \in Int /\ q.to \in Int /\ q.asc \in BOOLEAN

(* The year before a year, the month before a month, else as many days. *)
PreviousReportRange(range) ==
    LET whole(starts) == {i \in DOMAIN Periods(starts) : Periods(starts)[i] = [from |-> range.from, to |-> range.to]}
        before(starts) == Periods(starts)[Max(whole(starts)) - 1]
    IN  IF whole(YearStarts) # {} THEN before(YearStarts)
        ELSE IF whole(MonthStarts) # {} THEN before(MonthStarts)
        ELSE [from |-> range.from - (range.to - range.from + 1), to |-> range.from - 1]

(* normalizeReportRange: what a period's name means on a day. *)
PresetRange(period, today) ==
    LET at(starts) == CHOOSE i \in DOMAIN Periods(starts) : InRange(today, Periods(starts)[i])
    IN  CASE period = "today" -> [from |-> today, to |-> today]
          [] period = "thisMonth" -> Periods(MonthStarts)[at(MonthStarts)]
          [] period = "previousMonth" -> Periods(MonthStarts)[at(MonthStarts) - 1]
          [] period = "thisYear" -> Periods(YearStarts)[at(YearStarts)]

(* The months a range touches. *)
Touches(range) ==
    {i \in DOMAIN Periods(MonthStarts) : MonthStarts[i] <= range.to /\ range.from < MonthStarts[i + 1]}

(* Wrong: the months are reported whole. *)
MonthsWhole(range) == [i \in Touches(range) |-> Periods(MonthStarts)[i]]

(* The months a range touches, each cut to it. *)
MonthsOf(range) ==
    [i \in Touches(range) |-> [from |-> Max({range.from, Periods(MonthStarts)[i].from}),
                               to |-> Min({range.to, Periods(MonthStarts)[i].to})]]

-----------------------------------------------------------------------------
(* What a report reads: all products with their lines, and the expenses     *)
(* since the query's first day, or that of the period it is compared with.  *)
Read(q, withComparison) ==
    LET from == IF withComparison THEN PreviousReportRange(q).from ELSE q.from
    IN  [documents |-> docs,
         position |-> [p \in Products |-> Replay(Contents(docs), p)],
         expenses |-> {x \in Spendings : from <= x.date /\ x.date <= q.to
                                         /\ Passes(q.expenseCategory, x.category)}]

(* The lines of one kind of document: <<document, product>>. *)
LinesOf(snap, kind) ==
    {line \in Documents \X Products :
        snap.documents[line[1]].doc.kind = kind /\ snap.documents[line[1]].doc.items[line[2]] > 0}

Units(snap, line) == snap.documents[line[1]].doc.items[line[2]]

(* saleAmounts: the discount is the line's. *)
Revenue(snap, line) == Grain * (Units(snap, line) * Deals[line[1]].price - Deals[line[1]].discount)
CostOfGoods(snap, line) == Units(snap, line) * snap.documents[line[1]].snapshot[line[2]]

RevenueOf(snap, sales) == SumFunction([s \in sales |-> Revenue(snap, s)])
CostOf(snap, sales) == SumFunction([s \in sales |-> CostOfGoods(snap, s)])
UnitsOf(snap, lines) == SumFunction([l \in lines |-> Units(snap, l)])
SpentOn(expenses) == SumFunction([x \in expenses |-> x.amount])

(* roundMoney: half away from zero, parts \div per in all. *)
Round(parts, per) ==
    IF parts >= 0 THEN (2 * parts + per) \div (2 * per) ELSE -((2 * (-parts) + per) \div (2 * per))
RoundMoney(parts) == Round(parts, Grain)

StockStatus(snap, p) ==
    IF snap.position[p].quantity <= 0 THEN "OUT_OF_STOCK"
    ELSE IF snap.position[p].quantity <= Shelf[p].low THEN "LOW_STOCK" ELSE "IN_STOCK"

(* The products a query selects; its period, channel and expense category   *)
(* do not matter here.                                                      *)
SelectProducts(snap, q) ==
    {p \in Products :
        /\ Passes(q.product, p) /\ Passes(q.category, Shelf[p].category)
        /\ q.supplier = Unset
           \/ \E line \in LinesOf(snap, "purchase") : line[2] = p /\ Deals[line[1]].party = q.supplier
        /\ Says(Shelf[p].words, q.search)
        /\ q.stock = Unset \/ q.stock = StockStatus(snap, p)}

SaleMatches(snap, line, q) ==
    InRange(snap.documents[line[1]].doc.date, q) /\ Passes(q.channel, Deals[line[1]].party)

SaleRows(snap, products, q) ==
    {line \in LinesOf(snap, "sale") : line[2] \in products /\ SaleMatches(snap, line, q)}

PurchaseRows(snap, products, q) ==
    {line \in LinesOf(snap, "purchase") :
        /\ line[2] \in products /\ InRange(snap.documents[line[1]].doc.date, q)
        /\ Passes(q.supplier, Deals[line[1]].party)}

SelectedExpenses(snap, q) ==
    {x \in snap.expenses : InRange(x.date, q) /\ Passes(q.expenseCategory, x.category)}

ProductRow(snap, p, q) ==
    LET sold == SaleRows(snap, {p}, q)
        revenue == RevenueOf(snap, sold)
        cost == CostOf(snap, sold)
    IN  [revenue |-> RoundMoney(revenue), costOfGoods |-> RoundMoney(cost),
         grossProfit |-> RoundMoney(revenue - cost),
         unitsSold |-> UnitsOf(snap, sold),
         currentStock |-> snap.position[p].quantity,
         inventoryValue |-> Round(snap.position[p].value[1], snap.position[p].value[2])]

-----------------------------------------------------------------------------
Totals(snap, sales, expenses) ==
    LET revenue == RevenueOf(snap, sales)
        cost == CostOf(snap, sales)
        recurring == SpentOn({x \in expenses : x.recurring})
        operating == SpentOn({x \in expenses : ~x.recurring})
    IN  [revenue |-> RoundMoney(revenue), costOfGoods |-> RoundMoney(cost),
         grossProfit |-> RoundMoney(revenue - cost),
         operatingExpenses |-> RoundMoney(operating), recurringExpenses |-> RoundMoney(recurring),
         totalExpenses |-> RoundMoney(operating + recurring),
         netProfit |-> RoundMoney(revenue - cost - operating - recurring),
         unitsSold |-> UnitsOf(snap, sales),
         orderCount |-> Cardinality({s[1] : s \in sales})]

PeriodTotals(snap, products, q) ==
    Totals(snap, SaleRows(snap, products, q), SelectedExpenses(snap, q))

At(q, range) == [q EXCEPT !.from = range.from, !.to = range.to]

Dashboard(snap, products, q) ==
    [current |-> PeriodTotals(snap, products, q),
     previous |-> PeriodTotals(snap, products, At(q, PreviousReportRange(q))),
     currentStock |-> SumFunction([p \in products |-> snap.position[p].quantity]),
     low |-> Cardinality({p \in products : StockStatus(snap, p) = "LOW_STOCK"}),
     out |-> Cardinality({p \in products : StockStatus(snap, p) = "OUT_OF_STOCK"})]

(* By category and by the name it had when it was charged. *)
Breakdown(expenses) ==
    {[category |-> k[1], label |-> k[2],
      amount |-> SpentOn({x \in expenses : <<x.category, x.label>> = k})]
        : k \in {<<x.category, x.label>> : x \in expenses}}

MonthlyRows(snap, products, q) ==
    [i \in DOMAIN MonthsOf(q) |-> PeriodTotals(snap, products, At(q, MonthsOf(q)[i]))]

(* getExportDataset, from one snapshot. *)
ExportDataset(q) ==
    LET snap == Read(q, TRUE)
        products == SelectProducts(snap, q)
    IN  [snap |-> snap, summary |-> Dashboard(snap, products, q),
         products |-> [p \in products |-> ProductRow(snap, p, q)],
         purchases |-> PurchaseRows(snap, products, q),
         sales |-> SaleRows(snap, products, q),
         months |-> MonthlyRows(snap, products, q),
         breakdown |-> Breakdown(SelectedExpenses(snap, q))]

(* getDashboard *)
DashboardOf(q) == LET snap == Read(q, TRUE) IN Dashboard(snap, SelectProducts(snap, q), q)

-----------------------------------------------------------------------------
(* The lists of documents and expenses, and their exports.                  *)

(* A set in an order, a set of pairs: each has those before it before it.   *)
Sorted(S, before) ==
    [i \in 1..Cardinality(S) |-> CHOOSE x \in S : Cardinality({y \in S : <<y, x>> \in before}) = i - 1]

(* "dateDesc" and "dateAsc": date and createdAt in that direction, then id. *)
ByDate(asc, x, y) ==
    LET before(a, b) == IF asc THEN a < b ELSE a > b IN
    \/ before(x.date, y.date)
    \/ x.date = y.date /\ (before(x.created, y.created) \/ (x.created = y.created /\ x.id < y.id))

ByAmount(asc, x, y) ==
    (IF asc THEN x.amount < y.amount ELSE x.amount > y.amount) \/ (x.amount = y.amount /\ x.id < y.id)

(* purchaseTotal, saleTotals: the revenue or, of "profit", the gross profit. *)
DocumentTotal(snap, e, sort) ==
    LET lines == {line \in LinesOf(snap, snap.documents[e].doc.kind) : line[1] = e} IN
    IF snap.documents[e].doc.kind = "purchase"
    THEN Grain * UnitsOf(snap, lines) * snap.documents[e].doc.cost
    ELSE RevenueOf(snap, lines) - (IF sort = "profit" THEN CostOf(snap, lines) ELSE 0)

Ordered(snap, S, q) ==
    LET key(e) == [id |-> e, date |-> snap.documents[e].doc.date, created |-> snap.documents[e].doc.created,
                   amount |-> DocumentTotal(snap, e, q.sort)]
        before == {r \in S \X S : IF q.sort = "date" THEN ByDate(q.asc, key(r[1]), key(r[2]))
                                  ELSE ByAmount(q.asc, key(r[1]), key(r[2]))}
    IN  Sorted(S, before)

FitsList(snap, e, kind, q) ==
    /\ snap.documents[e].doc.kind = kind
    /\ InRange(snap.documents[e].doc.date, q) /\ Passes(q.party, Deals[e].party)

OfFilter(p, q) == Passes(q.product, p) /\ Passes(q.category, Shelf[p].category)

(* listWhere: one line fits the filter, and the number or one line's        *)
(* product says what is searched for.                                       *)
Listed(snap, kind, q) ==
    LET lines(e) == {line[2] : line \in {l \in LinesOf(snap, kind) : l[1] = e}} IN
    {e \in Documents :
        /\ FitsList(snap, e, kind, q)
        /\ \E p \in lines(e) : OfFilter(p, q)
        /\ Says(Deals[e].words, q.search) \/ \E p \in lines(e) : Says(Shelf[p].words, q.search)}

(* purchaseExportRows, saleExportRows: both of one line. *)
Exported(snap, kind, q) ==
    {line[1] : line \in {l \in LinesOf(snap, kind) :
        /\ FitsList(snap, l[1], kind, q)
        /\ OfFilter(l[2], q)
        /\ Says(Deals[l[1]].words, q.search) \/ Says(Shelf[l[2]].words, q.search)}}

(* The expenses' list and its export: by date, or by amount and then the    *)
(* latest first.                                                            *)
SpendingFits(x, q) == InRange(x.date, q) /\ Passes(q.category, x.category) /\ Says(x.words, q.search)

SpendingBefore(q, x, y) ==
    IF q.sort = "date" THEN ByDate(q.asc, x, y)
    ELSE \/ IF q.asc THEN x.amount < y.amount ELSE x.amount > y.amount
         \/ x.amount = y.amount /\ (x.date > y.date \/ (x.date = y.date /\ x.id < y.id))

SpendingRows(q) ==
    LET rows == {x \in Spendings : SpendingFits(x, q)}
    IN  Sorted(rows, {r \in rows \X rows : SpendingBefore(q, r[1], r[2])})

-----------------------------------------------------------------------------
(* Two numbers that differ by no more than n roundings. *)
Near(a, b, n) == 2 * (a - b) <= n /\ 2 * (b - a) <= n

Amounts == {"revenue", "costOfGoods", "grossProfit", "operatingExpenses", "recurringExpenses",
            "totalExpenses", "netProfit"}

(* The parts of one export tell the same story.  The months it is cut into, *)
(* and the products, add up to its totals but for the rounding of each, and *)
(* the expenses by category to the cent.  Its lines are those its totals     *)
(* count.  What it is compared with is what the dashboard of that period     *)
(* says of itself.  And no period, channel or search changes the stock of a  *)
(* product: what was bought less what was sold.                              *)
PartsAgree(q) ==
    LET r == ExportDataset(q)
        total == r.summary.current
        overMonths(a) == SumFunction([i \in DOMAIN r.months |-> r.months[i][a]])
        overProducts(a) == SumFunction([p \in DOMAIN r.products |-> r.products[p][a]])
        linesOf(kind, p) == {l \in LinesOf(r.snap, kind) : l[2] = p}
    IN  /\ \A a \in Amounts : Near(total[a], overMonths(a), Cardinality(DOMAIN r.months) + 1)
        /\ \A a \in {"unitsSold", "orderCount"} : total[a] = overMonths(a)
        /\ \A a \in {"revenue", "costOfGoods", "grossProfit"} :
             Near(total[a], overProducts(a), Cardinality(DOMAIN r.products) + 1)
        /\ total.totalExpenses = RoundMoney(SumFunction([b \in r.breakdown |-> b.amount]))
        /\ total.revenue = RoundMoney(RevenueOf(r.snap, r.sales))
        /\ r.summary.previous = DashboardOf(At(q, PreviousReportRange(q))).current
        /\ \A p \in DOMAIN r.products :
             r.products[p].currentStock =
                UnitsOf(r.snap, linesOf("purchase", p)) - UnitsOf(r.snap, linesOf("sale", p))

(* The members of part stand in the list, in the same order. *)
StandsIn(part, list) ==
    /\ Range(part) \subseteq Range(list)
    /\ \A i, j \in DOMAIN part : \A k, l \in DOMAIN list :
          list[k] = part[i] /\ list[l] = part[j] => (i < j <=> k < l)

SameAsListed(kind, q) ==
    LET snap == [documents |-> docs]
        listed == Ordered(snap, Listed(snap, kind, q), q)
        exported == Ordered(snap, Exported(snap, kind, q), q)
    IN  /\ StandsIn(exported, listed)
        /\ q.search = Unset \/ (q.product = Unset /\ q.category = Unset) => exported = listed

(* Without a filter by product the exported documents are the period's.     *)
AddsUp(q) ==
    LET snap == [documents |-> docs, expenses |-> Spendings]
        asked == [from |-> q.from, to |-> q.to, channel |-> q.party, expenseCategory |-> Unset]
        report == PeriodTotals(snap, Products, asked)
        over(sort) == SumFunction([e \in Exported(snap, "sale", q) |-> DocumentTotal(snap, e, sort)])
        rows == SpendingRows(q)
    IN  /\ report.revenue = RoundMoney(over("revenue"))
        /\ report.grossProfit = RoundMoney(over("profit"))
        /\ report.totalExpenses = RoundMoney(SumFunction([i \in DOMAIN rows |-> rows[i].amount]))

(* A report's transaction sees the documents between two commits.           *)
AtRest == \A w \in Writers : ~tx[w].open

(* The figures of every export agree with each other (PartsAgree), and this      *)
(* month is compared with what "previous month" shows.                       *)
ReportsAgree ==
    AtRest => \A q \in ReportQueries :
        /\ PartsAgree(q)
        /\ PreviousReportRange(PresetRange("thisMonth", q.to)) = PresetRange("previousMonth", q.to)

(* A list and the export of what it shows: the same order, and the same      *)
(* documents, but that the export wants one line to fit both a filter by     *)
(* product and a search.  What is exported of a period, its sales and its    *)
(* expenses, adds up to that period's report.                                *)
ExportsAsListed ==
    AtRest => \A q \in ListQueries :
        /\ SameAsListed("purchase", q) /\ SameAsListed("sale", q)
        /\ q.product = Unset /\ q.category = Unset /\ q.search = Unset => AddsUp(q)

(* Both: whatever view of a period is exported, the figures are the same.    *)
FiguresAgree == ReportsAgree /\ ExportsAsListed
=============================================================================
