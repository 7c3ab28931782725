\* One writer, two products: every history of three documents, and the
\* reports after each.
CONSTANTS
    p1 = p1
    p2 = p2
    w1 = w1
    Products = {p1, p2}
    Documents = {1, 2, 3}
    Writers = {w1}
    Dates = {1, 2}
    Creations = {1}
    MaxQuantity = 1
    Costs = {1, 2}
    Grain = 10
    Unset = Unset
    Shelf <- SmallShelf
    Deals <- SmallDeals
    Spendings <- SmallSpendings
    MonthStarts <- Months
    YearStarts <- Years
    ReportQueries <- SmallReports
    ListQueries <- SmallLists
SPECIFICATION LedgerSpec
INVARIANTS NeverOversold CostsSound FiguresAgree
