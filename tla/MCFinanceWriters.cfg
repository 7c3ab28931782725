\* Two writers and one product, documents of one day; or two requests at a
\* time, windows open or closed, a second month that is too short for the
\* first one's date.  That calendar ends, and with it the run.
CONSTANTS
    p1 = p1
    Products = {p1}
    Documents = {1, 2, 3}
    Writers = {r1, r2}
    Dates = {1}
    Creations = {1}
    MaxQuantity = 2
    Costs = {1, 2}
    Grain = 10
    r1 = r1
    r2 = r2
    t1 = t1
    t2 = t2
    Requests = {r1, r2}
    Lengths <- TwoMonths
    Terms = {t1, t2}
    Starts = {2}
    Ends = {3}
SPECIFICATION MCSpec
SYMMETRY Symmetric
PROPERTIES Spec HistoryKept
CHECK_DEADLOCK FALSE
