\* Two runs of the tool at a time, three deployments of three releases, of
\* which one lacks a file of the others,
\* an opening ledger of two entries and one document more, of the day before
\* the opening or of the opening day.
\* An operator may run nothing more.
CONSTANTS
    r1 = r1
    r2 = r2
    Runs = {r1, r2}
    MaxSent = 2
    d1 = d1
    d2 = d2
    d3 = d3
    Deployments = {d1, d2, d3}
    MaxRelease = 2
    f1 = f1
    f2 = f2
    Paths = {f1, f2}
    FilesOf <- OneFileDropped
    p1 = p1
    w1 = w1
    Products = {p1}
    Documents = {1, 2, 3}
    Writers = {w1}
    Dates = {1, 2}
    Creations = {1, 2, 3}
    MaxQuantity = 1
    Costs = {1, 2}
    Grain = 10
    Opening <- OneSold
    OpeningCost = 1
    OpeningDate = 2
    Purchase = Purchase
SPECIFICATION MCSpec
INVARIANTS EvidenceTrue Restorable
PROPERTIES OutcomeRecorded RevisionTrue OpeningAsApproved
CHECK_DEADLOCK FALSE
