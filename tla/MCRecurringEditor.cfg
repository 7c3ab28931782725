\* The editor resumes a template.
\* The calendar ends, and with it the run.
CONSTANTS
    r1 = r1
    t1 = t1
    t2 = t2
    Requests = {r1}
    Lengths <- ThreeMonths
    Terms = {t1, t2}
    Starts = {2, 4}
    Ends = {3}
SPECIFICATION RecurringSpec
SYMMETRY Symmetric
PROPERTIES ChangesLookForward
CHECK_DEADLOCK FALSE
