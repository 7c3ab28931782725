\* Two concurrent requests on one payment, of any kinds, one after another.
CONSTANTS
    r1 = r1
    r2 = r2
    Requests = {r1, r2}
    RecheckDelay = 1
    CancellationWindow = 1
    OwnerLifetime = 1
    MaxTime = 2
SPECIFICATION FairSpec
INVARIANTS SubmittedAsRecorded RowBacked
PROPERTIES FencedByAttempt ImplementsLifecycle Reconciled
\* A settled payment is at rest: nothing is left to do once the clock stops.
CHECK_DEADLOCK FALSE
