\* One call, two cookie operations and one logout: who waits for whom.
CONSTANTS
    r1 = r1
    c1 = c1
    o1 = o1
    o2 = o2
    Requests = {r1}
    Calls = {c1}
    Operations = {o1, o2}
    MaxSessions = 2
    MaxLogouts = 1
SPECIFICATION FairSpec
PROPERTIES Settles
