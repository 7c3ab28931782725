\* Two calls and two cookie operations in the tab; two requests at the
\* server, two sessions over time and one logout.
CONSTANTS
    r1 = r1
    r2 = r2
    c1 = c1
    c2 = c2
    o1 = o1
    o2 = o2
    Requests = {r1, r2}
    Calls = {c1, c2}
    Operations = {o1, o2}
    MaxSessions = 2
    MaxLogouts = 1
SPECIFICATION Spec
SYMMETRY Symmetric
INVARIANTS SessionsHeld RotatedOnce
PROPERTIES StaleWorkIgnored AuthSpec
