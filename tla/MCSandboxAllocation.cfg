\* Two requests at a time, two keys, two baskets, and a sequence that runs out.
CONSTANTS
    r1 = r1
    r2 = r2
    k1 = k1
    k2 = k2
    b1 = b1
    b2 = b2
    Requests = {r1, r2}
    Keys = {k1, k2}
    Baskets = {b1, b2}
    Capacity = 2
SPECIFICATION FairSpec
INVARIANTS InitOnce NoneWasted AnswersBacked
PROPERTIES RowsFinal AllAnswered
