\* Two requests that race for one key, the shop's two prices, cards enabled:
\* orders on delivery go the way they go without cards.
CONSTANTS
    r1 = r1
    r2 = r2
    k1 = k1
    p1 = p1
    p2 = p2
    Requests = {r1, r2}
    Keys = {k1}
    Prices = {p1, p2}
    CardEnabled = TRUE
SPECIFICATION FairSpec
INVARIANTS TruthTold OneInitialization
PROPERTIES OrderFinal Notified
