\* The scenes of MCCheckoutTabs.cfg: what the checkout's test says of a basket
\* that has not changed, of a customer who changes the language.
CONSTANTS
    a = a
    b = b
    p1 = p1
    p2 = p2
    k1 = k1
    k2 = k2
    k3 = k3
    NoKey = NoKey
    Tabs = {a, b}
    Products = {p1, p2}
    c1 = c1
    c2 = c2
    Prices = {c1, c2}
    NoPrice = NoPrice
    Locales = {hy, ru}
    Keys = {k1, k2, k3}
    MaxQuantity = 1
    Refuses = TRUE
    g1 = g1
    g2 = g2
    Ann = Ann
    hy = hy
    ru = ru
    NoBuyer = NoBuyer
    NoOrderKey = 0
    Goods = {g1, g2}
    Buyers = {Ann}
    Tongues = {hy, ru}
    OrderKeys = {1, 2}
    MaxPosted = 2
SPECIFICATION MCSpec
SYMMETRY Symmetric
PROPERTIES NewOnlyIfChanged
CHECK_DEADLOCK FALSE
