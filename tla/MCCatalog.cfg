\* Two requests meet in the tree, two calls among the images of a product;
\* two rows, two filters and a page per row in the lists; two records to edit.
CONSTANTS
    c1 = c1
    c2 = c2
    c3 = c3
    b1 = b1
    p1 = p1
    r1 = r1
    r2 = r2
    None = None
    Categories = {c1, c2, c3}
    Brands = {b1}
    Products = {p1}
    Requests = {r1, r2}
    card = card
    detail = detail
    m1 = m1
    m2 = m2
    Images = {1, 2, 3}
    Variants = {card, detail}
    Calls = {m1, m2}
    MaxFaults = 1
    Items = {1, 2}
    Filters = {{1, 2}, {2}}
    a1 = a1
    a2 = a2
    New = New
    Nobody = Nobody
    Records = {a1, a2}
SPECIFICATION MCSpec
SYMMETRY Symmetry
INVARIANTS TreeSound FilesMatchRows OnePrimary PageFaithful ShownAsAsked
PROPERTIES BrandsKept SavesOwnRecord
CHECK_DEADLOCK FALSE
