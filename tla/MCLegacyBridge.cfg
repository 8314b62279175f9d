SPECIFICATION Spec
CONSTANTS
    r1 = r1
    r2 = r2
    k1 = k1
    k2 = k2
    x1 = x1
    x2 = x2
    p1 = p1
    p2 = p2
    Rows = {r1, r2}
    Skus = {k1, k2}
    Stubs <- MCStubs
    Accounts = {a1, a2}
    Prices = {p1, p2, None}
    Limits = {l1, l2}
    None = None
    MaxWrites = 2
SYMMETRY Symmetry
INVARIANTS
    BridgeTypeOK
PROPERTIES
    DriftComesFromLegacy
CHECK_DEADLOCK FALSE
