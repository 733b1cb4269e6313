\* Two calls at a time, commit() or recover(), one of them killed or meeting a failed operation.
SPECIFICATION Spec
CONSTANTS
    t1 = t1
    t2 = t2
    b1 = b1
    b2 = b2
    Proc = {p1, p2}
    Tx = {t1, t2}
    Body = {b1, b2}
    BodyOf <- SharedBody
    MaxCalls = 3
    MaxCrashes = 1
    MaxErrors = 1
    MaxLive = 2
SYMMETRY Symmetry
INVARIANTS InventoryIsBacked OneWriter
PROPERTIES PackageIsImmutable
