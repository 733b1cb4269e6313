\* Two writers with exemplars of their own, nothing fails.
SPECIFICATION Spec
CONSTANTS
    t1 = t1
    t2 = t2
    b1 = b1
    b2 = b2
    Proc = {p1, p2}
    Tx = {t1, t2}
    Body = {b1, b2}
    BodyOf <- OwnBodies
    MaxCalls = 2
    MaxCrashes = 0
    MaxErrors = 0
    MaxLive = 2
SYMMETRY Symmetry
INVARIANTS CommittedIsBound
