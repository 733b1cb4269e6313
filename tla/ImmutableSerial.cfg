\* One process at a time, two exemplars with one body; five calls, two of them killed, one failed operation.
SPECIFICATION Spec
CONSTANTS
    t1 = t1
    t2 = t2
    b1 = b1
    b2 = b2
    Proc = {p1}
    Tx = {t1, t2}
    Body = {b1, b2}
    BodyOf <- SharedBody
    MaxCalls = 5
    MaxCrashes = 2
    MaxErrors = 1
    MaxLive = 1
INVARIANT ReceiptsAreBacked
PROPERTIES BoundStays QuarantineHasCause
