\* Two threads, three payloads of which any may share a body, small and oversized
\* descriptors; two calls, the process may be killed; fair scheduling of the threads.
SPECIFICATION FirstBodySpec
CONSTANTS
    Worker = {w1, w2}
    Body = {b1, b2}
    N = 3
    Sizes = {1, 3}
    Limit = 2
    MaxCalls = 2
    MayCrash = TRUE
INVARIANTS BytesBounded CauseIsReported BodiesWrittenOnce EndsClean
PROPERTIES PublishesAllOrNothing CallEnds
