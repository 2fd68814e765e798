\* Two threads outside the pool, two workers, and three keys in chunks of
\* two, so that the second chunk is short.
SPECIFICATION Spec
CONSTANTS
    Outsiders = {a, b}
    Workers = {u, v}
    NKeys = 3
    ChunkSize = 2
    MaxCalls = 2
INVARIANT AccessRejectedDuringBatch
CHECK_DEADLOCK FALSE
