\* Two threads outside the pool, two workers, and three keys in chunks of
\* two, so that the second chunk is short.
SPECIFICATION FairSpec
CONSTANTS
    Outsiders = {a, b}
    Workers = {u, v}
    NKeys = 3
    ChunkSize = 2
    MaxCalls = 2
INVARIANTS BitsMatchGuards WaitersHoldNothing RoutingEndsWithRule ForksAreCurrent HandlesDenote
PROPERTIES ParallelMatchesSequential CallsAndBatchesEnd
CHECK_DEADLOCK FALSE
