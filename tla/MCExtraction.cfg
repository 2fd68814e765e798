SPECIFICATION MCSpec
CONSTANTS
  Vars = {0, 1}
  P = 7
  MaxEagerCoefficients = 1
  MaxEagerNodes = 3
  MinTerms = 3
  Points <- MCPoints
  Settings = {0, 2}
  Scalars = {0, 2, 3}
  MaxHandles = 6
  Graph <- MCGraph
  Shapes <- MCShapes
  Base <- MCBase
  Vertices = {0, 1, 2, 3, 4}
    t1 = t1
    t2 = t2
    c1 = c1
    c2 = c2
    c3 = c3
    c4 = c4
    c5 = c5
    one = one
    two = two
    failing = failing
    oversize = oversize
    small = small
    large = large
    huge = huge
    cancelling = cancelling
    slotA = slotA
    slotB = slotB
    Failure = Failure
    None = None
    Threads = {t1, t2}
    Cells = {c1, c2, c3, c4, c5}
    MaxRoots = 3
    Capacity = 2
    Budget = 2
INVARIANTS MeaningIsKept TermsAreExact QueuesAccount OracleIsCurrent EntriesAreRecovered
PROPERTIES SuccessSticks CallsReturn
CHECK_DEADLOCK FALSE
