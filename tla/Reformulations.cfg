CONSTANTS
  Names <- MCNames
  Numbers <- MCNumbers
  Huge = 50
  MaxVars = 9
  MaxParameterRevision = 3
  Fallbacks = {0, 9}
  MaxCalls = 3
  Grid <- MCGrid
SPECIFICATION Spec
INVARIANTS KindIsCurrent RowsMatchSource BoundsStayFeasible
CHECK_DEADLOCK FALSE
