SPECIFICATION Spec
CONSTANTS
  Declarations <- MCDeclarations
  Ranges <- MCRanges
  FunctionValues <- MCFunctionValues
  SetValues <- MCSetValues
  Origins <- MCOrigins
  ZeroRoot = "zero"
  MaxRecords = 3
  MaxCalls = 4
INVARIANTS RowsLowerRecords LookupsAgree
PROPERTY ImplementsDeclaredConstraints
CHECK_DEADLOCK FALSE
