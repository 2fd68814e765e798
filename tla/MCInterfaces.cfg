SPECIFICATION MCSpec
CONSTANTS
    linear = linear
    bounds = bounds
    quadratic = quadratic
    detected = detected
    conic = conic
    matrix = matrix
    switches = switches
    specialsets = specialsets
    growth = growth
    Solvers = {"mosek", "clarabel", "highs", "gurobi", "scip", "gams", "baron"}
    Scenes = {linear, bounds, quadratic, detected, conic, matrix, switches, specialsets, growth}
    Variants = {1, 2, 3}
    ParameterValues = {0, 1, 2}
    Snapshots <- MCSnapshots
    Points <- MCPoints
    Models = {1, 2, 3}
    RootModel = 1
    MaxItems = 3
    MaxSteps = 5
    Sign = 2
    Offset = 3
    MaxSlots = 4
    W = 2
    Values = {0, 1}
    Absent = Absent
    LpNames <- MCLpNames
    Sanitized <- MCSanitized
    Sentinel = 999
    ProblemName <- MCProblemName
    Written <- MCWritten
    Given <- MCGiven
    Grid <- MCGrid
    MaxReads = 2
INVARIANTS
    ResidentMeansModel
    MultipliersReachTheirSource
    AnswersAreSupported
    CertifiedPricesAreOptimal
    ProjectedCoordinatesAreTheSources
    CertificatesFollowIncumbent
    WrapperKeepsOwnCoordinates
    FilesKeepTheModel
PROPERTY ImplementsSolutionMap
\* A projection ends its behaviour, and a file is read a bounded number of times.
CHECK_DEADLOCK FALSE
