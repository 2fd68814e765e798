SPECIFICATION LifecycleSpec
CONSTANTS
    r1 = r1
    r2 = r2
    Zero = Zero
    Negative = Negative
    ZeroRoot = "zero"
    Feasibility = Feasibility
    Undeclared = Undeclared
    None = None
    Params = {"p", "q"}
    Values = {Zero, Negative}
    Vars = {"x"}
    Rows = {r1, r2}
    Roots = {"zero", "affine", "square", "mixed"}
    Quadratics = {"square", "mixed"}
    Deps <- LifecycleDeps
    ConeVar <- LifecycleConeVar
    MaxRevision = 1
SYMMETRY RowSymmetry
INVARIANTS ContextIsFresh CacheIsFresh ChangeIsComplete
CHECK_DEADLOCK FALSE
