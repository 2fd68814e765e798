SPECIFICATION Spec
CONSTANTS
    Zero = Zero
    Negative = Negative
    ZeroRoot = "zero"
    Feasibility = Feasibility
    Undeclared = Undeclared
    None = None
    Unsolved = Unsolved
    Rejected = Rejected
    Failed = Failed
    Params = {"p", "q"}
    Values = {Zero, Negative}
    Vars = {"x"}
    Rows = {r}
    Roots = {"zero", "affine", "square", "gain"}
    Quadratics = {"square"}
    Maximized = {"gain"}
    Supported = {"LP", "QP"}
    Deps <- MCDeps
    ConeVar <- MCConeVar
    MaxRevision = 2
INVARIANTS ResidentMatchesBaseline
PROPERTY ImplementsColdSolve
CHECK_DEADLOCK FALSE
