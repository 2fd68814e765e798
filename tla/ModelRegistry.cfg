SPECIFICATION RegistrySpec
CONSTANTS
    Models = {m1, m2, m3}
    Registries = {variables}
    Values = {v0, v1}
    Arcs = {a1, a2}
    Handles = {h1}
    Empty = v0
    None = None
    MaxRevision = 2
SYMMETRY Symmetry
INVARIANTS KeySound
PROPERTIES GuardedStable ImplementsIndependentModels
CHECK_DEADLOCK FALSE
