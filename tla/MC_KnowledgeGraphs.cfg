CONSTANTS
    Names = {"default", "sales"}
    DefaultKG = "default"
    InitialKG = None
    None = None
    MaxSteps = 3
    MaxReconnects = 1
    Cmps <- MCCmps
    Joins <- MCJoins
    MaxDepth = 2
SPECIFICATION Spec
INVARIANT TypeOK
INVARIANT CompilesUnlessOrBelowRoot
INVARIANT SplitQueriesFilterLikeWhere
CHECK_DEADLOCK FALSE
