CONSTANTS
    Names = {"default", "sales"}
    DefaultKG = "default"
    InitialKG = "default"
    None = None
    MaxSteps = 4
    MaxReconnects = 1
    Cmps <- MCCmps
    Joins <- MCJoins
    MaxDepth = 1
SPECIFICATION Spec
INVARIANT QueryReadsOneKG
CHECK_DEADLOCK FALSE
