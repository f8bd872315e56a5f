CONSTANTS
    Names = {"default", "sales"}
    DefaultKG = "default"
    InitialKG = None
    None = None
    MaxSteps = 4
    MaxReconnects = 1
    Cmps <- MCCmps
    Joins <- MCJoins
    MaxDepth = 2
SPECIFICATION Spec
INVARIANT HandleTargetsItsKG
CHECK_DEADLOCK FALSE
