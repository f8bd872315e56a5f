CONSTANTS
    Keys <- MCKeys
    Bases <- MCBases
    ColVar <- MCColVar
    DelKeys <- MCDelKeys
    DelVar <- MCDelVar
    Modes <- MCModesAll
SPECIFICATION Spec
INVARIANT UnifiedColumnsShareVariable
