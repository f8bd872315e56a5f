CONSTANTS
    Keys <- MCKeys3
    Bases <- MCBases
    ColVar <- MCColVar3
    DelKeys <- MCDelKeys1
    DelVar <- MCDelVar1
    Modes <- MCModesAll
SPECIFICATION Spec
INVARIANT TypeOK
INVARIANT NoAccidentalJoin
PROPERTY ImplementsVarClasses
