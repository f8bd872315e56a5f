CONSTANTS
    Rels <- MCRels
    RuleNames <- MCRuleNames
    IdxNames <- MCIdxNames
    Cols <- MCCols
    Clauses <- MCClauses
    ClauseRefs <- MCClauseRefs
    IdxParams <- MCIdxParams
    NameOrder <- MCNameOrder
    States <- MCStates
    MaxMigrations = 3
    MaxFailures = 0
    StrictRefs = TRUE
    None = None
SPECIFICATION Spec
INVARIANT StoreMatchesRecorded
