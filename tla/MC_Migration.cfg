CONSTANTS
    Rels <- MCRels
    RuleNames <- MCRuleNames
    IdxNames <- MCIdxNames
    Cols <- MCCols
    Clauses <- MCClauses
    ClauseRefs <- MCClauseRefs
    IdxParams <- MCIdxParams
    NameOrder <- MCNameOrder
    States <- MCStates
    MaxMigrations = 3
    MaxFailures = 1
    StrictRefs = FALSE
    None = None
SPECIFICATION Spec
INVARIANT TypeOK
INVARIANT RecordedIsPrefix
INVARIANT MigrateAppliesPending
INVARIANT RevertToLandsOnTarget
INVARIANT StoreMatchesRecorded
