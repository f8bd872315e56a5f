CONSTANTS
    Docs <- MCDocs
    MaxRuns = 2
SPECIFICATION Spec
INVARIANT MigrationIdempotent
CHECK_DEADLOCK FALSE
