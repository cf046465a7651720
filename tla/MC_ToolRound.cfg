SPECIFICATION Spec
CONSTANTS
    AdsTables = {"ads"}
    BlockedFunctions = {"pg_sleep"}
    MaxRows = 2
    MaxCalls = 2
    MaxPieces = 2
    Queries <- MCQueries
    Sizes = {0, 1, 2, 3}
CHECK_DEADLOCK FALSE
INVARIANTS
    CallsWhole
    NoGuessedArguments
    GuardExact
    RowsHonest
