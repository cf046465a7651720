SPECIFICATION FairSpec
CONSTANTS
    MaxToolIterations = 2
    MaxCalls = 2
    MaxDeltas = 1
CHECK_DEADLOCK FALSE
INVARIANTS
    CallsAnswered
    ModeConfined
    QueryGuarded
    OneEnding
PROPERTIES
    SqlNeverAborts
    TurnEnds
