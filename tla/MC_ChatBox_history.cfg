SPECIFICATION Spec
CONSTANTS
    Requests = {r1, r2, r3}
    MaxHistory = 2
    MaxTurns = 2
    MaxContent = 1
    MaxRounds = 2
    RoundLength = 1
    None = none
CHECK_DEADLOCK FALSE
INVARIANT HistoryAccepted
