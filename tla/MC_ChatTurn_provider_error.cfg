SPECIFICATION Spec
CONSTANTS
    MaxToolIterations = 2
    MaxCalls = 2
    MaxDeltas = 1
CHECK_DEADLOCK FALSE
INVARIANT ProviderFailureIsError
