SPECIFICATION Spec
\* The instance stops when the turn has ended.
CHECK_DEADLOCK FALSE
CONSTANTS
    MaxIterations = 2
    RetryMax = 2
    MaxBatches = 2
    MaxChain = 2
    MaxSteers = 1
PROPERTIES
    RestartShowsNothing
