CONSTANTS
    Req = {r1, r2}
    QueueDepth = 2
    MaxSteps = 10
    PromptLen = 1
    MaxLen = 3
    MaxPreempts = 1
    MaxArrivals = 2
SPECIFICATION FairRunnerSpec
PROPERTIES RequestsEnd EveryStepConsumed
CHECK_DEADLOCK FALSE
