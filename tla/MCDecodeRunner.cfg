CONSTANTS
    Req = {r1, r2}
    QueueDepth = 2
    MaxSteps = 20
    PromptLen = 2
    MaxLen = 5
    MaxPreempts = 1
    MaxArrivals = 2
SPECIFICATION RunnerSpec
INVARIANTS NoDesync SlotHoldsOldest NoStateDesync ForwardSound PlaceholderOwned RunnerMatchesScheduler NoLeak
PROPERTIES ImplementsTokenStream OutputsInOrder
SYMMETRY Symmetry
CHECK_DEADLOCK FALSE
