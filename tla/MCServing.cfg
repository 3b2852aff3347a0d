SPECIFICATION MCSpec
CONSTANTS
    LpReqs = {1, 2}
    LpPrompts = {1, 3}
    LpBudget = 2
    LpMaxLives = 2
    LpMaxSteps = 3
    SmMixes <- MixesTried
    SmDrafts = 2
    SmPrompt = 2
    SmMaxOuts = 3
    SmMaxSteps = 3
    PpSizes = {2, 3}
    PpLayers = {2, 4}
    PpReqs = {1, 2}
    PpPrompt = 2
    PpMaxOuts = 2
    PpMaxSteps = 4
    PpMaxPreempts = 1
    DfReqs = {d1, d2}
    DfPrompt = 3
    DfCanvas = 2
    DfDenoise = 2
    DfStability = 1
    DfMaxOut = 3
    DfMaxSteps = 4
    DfMaxPreempts = 1
    StRequests <- SpeechRequests
    StModels <- SpeechModels
    StStreams <- SpeechStreams
    StCaching = {TRUE, FALSE}
    StClips <- SpeechClips
    StTimed <- SpeechTimed
    StWindow = 6
    StSearch = 2
    PlModels <- PoolingModels
    PlReqs = {1, 2}
    PlPrompts <- PoolingPrompts
    PlParams <- PoolingParams
    PlBudget = 3
    PlMaxLives = 2
    PlMaxSteps = 3
    PlMaxPreempts = 1
INVARIANTS PromptScoredOnce SampledAsAsked StagesAgree CanvasCommitted SpeechTranscribed PooledFromWholePrompt
SYMMETRY Symmetry
CHECK_DEADLOCK FALSE
