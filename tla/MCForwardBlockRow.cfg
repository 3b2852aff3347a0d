SPECIFICATION MCSpec
CONSTANTS
    AtTables <- TablesTried
    AtStarts <- StartsTried
    AtLayers <- LayersTried
    AtBlock = 2
    AtPrompt = 4
    AtMaxLen = 6
    AtImage <- ImageTried
    AtWindowQ = 2
    AtBatched = 5
    AtBQ = 2
    AtNaxBQ = 3
    AtPart = 2
    AtWindowRows = 2
    AtMinWork = 8
    AtMinPrefill = 2
    AtMaxSteps = 2
    VpReqs = {1, 2}
    VpFamilies <- Families
    VpPrompts <- PromptsTried
    VpTowerLoRA = {TRUE, FALSE}
    VpBudget = 5
    VpCapacity = 5
    VpTowerFrames = 1
    VpMaxNew = 2
    VpMaxSteps = 4
    BdReqs = {1, 2}
    BdPrompts <- DraftPrompts
    BdConstrained <- Unconstrained
    BdCheckpoints <- CheckpointsTried
    BdCaching = {TRUE}
    BdTargetLayers = 2
    BdPageSize = 2
    BdPages = 6
    BdTargetLen = 6
    BdDraftLen = 5
    BdMaxTokens = 4
    BdBucket = 2
    BdBoundary = 4
    BdMaxSteps = 4
    NgReqs = {1}
    NgPrompt = 2
    NgLookupMin = 3
    NgWidth = 2
    NgMisses = 2
    NgCooldown = 2
    NgStrides = {0, 4}
    NgMaxTokens = 5
    NgMaxLen = 7
    NgMaxSteps = 10
    MtReqs = {1, 2}
    MtPrompt = 2
    MtSampled = {2}
    MtTargets <- MtTargetsTried
    MtAssistants <- MtAssistantsTried
    MtWidth = 2
    MtMaxTokens = 3
    MtMaxLoads = 2
    MtMaxSteps = 3
    Reqs = {r1, r2}
    Blocks = {1, 2, 3, 4}
    PoolRows = {1, 2}
    Factor = 2
    PromptLen = 2
    MaxSteps = 5
    MaxSleeps = 1
INVARIANTS BlockRowsServed
CHECK_DEADLOCK FALSE
