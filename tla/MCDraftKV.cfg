SPECIFICATION DraftSpec
CONSTANTS
    Req = {r1, r2}
    NumBlocks = 5
    BlockSize = 2
    PromptLen = 3
    MaxLen = 6
    Widths = {0, 1, 2}
    Configs <- Covered
    IngestChunk = 2
    DecodeIngestMax = 2
    SameStepHits = FALSE
    MaxPreempts = 1
INVARIANTS TrackedKVValid CachedKVValid NoProposerError
SYMMETRY Symmetry
CHECK_DEADLOCK FALSE
