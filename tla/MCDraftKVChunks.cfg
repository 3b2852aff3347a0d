SPECIFICATION DraftSpec
CONSTANTS
    Req = {r1, r2}
    NumBlocks = 8
    BlockSize = 2
    PromptLen = 5
    MaxLen = 6
    Widths = {0, 1}
    Configs <- Cached
    IngestChunk = 2
    DecodeIngestMax = 2
    SameStepHits = TRUE
    MaxPreempts = 0
INVARIANTS TrackedKVValid
CHECK_DEADLOCK FALSE
