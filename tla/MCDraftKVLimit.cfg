SPECIFICATION DraftSpec
CONSTANTS
    Req = {r1}
    NumBlocks = 8
    BlockSize = 2
    PromptLen = 2
    MaxLen = 7
    Widths = {0, 1, 4}
    Configs <- Capped
    IngestChunk = 2
    DecodeIngestMax = 2
    SameStepHits = FALSE
    MaxPreempts = 0
INVARIANTS TrackedKVValid
CHECK_DEADLOCK FALSE
