SPECIFICATION HybridSpec
CONSTANTS
    Req = {r1, r2}
    Block = {b1, b2, b3, b4, b5}
    BlockSize = 2
    PromptLen = 3
    Shared = 2
    MaxLen = 6
    MaxDraft = 2
    MaxPreempts = 1
    NoBlock = NoBlock
INVARIANTS StateFollowsTokens CheckpointsExact KVSurvivesStateWrites RollbackPointKept
SYMMETRY Symmetry
CHECK_DEADLOCK FALSE
