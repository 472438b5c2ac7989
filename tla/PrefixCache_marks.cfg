SPECIFICATION Spec
CONSTANTS
    Models <- OneLayer
    Prefix = 2
    Blocks <- WholeOrBlocks
    MaxTokens = 6
    ForwardFails = TRUE
INVARIANTS SyncMarksValid
