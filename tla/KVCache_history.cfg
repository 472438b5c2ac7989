SPECIFICATION Spec
CONSTANTS
    hP = 2
    lP = 2
    mHeadDim = 3
    FlashBlock = 2
    mExpandChunk = 0
    AttentionOption = {0, 1, 8, 10, 14}
    AddSizes = {1, 2, 3}
    MaxTokens = 5
INVARIANTS TypeOK CacheHoldsHistory PositionsFollow ReadsInitialised
