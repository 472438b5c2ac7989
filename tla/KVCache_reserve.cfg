SPECIFICATION Spec
CONSTANTS
    hP = 2
    lP = 2
    mHeadDim = 3
    FlashBlock = 2
    mExpandChunk = 0
    AttentionOption = {8}
    AddSizes = {1, 3}
    MaxTokens = 4
INVARIANTS ValuesFollowLayout
