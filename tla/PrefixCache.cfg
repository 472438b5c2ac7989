SPECIFICATION Spec
CONSTANTS
    Models <- Mixed
    Prefix = 2
    Blocks <- WholeOrBlocks
    MaxTokens = 9
    ForwardFails = TRUE
INVARIANTS TypeOK MarkedIsPrefix LoadedIsPrefix LengthsAgree
CONSTRAINT Expected
