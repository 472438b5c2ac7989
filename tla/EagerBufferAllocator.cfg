SPECIFICATION Spec
CONSTANTS
    b1 = b1
    b2 = b2
    Block = {b1, b2}
    Config <- Allocators
SYMMETRY BlockSymmetry
INVARIANTS TypeOK ChunksDisjoint MergedWhenIdle GroupsDisjoint NothingLost UseCountExact
