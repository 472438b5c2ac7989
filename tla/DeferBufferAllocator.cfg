SPECIFICATION Spec
CONSTANTS
    a1 = a1
    a2 = a2
    NoAllocator = NoAllocator
    Allocator = {a1, a2}
    Address = {1, 2}
    Config <- Plans
SYMMETRY AllocatorSymmetry
INVARIANTS TypeOK FreedIsOneChunk PlanDisjoint AppliedIsBacked
