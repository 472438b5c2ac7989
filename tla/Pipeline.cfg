SPECIFICATION Spec
CONSTANTS
    Models <- SomeSessions
    Shapes = {1, 2}
    Addr = {1, 2, 3, 4, 5, 6}
INVARIANTS TypeOK ReadsRight Recycled
CONSTRAINT Expected
