SPECIFICATION Spec
CONSTANTS
    Net <- TwoModules
    mmapSize = 5
INVARIANTS TypeOK WeightsRight MarkerMeansComplete
