SPECIFICATION Spec
CONSTANTS
    p1 = p1
    p2 = p2
    x = x
    y = y
    Short = Short
    NULL = NULL
    Processes <- TwoProcesses
    Values <- TwoValues
    MaxGeneration = 3
SYMMETRY Symmetry
INVARIANTS
    LinksGivenOutAreGood
PROPERTIES
    StoppedMeansSilent
CHECK_DEADLOCK FALSE
