CONSTANTS
    Workers = {w1, w2, w3}
    Sizes = {4, 8, 9}
    Budget = 8
    Window = 3
SPECIFICATION Spec
PROPERTIES EveryReadPasses
CHECK_DEADLOCK FALSE
