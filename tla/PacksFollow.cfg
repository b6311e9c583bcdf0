SPECIFICATION Spec
CONSTANTS
    None = None
    Count = 2
    Old = {}
    New = {}
    Fits = {1, 2}
    Kinds = {"options"}
    Commands = {}
    Addresses = {}
    Everywhere = {}
    Cap = 1
    MaxSaves = 2
INVARIANT PacksFollow
CHECK_DEADLOCK FALSE
