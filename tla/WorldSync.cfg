SPECIFICATION MCSpec
CONSTANTS
    Instances = {a, b}
    Shared = Shared
    Passer = Passer
    Changer = Changer
    MaxSaves = 2
    Failures = 2
    None = None
    Kinds = {"options", "config", "hotbar", "history", "servers"}
    Commands = {c1, c2, c3}
    Addresses = {"s1", "s2"}
    Everywhere = {"s1"}
INVARIANTS
    NewestKept
    PassConverges
    StoreMatchesDisk
    SavesSurvive
    PassesAgree
SYMMETRY InstanceSymmetry
CONSTRAINT Claimed
CHECK_DEADLOCK FALSE
