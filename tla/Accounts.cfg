CONSTANTS
    Accounts = {a1, a2}
    NoAccount = none
    MaxTokens = 3
    MaxSaves = 2
    MaxIssued = 3
    MaxSwitches = 2
    MaxSignIns = 2
    HelperProfiles = 2
    MaxStrays = 1
    Keys = {k1, k2}
    MaxValues = 4
    NoKey = nokey
    MaxClicks = 3
    MaxFaults = 1
    MaxEdits = 2
    MaxTurns = 2
    MaxMoves = 2
    MaxWorkers = 4
    MaxSlips = 1
    Versions = {0, 10301, 10702, 10800, 10900, 11200, 11300, 11400, 11600, 11800, 12005, 12111, 260300}
SPECIFICATION MCSpec
CONSTRAINT Claimed
SYMMETRY Symmetry
INVARIANTS UsersAccounts SelectionIsKept DiskIsRight SignInsAreKept SettingsAreKept
CHECK_DEADLOCK FALSE
