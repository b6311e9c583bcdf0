SPECIFICATION MCSpec
CONSTANTS
    MaxInstances = 2
    MaxLaunches = 2
    Sources = {"p"}
    Files = {"f"}
    MaxRequests = 2
    MaxSerial = 2
    MaxTries = 2
    Nothing = Nothing
    Entries = {"a", "b"}
INVARIANTS FoldersAreOwned CardSparesGames ImportIsSound
PROPERTY AllSettles
CONSTRAINT Explored
CHECK_DEADLOCK FALSE
