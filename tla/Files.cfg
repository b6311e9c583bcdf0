SPECIFICATION MCSpec
CONSTANTS
    Installs = {i1, i2}
    Workers = {w1, w2}
    json = json
    lib1 = lib1
    lib2 = lib2
    Batches <- MCBatches
    ListedBy <- MCListedBy
    NoFile = NoFile
    Chunks = 2
    MaxChanges = 4
    Tasks = {"library", "screen"}
    Accounts = {"a1", "a2"}
    NoAccount = NoAccount
    MaxStarts = 3
    MaxFaults = 1
INVARIANTS
    FilesTypeOK
    FilesAreComplete
    NewestWins
    ExitSaves
    UsedIsWhole
PROPERTY WholeStaysWhole
SYMMETRY Symmetry
CHECK_DEADLOCK FALSE
