SPECIFICATION Spec
CONSTANTS
    Instances = {a, b}
    Shared = Shared
    Passer = Passer
    Changer = Changer
    MaxSaves = 2
    Failures = 1
INVARIANTS
    SharedDataSurvivesFailedCopies
CHECK_DEADLOCK FALSE
