CONSTANT MaxChanges = 2
SPECIFICATION Spec
INVARIANT ExitSavesDespiteSaver
CHECK_DEADLOCK FALSE
