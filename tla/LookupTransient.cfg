CONSTANTS
  Nothing = Nothing
  Miss = Miss
  Files = {"known", "cf"}
  CurseForge = {"cf"}
  Managed = {"known", "cf"}
  Packed = {}
  Hashed = {"known"}
  MaxOps = 2
  MaxFaults = 1
  MaxSerial = 3
SPECIFICATION Spec
INVARIANT NoTransientMiss
CHECK_DEADLOCK FALSE
