\* Two instances and two entries, of which e2 is a shader both providers offer;
\* two files on the instance screen; two mods and a library;
\* a pack of one mod with two versions and a file of the user's; two screens; a jar;
\* two accounts that play one instance, and a log of nine lines over three keys.
CONSTANTS
  Nothing = Nothing
  Instances = {i1, i2}
  Entries = {e1, e2}
  Shaders = {e2}
  CurseForge = {e2}
  CacheLimit = 2
  MaxOps = 3
  MaxFaults = 1
  Miss = Miss
  Files = {"known", "cf"}
  FromCurseForge = {"cf"}
  Managed = {"known", "cf"}
  Packed = {}
  Hashed = {"known"}
  MaxUpdates = 2
  MaxSerial = 3
  app = app
  mod = mod
  lib = lib
  Steps = 3
  Mods = {m1}
  Published = {v1, v2}
  Offered = {c1}
  Own = {own}
  MaxEdits = 2
  Sessions = {s1, s2}
  Targets = {t1}
  MaxPicks = 3
  Jars = {j1}
  Extras = {"world"}
  Users = {u1, u2}
  Names = {"n1", "n2"}
  MaxGames = 2
  MaxLines = 2
  MaxLength = 2
  MaxActs = 2
  LineKeys <- MCLineKeys
  Window = 2
  KeepOpen = 4
  MaxLog = 9
  MaxFresh = 1
  Projects <- MCProjects
  Paths <- MCPaths
  Name <- MCName
  Needs <- MCNeeds
  Initial <- MCInitial
SPECIFICATION MCSpec
CONSTRAINT Claimed
INVARIANTS ShownIsTrue LookupsSettle InstallsAreRight NothingLost ManifestIsTrue RequiredIsThere PackagesAreRight
CHECK_DEADLOCK FALSE
