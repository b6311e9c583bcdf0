CONSTANTS
    Launches = {p1, p2}
    Instances = {i1, i2}
    Accounts = {a1}
    NoAccount = NoAccount
    MaxBacklog = 1
    None = None
    MaxChain = 16
    Games = {"g1", "g2"}
    Loaders = {"fabric", "forge"}
    PerGame = {"fabric"}
    Clients = {"c1", "c2"}
    MaxDays = 3
    MaxErrors = 2
    Downloads = {"d1", "d2", "d3"}
    Sizes = {4, 8, 9}
    Budget = 8
    Window = 3
    Roots = {pa, pb, pc}
    Contents = {c1, c2}
    Torn = Torn
    Permits = 1
    MaxMoves = 2
    MaxSaves = 1
    Shots = {s1, s2}
    Logs = {l1, l2}
    Page = 1
    MaxChanges = 2
    MaxScans = 3
    Homes = {h1, h2}
    Things = {t1, t2}
    PerScan = 1
    MaxTurns = 2
    Queries = {q1, q2}
    Pages = 2
    Packs = {k1, k2}
    Names = {"a", "b"}
    MaxLooks = 4
    MaxFetches = 3
SPECIFICATION MCSpec
INVARIANTS TypeOK ExclusiveUnlessOverlapping ReportedAtMostOnce CommandAndMergeAreRight CatalogsAreSound ScreensAreRight
PROPERTIES ExitIsSettled SmallReadsPass
CHECK_DEADLOCK FALSE
