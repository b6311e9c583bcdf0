SPECIFICATION MCSpec
CONSTANTS
    Jobs = {j1, j2, j3, j4}
    NoJob = NoJob
    Workers = {w1, w2, w3}
    MaxThreads = 3
    NTasks = 3
    Pollers = {e1, e2}
    Spawner = spawner
    Permits = 1
    Timed = {2}
    Panicky = {1}
INVARIANTS RuntimeTypeOK EveryJobHasAThread NoLostWake
PROPERTIES Implements EveryTaskEnds
CHECK_DEADLOCK FALSE
