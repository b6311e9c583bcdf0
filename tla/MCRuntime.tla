------------------------------ MODULE MCRuntime ------------------------------
(***************************************************************************)
(* launcher_runtime's two schedulers share no state: a behaviour of this    *)
(* run is one of the blocking pool or one of the async executor, each under *)
(* its own fairness.                                                        *)
(***************************************************************************)
EXTENDS BlockingPool

CONSTANTS NTasks, Pollers, Spawner, Permits, Timed, Panicky

VARIABLES part, ready, queued, future, expired, cell, cellWaker, permits, waiters, place, task, toWake, step

E == INSTANCE AsyncExecutor WITH Workers <- Pollers, queue <- ready, at <- place

ASSUME RuntimeAssumption == E!ExecutorAssumption

execVars == <<ready, queued, future, expired, cell, cellWaker, permits, waiters, place, task, toWake, step>>
allVars == <<vars, execVars, part>>

MCInit == Init /\ E!Init /\ part \in {"pool", "executor"}
Pool(step_) == part = "pool" /\ step_ /\ UNCHANGED <<execVars, part>>
Exec(step_) == part = "executor" /\ step_ /\ UNCHANGED <<vars, part>>
MCNext == Pool(Next) \/ Exec(E!Next)

MCSpec ==
    /\ MCInit /\ [][MCNext]_allVars
    /\ \A w \in Workers :
          /\ WF_allVars(Pool(SpawnOk(w) \/ SpawnFail(w)))
          /\ WF_allVars(Pool(Look(w)))
          /\ WF_allVars(Pool(Finish(w)))
          /\ WF_allVars(Pool(Resume(w)))
    /\ \A a \in E!Actors : WF_allVars(Exec(E!Swap(a) \/ E!Push(a) \/ E!Notify(a)))
    /\ \A t \in E!Tasks : WF_allVars(Exec(E!Complete(t)))
    /\ \A w \in Pollers : WF_allVars(Exec(E!WorkerStep(w)))

(* The counters of the pool are exact and the executor's permits conserved.  *)
RuntimeTypeOK == TypeOK /\ E!TypeOK

(* AsyncExecutor's properties: a task on its way to a poll is in one place,   *)
(* no wake is lost, no worker sleeps beside work, and every task ends.        *)
NoLostWake == E!QueuedOnce /\ E!NoLostWake /\ E!SleepersAreNotNeeded
EveryTaskEnds == E!EveryTaskEnds
=============================================================================
