---------------------------- MODULE AsyncExecutor ----------------------------
(***************************************************************************)
(* The async executor of launcher_runtime/src/exec.rs, running the tasks   *)
(* that share a Semaphore (sync.rs): each acquires a permit, perhaps with  *)
(* a timeout, starts a blocking job, awaits its result cell, and drops the *)
(* permit.  Steps are the sections under one lock, and the atomic accesses *)
(* to `queued' between them.  The job is that of BlockingPool.             *)
(***************************************************************************)
EXTENDS Naturals, Sequences, FiniteSets, Functions

CONSTANTS NTasks,
          Workers,      \* the executor's threads
          Spawner,      \* the thread that spawns the tasks
          Permits,
          Timed,        \* the tasks that wait with a timeout
          Panicky       \* the tasks that may panic

Tasks == 1..NTasks
NoTask == 0

\* What the theorems need of the constants; the runs' module assumes it.
ExecutorAssumption == NTasks \in Nat /\ Permits \in Nat /\ IsFiniteSet(Workers)

\* Who wakes tasks: the workers, while they poll; the spawner; and for each task
\* the timer and the pool thread of its job, named by the task.
Actors == Tasks \cup Workers \cup {Spawner}

VARIABLES
    queue,      \* Executor.queue
    queued,     \* Task.queued
    future,     \* Task.future: how far it has come
    expired,    \* whether the timeout around acquire has passed
    cell,       \* the job's result cell: unborn, running, done
    cellWaker,  \* whether the cell holds the task's waker
    permits,    \* Semaphore: State.permits
    waiters,    \* Semaphore: State.waiters
    at,         \* where each worker is
    task,       \* the task it popped
    toWake,     \* the wake calls each actor has still to make; the first is under way
    step        \* the next step of that call: swap, push, notify

exec == <<queue, queued, at, task>>
body == <<future, expired, cell, cellWaker, permits, waiters>>
calls == <<toWake, step>>
vars == <<queue, queued, at, task, future, expired, cell, cellWaker, permits,
          waiters, toWake, step>>

Places == {"ready", "asleep", "popped", "cleared", "polling"}
Stages == {"unborn", "begins", "copying", "ended"}

In(places) == {w \in Workers : at[w] \in places}
Polls(w, stage) ==
    at[w] = "polling" /\ toWake[w] = <<>> /\ future[task[w]] = stage

Init ==
    /\ queue = <<>>
    /\ queued = [t \in Tasks |-> FALSE]
    /\ future = [t \in Tasks |-> "unborn"]
    /\ expired = [t \in Tasks |-> FALSE]
    /\ cell = [t \in Tasks |-> "unborn"]
    /\ cellWaker = [t \in Tasks |-> FALSE]
    /\ permits = Permits
    /\ waiters = <<>>
    /\ at = [w \in Workers |-> "ready"]
    /\ task = [w \in Workers |-> NoTask]
    /\ toWake = [a \in Actors |-> <<>>]
    /\ step = [a \in Actors |-> "swap"]

-----------------------------------------------------------------------------
(* Waking a task.                                                           *)

\* wake_by_ref: only the call that sets the flag queues the task.
Swap(a) ==
    /\ toWake[a] # <<>> /\ step[a] = "swap"
    /\ queued' = [queued EXCEPT ![Head(toWake[a])] = TRUE]
    /\ IF queued[Head(toWake[a])]
       THEN toWake' = [toWake EXCEPT ![a] = Tail(@)] /\ UNCHANGED step
       ELSE step' = [step EXCEPT ![a] = "push"] /\ UNCHANGED toWake
    /\ UNCHANGED <<queue, at, task, body>>

Push(a) ==
    /\ toWake[a] # <<>> /\ step[a] = "push"
    /\ queue' = Append(queue, Head(toWake[a]))
    /\ step' = [step EXCEPT ![a] = "notify"]
    /\ UNCHANGED <<queued, at, task, body, toWake>>

NotifyOne ==
    IF In({"asleep"}) = {}
    THEN UNCHANGED at
    ELSE \E w \in In({"asleep"}) : at' = [at EXCEPT ![w] = "ready"]

Notify(a) ==
    /\ toWake[a] # <<>> /\ step[a] = "notify"
    /\ NotifyOne
    /\ toWake' = [toWake EXCEPT ![a] = Tail(@)]
    /\ step' = [step EXCEPT ![a] = "swap"]
    /\ UNCHANGED <<queue, queued, task, body>>

\* spawn_boxed, called for each task in turn: a task is born queued.
Spawn(t) ==
    /\ future[t] = "unborn" /\ toWake[Spawner] = <<>>
    /\ \A u \in 1..t-1 : future[u] # "unborn"
    /\ future' = [future EXCEPT ![t] = "begins"]
    /\ queued' = [queued EXCEPT ![t] = TRUE]
    /\ toWake' = [toWake EXCEPT ![Spawner] = <<t>>]
    /\ step' = [step EXCEPT ![Spawner] = "push"]
    /\ UNCHANGED <<queue, at, task, expired, cell, cellWaker, permits, waiters>>

\* The timer wakes a task whose timeout has passed.
Expire(t) ==
    /\ t \in Timed /\ future[t] = "begins" /\ ~expired[t]
    /\ expired' = [expired EXCEPT ![t] = TRUE]
    /\ toWake' = [toWake EXCEPT ![t] = Append(@, t)]
    /\ UNCHANGED <<exec, future, cell, cellWaker, permits, waiters, step>>

\* The pool thread completes the cell, or drops its completer, and wakes the waker
\* it took, having let go of the cell's lock.
Complete(t) ==
    /\ cell[t] = "running"
    /\ cell' = [cell EXCEPT ![t] = "done"]
    /\ cellWaker' = [cellWaker EXCEPT ![t] = FALSE]
    /\ IF cellWaker[t]
       THEN toWake' = [toWake EXCEPT ![t] = Append(@, t)]
       ELSE UNCHANGED toWake
    /\ UNCHANGED <<exec, future, expired, permits, waiters, step>>

-----------------------------------------------------------------------------
(* worker_loop.                                                             *)

Look(w) ==
    /\ at[w] = "ready"
    /\ \/ /\ queue # <<>>
          /\ queue' = Tail(queue)
          /\ task' = [task EXCEPT ![w] = Head(queue)]
          /\ at' = [at EXCEPT ![w] = "popped"]
       \/ /\ queue = <<>>
          /\ at' = [at EXCEPT ![w] = "asleep"]
          /\ UNCHANGED <<queue, task>>
    /\ UNCHANGED <<queued, body, calls>>

SpuriousWake(w) ==
    /\ at[w] = "asleep"
    /\ at' = [at EXCEPT ![w] = "ready"]
    /\ UNCHANGED <<queue, queued, task, body, calls>>

Clear(w) ==
    /\ at[w] = "popped"
    /\ queued' = [queued EXCEPT ![task[w]] = FALSE]
    /\ at' = [at EXCEPT ![w] = "cleared"]
    /\ UNCHANGED <<queue, task, body, calls>>

\* The poll is over: the worker unlocks the slot and lets go of the task.
Release(w) ==
    /\ at' = [at EXCEPT ![w] = "ready"]
    /\ task' = [task EXCEPT ![w] = NoTask]

\* The worker locks the task's slot, and leaves it alone when the future is gone.
Enter(w) ==
    /\ at[w] = "cleared"
    /\ \A v \in In({"polling"}) : task[v] # task[w]
    /\ \/ future[task[w]] = "ended" /\ Release(w)
       \/ /\ future[task[w]] # "ended"
          /\ at' = [at EXCEPT ![w] = "polling"]
          /\ UNCHANGED task
    /\ UNCHANGED <<queue, queued, body, calls>>

\* Acquire::poll, inside Timeout::poll: the permit, or a place among the waiters,
\* which a task that then gives up leaves behind.
PollAcquire(w) ==
    /\ Polls(w, "begins")
    /\ \/ /\ permits > 0
          /\ permits' = permits - 1
          /\ future' = [future EXCEPT ![task[w]] = "copying"]
          /\ cell' = [cell EXCEPT ![task[w]] = "running"]
          /\ UNCHANGED <<at, task, waiters>>
       \/ /\ permits = 0
          /\ waiters' = Append(waiters, task[w])
          /\ IF expired[task[w]]
             THEN future' = [future EXCEPT ![task[w]] = "ended"]
             ELSE UNCHANGED future
          /\ Release(w)
          /\ UNCHANGED <<permits, cell>>
    /\ UNCHANGED <<queue, queued, expired, cellWaker, calls>>

\* Receiver::poll while the job runs.
PollCell(w) ==
    /\ Polls(w, "copying") /\ cell[task[w]] = "running"
    /\ cellWaker' = [cellWaker EXCEPT ![task[w]] = TRUE]
    /\ Release(w)
    /\ UNCHANGED <<queue, queued, future, expired, cell, permits, waiters, calls>>

\* Mutant of PermitDrop: one waiter is woken.
PermitDropWakesOne(w) ==
    /\ permits' = permits + 1
    /\ IF waiters = <<>>
       THEN UNCHANGED <<waiters, toWake>>
       ELSE /\ waiters' = Tail(waiters)
            /\ toWake' = [toWake EXCEPT ![w] = <<Head(waiters)>>]

\* Mutant of PermitDrop: the permit is not given back.
PermitDropForgets(w) ==
    /\ waiters' = <<>>
    /\ toWake' = [toWake EXCEPT ![w] = waiters]
    /\ UNCHANGED permits

\* SemaphorePermit::drop, before its loop of wakes.
PermitDrop(w) ==
    /\ permits' = permits + 1
    /\ waiters' = <<>>
    /\ toWake' = [toWake EXCEPT ![w] = waiters]

\* The result has come, or the task panics: the permit is dropped in the poll.
Leave(w) ==
    /\ Polls(w, "copying")
    /\ cell[task[w]] = "done" \/ task[w] \in Panicky
    /\ PermitDrop(w)
    /\ future' = [future EXCEPT ![task[w]] = "ended"]
    /\ UNCHANGED <<exec, expired, cell, cellWaker, step>>

\* The poll returns that the future is done, and the slot is emptied.
EndPoll(w) ==
    /\ Polls(w, "ended")
    /\ Release(w)
    /\ UNCHANGED <<queue, queued, body, calls>>

Next ==
    \/ \E a \in Actors : Swap(a) \/ Push(a) \/ Notify(a)
    \/ \E t \in Tasks : Spawn(t) \/ Expire(t) \/ Complete(t)
    \/ \E w \in Workers :
          \/ Look(w) \/ SpuriousWake(w) \/ Clear(w) \/ Enter(w)
          \/ PollAcquire(w) \/ PollCell(w) \/ Leave(w) \/ EndPoll(w)

Spec == Init /\ [][Next]_vars

WorkerStep(w) ==
    \/ Look(w) \/ Clear(w) \/ Enter(w) \/ PollAcquire(w) \/ PollCell(w) \/ EndPoll(w)
    \/ Leave(w) /\ cell[task[w]] = "done"

\* Every thread is scheduled, and jobs end.  Timeouts and spurious wakes need not
\* come.  A task that awaits its job is not assumed to panic.
FairSpec ==
    /\ Spec
    /\ \A a \in Actors : WF_vars(Swap(a) \/ Push(a) \/ Notify(a))
    /\ \A t \in Tasks : WF_vars(Complete(t))
    /\ \A w \in Workers : WF_vars(WorkerStep(w))

-----------------------------------------------------------------------------
Typed ==
    /\ queue \in Seq(Tasks) /\ waiters \in Seq(Tasks)
    /\ queued \in [Tasks -> BOOLEAN] /\ expired \in [Tasks -> BOOLEAN]
    /\ future \in [Tasks -> Stages]
    /\ cell \in [Tasks -> {"unborn", "running", "done"}]
    /\ cellWaker \in [Tasks -> BOOLEAN]
    /\ at \in [Workers -> Places] /\ task \in [Workers -> Tasks \cup {NoTask}]
    /\ \A w \in Workers : task[w] = NoTask <=> at[w] \in {"ready", "asleep"}
    /\ toWake \in [Actors -> Seq(Tasks)]
    /\ step \in [Actors -> {"swap", "push", "notify"}]
    /\ permits \in Nat

\* The tasks that hold a permit.
Inside == {t \in Tasks : future[t] = "copying"}

\* Permits are neither lost nor made: those not free are held by the tasks inside,
\* of which there are never more than the semaphore was made with, whatever
\* panics or gives up.
TypeOK == Typed /\ permits + Cardinality(Inside) = Permits

\* The flag tells whether the task is on its way to a poll: it is then in one place,
\* about to be pushed, in the queue, or popped, and otherwise in none.  So the queue
\* is no longer than there are tasks, and a task is not polled for nothing.
QueuedOnce ==
    \A t \in Tasks :
        Cardinality({i \in DOMAIN queue : queue[i] = t})
          + Cardinality({a \in Actors : step[a] = "push" /\ Head(toWake[a]) = t})
          + Cardinality({w \in In({"popped"}) : task[w] = t})
        = IF queued[t] THEN 1 ELSE 0

\* A poll of t is coming that has yet to look at what t waits for.
WakePending(t) ==
    \E a \in Actors : \E i \in DOMAIN toWake[a] :
        toWake[a][i] = t /\ (i > 1 \/ step[a] = "swap")
Coming(t) ==
    \/ queued[t]
    \/ WakePending(t)
    \/ \E w \in In({"cleared", "polling"}) : task[w] = t

\* No wake is lost: a task that could go on, because a permit is free or its result
\* has come, is about to be polled.  Waiters that gave up take nobody's wake, and a
\* wake that comes while the task is being polled counts.
NoLostWake ==
    \A t \in Tasks :
        \/ future[t] = "begins" /\ permits > 0
        \/ future[t] = "copying" /\ cell[t] = "done"
        => Coming(t)

\* No worker sleeps beside a task that nobody comes for: while one sleeps, there is
\* a notification or a worker under way for each task in the queue.
SleepersAreNotNeeded ==
    In({"asleep"}) # {} =>
        Len(queue) <= Cardinality(In({"ready"}))
                        + Cardinality({a \in Actors : step[a] = "notify"})

\* Every task spawned ends, without help of timeouts or spurious wakes.
EveryTaskEnds ==
    (\E t \in Tasks : future[t] # "unborn") ~> (\A t \in Tasks : future[t] \in {"unborn", "ended"})
=============================================================================
