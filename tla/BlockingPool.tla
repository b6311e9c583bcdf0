----------------------------- MODULE BlockingPool -----------------------------
(***************************************************************************)
(* The blocking thread pool of launcher_runtime/src/exec.rs.  The pool's   *)
(* mutex makes each section between lock and unlock one step; a thread     *)
(* runs its job, and is started by the system, outside it.  Condition      *)
(* variables wake spuriously, and a thread that was woken or timed out     *)
(* still counts as idle until it holds the lock again.                     *)
(***************************************************************************)
EXTENDS Naturals, Sequences, FiniteSets

CONSTANTS Jobs,
          NoJob,
          Workers,      \* identities for the pool's threads
          MaxThreads    \* MAX_BLOCKING_THREADS

ASSUME PoolAssumption ==
    /\ IsFiniteSet(Workers)
    /\ MaxThreads \in Nat \ {0}
    /\ MaxThreads <= Cardinality(Workers)
    /\ NoJob \notin Jobs

VARIABLES
    queue,      \* PoolState.queue
    idle,       \* PoolState.idle
    threads,    \* PoolState.threads
    at,         \* where each thread is
    job,        \* what it runs
    outcome,    \* what each job's handle holds
    refused     \* history: a thread was refused since the queue was last empty

vars == <<queue, idle, threads, at, job, outcome, refused>>

\* none: no thread; asked: counted, but the system has not answered; ready:
\* about to take the lock, having started or run a job; running: in a job;
\* asleep: in wait_timeout; woken, late: woken, or timed out, without the lock.
Places == {"none", "asked", "ready", "running", "asleep", "woken", "late"}

In(places) == {w \in Workers : at[w] \in places}
Alive == In(Places \ {"none"})
Idle == In({"asleep", "woken", "late"})
Coming == In({"asked", "ready"})

running == {job[w] : w \in In({"running"})}
Waits(j) == \E i \in DOMAIN queue : queue[i] = j
New(j) == outcome[j] = "none" /\ j \notin running /\ ~Waits(j)

Init ==
    /\ queue = <<>>
    /\ idle = 0
    /\ threads = 0
    /\ at = [w \in Workers |-> "none"]
    /\ job = [w \in Workers |-> NoJob]
    /\ outcome = [j \in Jobs |-> "none"]
    /\ refused = FALSE

-----------------------------------------------------------------------------
\* notify_one wakes a thread that waits, if any does.
Notify ==
    IF In({"asleep"}) = {}
    THEN UNCHANGED at
    ELSE \E w \in In({"asleep"}) : at' = [at EXCEPT ![w] = "woken"]

\* Mutant of Submit: any idle thread is enough.
SubmitIfAnyIdle(j) ==
    /\ New(j)
    /\ queue' = Append(queue, j)
    /\ \/ idle > 0 /\ Notify /\ UNCHANGED threads
       \/ idle = 0 /\ threads >= MaxThreads /\ UNCHANGED <<at, threads>>
       \/ /\ idle = 0 /\ threads < MaxThreads
          /\ threads' = threads + 1
          /\ \E w \in In({"none"}) : at' = [at EXCEPT ![w] = "asked"]
    /\ UNCHANGED <<idle, job, outcome, refused>>

\* spawn_blocking_boxed: enough idle threads, the cap, or a new thread.
Submit(j) ==
    /\ New(j)
    /\ queue' = Append(queue, j)
    /\ \/ idle >= Len(queue') /\ Notify /\ UNCHANGED threads
       \/ idle < Len(queue') /\ threads >= MaxThreads /\ UNCHANGED <<at, threads>>
       \/ /\ idle < Len(queue') /\ threads < MaxThreads
          /\ threads' = threads + 1
          /\ \E w \in In({"none"}) : at' = [at EXCEPT ![w] = "asked"]
    /\ UNCHANGED <<idle, job, outcome, refused>>

SpawnOk(w) ==
    /\ at[w] = "asked"
    /\ at' = [at EXCEPT ![w] = "ready"]
    /\ UNCHANGED <<queue, idle, threads, job, outcome, refused>>

\* Mutant of SpawnFail: the jobs stay in the queue.
SpawnFailKeepsQueue(w) ==
    /\ at[w] = "asked"
    /\ at' = [at EXCEPT ![w] = "none"]
    /\ threads' = threads - 1
    /\ refused' = TRUE
    /\ UNCHANGED <<queue, idle, job, outcome>>

\* Without a thread at all the jobs are dropped, which fails their handles.
SpawnFail(w) ==
    /\ at[w] = "asked"
    /\ at' = [at EXCEPT ![w] = "none"]
    /\ threads' = threads - 1
    /\ IF threads' = 0
       THEN /\ queue' = <<>>
            /\ outcome' = [j \in Jobs |-> IF Waits(j) THEN "error" ELSE outcome[j]]
       ELSE UNCHANGED <<queue, outcome>>
    /\ refused' = (queue' # <<>>)
    /\ UNCHANGED <<idle, job>>

-----------------------------------------------------------------------------
(* blocking_loop.                                                           *)

Take(w) ==
    /\ queue # <<>>
    /\ queue' = Tail(queue)
    /\ refused' = (refused /\ queue' # <<>>)
    /\ job' = [job EXCEPT ![w] = Head(queue)]
    /\ at' = [at EXCEPT ![w] = "running"]

\* A thread that holds the lock takes the next job, or goes to sleep.
Look(w) ==
    /\ at[w] = "ready"
    /\ \/ Take(w) /\ UNCHANGED idle
       \/ /\ queue = <<>>
          /\ idle' = idle + 1
          /\ at' = [at EXCEPT ![w] = "asleep"]
          /\ UNCHANGED <<queue, job, refused>>
    /\ UNCHANGED <<threads, outcome>>

\* The job ends, or panics, which drops its completer.
Finish(w) ==
    /\ at[w] = "running"
    /\ \E result \in {"value", "error"} :
          outcome' = [outcome EXCEPT ![job[w]] = result]
    /\ at' = [at EXCEPT ![w] = "ready"]
    /\ job' = [job EXCEPT ![w] = NoJob]
    /\ UNCHANGED <<queue, idle, threads, refused>>

SpuriousWake(w) ==
    /\ at[w] = "asleep"
    /\ at' = [at EXCEPT ![w] = "woken"]
    /\ UNCHANGED <<queue, idle, threads, job, outcome, refused>>

TimeOut(w) ==
    /\ at[w] = "asleep"
    /\ at' = [at EXCEPT ![w] = "late"]
    /\ UNCHANGED <<queue, idle, threads, job, outcome, refused>>

\* Mutant of Resume: a thread that finds a job is still counted idle.
ResumeStillIdle(w) ==
    /\ at[w] \in {"woken", "late"}
    /\ Take(w)
    /\ UNCHANGED <<idle, threads, outcome>>

\* wait_timeout returns with the lock: a thread leaves if it timed out and there
\* is nothing to do.
Resume(w) ==
    /\ at[w] \in {"woken", "late"}
    /\ \/ /\ Take(w)
          /\ idle' = idle - 1
          /\ UNCHANGED threads
       \/ /\ queue = <<>> /\ at[w] = "late"
          /\ idle' = idle - 1
          /\ threads' = threads - 1
          /\ at' = [at EXCEPT ![w] = "none"]
          /\ UNCHANGED <<queue, job, refused>>
       \/ /\ queue = <<>> /\ at[w] = "woken"
          /\ at' = [at EXCEPT ![w] = "asleep"]
          /\ UNCHANGED <<queue, idle, threads, job, refused>>
    /\ UNCHANGED outcome

Next ==
    \/ \E j \in Jobs : Submit(j)
    \/ \E w \in Workers :
          \/ SpawnOk(w) \/ SpawnFail(w) \/ Look(w) \/ Finish(w)
          \/ SpuriousWake(w) \/ TimeOut(w) \/ Resume(w)

Spec == Init /\ [][Next]_vars

\* The system schedules every thread and answers every request for one, and jobs
\* end.  Nothing is assumed of the timeout: a lost wake-up would not be repaired.
FairSpec ==
    /\ Spec
    /\ \A w \in Workers :
          /\ WF_vars(SpawnOk(w) \/ SpawnFail(w))
          /\ WF_vars(Look(w))
          /\ WF_vars(Finish(w))
          /\ WF_vars(Resume(w))

-----------------------------------------------------------------------------
\* The pool's counters count: every thread made is in threads until it leaves, and
\* every sleeper in idle.  The decision to make a thread rests on them, and the cap
\* holds.
TypeOK ==
    /\ queue \in Seq(Jobs)
    /\ at \in [Workers -> Places]
    /\ job \in [Workers -> Jobs \cup {NoJob}]
    /\ outcome \in [Jobs -> {"none", "value", "error"}]
    /\ refused \in BOOLEAN
    /\ \A w \in Workers : job[w] \in Jobs <=> at[w] = "running"
    /\ threads = Cardinality(Alive) /\ threads <= MaxThreads
    /\ idle = Cardinality(Idle)

\* No job waits while a thread could be made for it: below the cap, unless the
\* system refused one meanwhile, there is a thread on its way for every job in the
\* queue, although a woken thread counts as idle after its job was taken.
EveryJobHasAThread ==
    refused \/ threads = MaxThreads \/ Len(queue) <= idle + Cardinality(Coming)

\* A job is in the queue once, or on one thread, or settled.
JobsAreInOnePlace ==
    /\ \A i, k \in DOMAIN queue : queue[i] = queue[k] => i = k
    /\ \A w \in In({"running"}) :
          /\ ~Waits(job[w])
          /\ \A v \in In({"running"}) : job[v] = job[w] => v = w
    /\ \A j \in Jobs : outcome[j] # "none" => j \notin running /\ ~Waits(j)

\* The pool does what spawn_blocking promises: jobs start in order, each runs once,
\* at most MaxThreads at a time, and every handle is settled, because a job that
\* waits always has a thread that was woken for it, or is not asleep.
Promise == INSTANCE JobQueue WITH waiting <- queue, Cap <- MaxThreads
Implements == Promise!FairSpec
=============================================================================
