------------------------- MODULE AsyncExecutor_proofs -------------------------
(***************************************************************************)
(* Safety of the async executor for every number of tasks and permits and  *)
(* every finite set of workers.  The inductive invariant adds, to what the *)
(* runs check, who is going to wake a task: until it is polled again, its  *)
(* wake is a call under way, or it is among the semaphore's waiters, or    *)
(* its result cell holds its waker.                                        *)
(***************************************************************************)
EXTENDS AsyncExecutor, FiniteSetTheorems, SequenceTheorems, TLAPS

\* A wake call past its first step is about a task.
CallsUnderWay == \A a \in Actors : step[a] # "swap" => toWake[a] # <<>>

\* QueuedOnce without counting: where a task on its way to a poll is.
InQueue(t) == {i \in DOMAIN queue : queue[i] = t}
Pushing(t) == {a \in Actors : step[a] = "push" /\ Head(toWake[a]) = t}
Popping(t) == {w \in In({"popped"}) : task[w] = t}

AtMostOne(S) == \A x, y \in S : x = y
OnePlace(t) ==
    /\ AtMostOne(InQueue(t)) /\ AtMostOne(Pushing(t)) /\ AtMostOne(Popping(t))
    /\ InQueue(t) = {} \/ Pushing(t) = {}
    /\ InQueue(t) = {} \/ Popping(t) = {}
    /\ Pushing(t) = {} \/ Popping(t) = {}
    /\ queued[t] <=> InQueue(t) # {} \/ Pushing(t) # {} \/ Popping(t) # {}
InOnePlace == \A t \in Tasks : OnePlace(t)

\* Nobody knows of a task before it is spawned.
Waits(t) == \E i \in DOMAIN waiters : waiters[i] = t
UnbornIsUnknown ==
    \A t \in Tasks : future[t] = "unborn" =>
        /\ ~queued[t] /\ cell[t] = "unborn" /\ ~Waits(t)
        /\ \A a \in Actors : \A i \in DOMAIN toWake[a] : toWake[a][i] # t

\* While permits are free nobody waits, and a task that awaits something is coming or will be woken.
WillBeWoken ==
    /\ permits > 0 => waiters = <<>>
    /\ \A t \in Tasks :
          /\ future[t] = "begins" => Coming(t) \/ Waits(t)
          /\ future[t] = "copying" =>
                cell[t] # "unborn" /\ (Coming(t) \/ (cell[t] = "running" /\ cellWaker[t]))

IInv == TypeOK /\ CallsUnderWay /\ InOnePlace /\ UnbornIsUnknown /\ WillBeWoken /\ SleepersAreNotNeeded

-----------------------------------------------------------------------------
(* Types, and the conservation of permits.                                  *)

\* The set of tasks inside is finite, and changes by the task that moves.
LEMMA InsideMoves ==
    ASSUME ExecutorAssumption, TypeOK, NEW t \in Tasks, NEW s \in Stages,
           future' = [future EXCEPT ![t] = s]
    PROVE  /\ Cardinality(Inside) \in Nat
           /\ future[t] # "copying" /\ s # "copying" => Inside' = Inside
           /\ future[t] # "copying" /\ s = "copying" =>
                Cardinality(Inside') = Cardinality(Inside) + 1
           /\ future[t] = "copying" /\ s # "copying" =>
                Cardinality(Inside') = Cardinality(Inside) - 1
<1>1. future \in [Tasks -> Stages]
  BY DEF TypeOK, Typed
<1>2. IsFiniteSet(Inside) /\ Cardinality(Inside) \in Nat
  <2>1. IsFiniteSet(Tasks)
    BY FS_Interval DEF Tasks, ExecutorAssumption
  <2> QED
    BY <2>1, FS_Subset, FS_CardinalityType DEF Inside
<1>3. future[t] # "copying" /\ s # "copying" => Inside' = Inside
  BY <1>1 DEF Inside
<1>4. ASSUME future[t] # "copying", s = "copying"
      PROVE  Cardinality(Inside') = Cardinality(Inside) + 1
  <2>1. Inside' = Inside \cup {t} /\ t \notin Inside
    BY <1>1, <1>4 DEF Inside
  <2> QED
    BY <1>2, <2>1, FS_AddElement
<1>5. ASSUME future[t] = "copying", s # "copying"
      PROVE  Cardinality(Inside') = Cardinality(Inside) - 1
  <2>1. Inside' = Inside \ {t} /\ t \in Inside
    BY <1>1, <1>5 DEF Inside
  <2> QED
    BY <1>2, <2>1, FS_RemoveElement
<1> QED
  BY <1>2, <1>3, <1>4, <1>5

\* A worker that moves holds a task exactly when its new place says so.
LEMMA WorkerMoves ==
    ASSUME Typed, NEW w \in Workers, NEW p \in Places, NEW k \in Tasks \cup {NoTask},
           k = NoTask <=> p \in {"ready", "asleep"},
           at' = [at EXCEPT ![w] = p], task' = [task EXCEPT ![w] = k],
           UNCHANGED <<toWake, step, queued, expired, cellWaker>>,
           queue' \in Seq(Tasks), waiters' \in Seq(Tasks), permits' \in Nat,
           future' \in [Tasks -> Stages],
           cell' \in [Tasks -> {"unborn", "running", "done"}]
    PROVE  Typed'
<1>1. at' \in [Workers -> Places] /\ task' \in [Workers -> Tasks \cup {NoTask}]
  BY DEF Typed
<1>2. ASSUME NEW v \in Workers
      PROVE  task'[v] = NoTask <=> at'[v] \in {"ready", "asleep"}
  <2>1. CASE v = w
    BY <2>1 DEF Typed
  <2>2. CASE v # w
    BY <2>2 DEF Typed
  <2> QED
    BY <2>1, <2>2
<1> QED
  BY <1>1, <1>2 DEF Typed

\* Every step keeps the types and the permits.
LEMMA TypeStep ==
    ASSUME ExecutorAssumption, TypeOK, CallsUnderWay, Next
    PROVE  TypeOK'
<1>0. /\ Tasks \subseteq Actors /\ Workers \subseteq Actors /\ Spawner \in Actors
      /\ NoTask \notin Tasks /\ Cardinality(Inside) \in Nat
  <2>1. IsFiniteSet(Tasks) /\ NoTask \notin Tasks
    BY FS_Interval DEF NoTask, Tasks, ExecutorAssumption
  <2>2. IsFiniteSet(Inside)
    BY <2>1, FS_Subset DEF Inside
  <2> QED
    BY <2>1, <2>2, FS_CardinalityType DEF Actors
<1> DEFINE Conserved == permits + Cardinality(Inside) = Permits
<1>a. Typed /\ Conserved
  BY DEF TypeOK
<1>b. UNCHANGED <<permits, future>> => Conserved'
  BY <1>a DEF Inside
<1>c. Typed' /\ Conserved' => TypeOK'
  BY DEF TypeOK
<1>d. Typed
  BY <1>a
<1> HIDE DEF Conserved
<1>1. ASSUME NEW a \in Actors, Swap(a) PROVE TypeOK'
  <2>1. Head(toWake[a]) \in Tasks /\ Tail(toWake[a]) \in Seq(Tasks)
    BY <1>1, <1>d DEF Typed, Swap
  <2>2. Typed'
    BY <1>1, <1>d, <2>1 DEF Typed, Swap, body
  <2> QED
    BY <1>1, <1>b, <1>c, <2>2 DEF Swap, body
<1>2. ASSUME NEW a \in Actors, Push(a) PROVE TypeOK'
  <2>1. Typed'
    BY <1>2, <1>d DEF Typed, Push, body
  <2> QED
    BY <1>2, <1>b, <1>c, <2>1 DEF Push, body
<1>3. ASSUME NEW a \in Actors, Notify(a) PROVE TypeOK'
  <2>1. Typed'
    BY <1>3, <1>d DEF Typed, Notify, NotifyOne, body, In, Places
  <2> QED
    BY <1>3, <1>b, <1>c, <2>1 DEF Notify, body
<1>4. ASSUME NEW t \in Tasks, Spawn(t) PROVE TypeOK'
  <2>1. Inside' = Inside
    BY <1>4, InsideMoves DEF Spawn, Stages
  <2>2. Typed'
    BY <1>0, <1>4, <1>d DEF Typed, Spawn, Stages
  <2> QED
    BY <1>4, <1>a, <1>c, <2>1, <2>2 DEF Spawn, Conserved
<1>5. ASSUME NEW t \in Tasks, Expire(t) PROVE TypeOK'
  <2>1. Typed'
    BY <1>0, <1>5, <1>d DEF Typed, Expire, exec
  <2> QED
    BY <1>5, <1>b, <1>c, <2>1 DEF Expire
<1>6. ASSUME NEW t \in Tasks, Complete(t) PROVE TypeOK'
  <2>1. Append(toWake[t], t) \in Seq(Tasks)
    BY <1>0, <1>6, <1>d DEF Typed
  <2>2. Typed'
    BY <1>0, <1>6, <1>d, <2>1 DEF Typed, Complete, exec
  <2> QED
    BY <1>6, <1>b, <1>c, <2>2 DEF Complete
<1>7. ASSUME NEW w \in Workers, Look(w) PROVE TypeOK'
  <2> SUFFICES Typed'
    BY <1>7, <1>b, <1>c DEF Look, body
  <2>1. CASE queue = <<>>
    <3>1. task' = [task EXCEPT ![w] = NoTask] /\ at' = [at EXCEPT ![w] = "asleep"]
      BY <1>7, <1>d, <2>1 DEF Typed, Look
    <3> QED
      BY <1>7, <1>d, <2>1, <3>1, WorkerMoves DEF Typed, Look, body, calls, Places
  <2>2. CASE queue # <<>>
    <3>1. Head(queue) \in Tasks /\ Tail(queue) \in Seq(Tasks)
      BY <1>d, <2>2 DEF Typed
    <3> DEFINE k == Head(queue)
    <3>2. k \in Tasks /\ k # NoTask /\ queue' \in Seq(Tasks)
      BY <1>0, <1>7, <2>2, <3>1 DEF Look
    <3>3. at' = [at EXCEPT ![w] = "popped"] /\ task' = [task EXCEPT ![w] = k]
      BY <1>7, <2>2 DEF Look
    <3> HIDE DEF k
    <3> QED
      BY <1>7, <1>d, <3>2, <3>3, WorkerMoves DEF Typed, Look, body, calls, Places
  <2> QED
    BY <2>1, <2>2
<1>8. ASSUME NEW w \in Workers, SpuriousWake(w) PROVE TypeOK'
  <2>1. Typed'
    BY <1>8, <1>d DEF Typed, SpuriousWake, body, calls, Places
  <2> QED
    BY <1>8, <1>b, <1>c, <2>1 DEF SpuriousWake, body
<1>9. ASSUME NEW w \in Workers, Clear(w) PROVE TypeOK'
  <2>1. Typed'
    BY <1>9, <1>d DEF Typed, Clear, body, calls, Places
  <2> QED
    BY <1>9, <1>b, <1>c, <2>1 DEF Clear, body
<1>10. ASSUME NEW w \in Workers, Enter(w) PROVE TypeOK'
  <2> SUFFICES Typed'
    BY <1>10, <1>b, <1>c DEF Enter, body
  <2>1. CASE Release(w)
    BY <1>10, <1>d, <2>1, WorkerMoves DEF Typed, Enter, Release, body, calls, Places
  <2>2. CASE at' = [at EXCEPT ![w] = "polling"] /\ UNCHANGED task
    <3>1. task' = [task EXCEPT ![w] = task[w]] /\ task[w] \in Tasks
      BY <1>10, <1>d, <2>2 DEF Typed, Enter
    <3> QED
      BY <1>0, <1>10, <1>d, <2>2, <3>1, WorkerMoves DEF Typed, Enter, body, calls, Places
  <2> QED
    BY <1>10, <2>1, <2>2 DEF Enter
<1>11. ASSUME NEW w \in Workers, PollAcquire(w) PROVE TypeOK'
  <2>1. task[w] \in Tasks /\ future[task[w]] = "begins" /\ permits \in Nat
    BY <1>11, <1>d DEF Typed, PollAcquire, Polls
  <2>2. CASE permits > 0
    <3>1. Cardinality(Inside') = Cardinality(Inside) + 1
      BY <1>11, <2>1, <2>2, InsideMoves DEF PollAcquire, Stages
    <3>2. Conserved' /\ permits' \in Nat
      BY <1>0, <1>11, <1>a, <2>1, <2>2, <3>1 DEF PollAcquire, Conserved
    <3>3. Typed'
      BY <1>11, <1>d, <2>1, <2>2, <3>2 DEF Typed, PollAcquire, calls, Stages
    <3> QED
      BY <1>c, <3>2, <3>3
  <2>3. CASE permits = 0
    <3>1. Inside' = Inside
      <4>1. CASE expired[task[w]]
        BY <1>11, <2>1, <2>3, <4>1, InsideMoves DEF PollAcquire, Stages
      <4>2. CASE ~expired[task[w]]
        BY <1>11, <2>1, <2>3, <4>2 DEF PollAcquire, Inside
      <4> QED
        BY <4>1, <4>2
    <3>2. Append(waiters, task[w]) \in Seq(Tasks)
      BY <1>d, <2>1 DEF Typed
    <3>3. future' \in [Tasks -> Stages]
      BY <1>11, <1>d, <2>1, <2>3 DEF Typed, PollAcquire, Stages
    <3>4. Release(w) /\ cell' = cell /\ permits' = permits /\ queue' = queue
          /\ waiters' \in Seq(Tasks)
      BY <1>11, <2>3, <3>2 DEF PollAcquire
    <3>5. Typed'
      BY <1>11, <1>d, <3>3, <3>4, WorkerMoves DEF Typed, Release, Places, PollAcquire, calls
    <3> QED
      BY <1>11, <1>a, <1>c, <2>3, <3>1, <3>5 DEF PollAcquire, Conserved
  <2> QED
    BY <2>1, <2>2, <2>3
<1>12. ASSUME NEW w \in Workers, PollCell(w) PROVE TypeOK'
  <2>1. Typed'
    BY <1>12, <1>d DEF Typed, PollCell, Polls, Release, calls, Places
  <2> QED
    BY <1>12, <1>b, <1>c, <2>1 DEF PollCell
<1>13. ASSUME NEW w \in Workers, Leave(w) PROVE TypeOK'
  <2>1. task[w] \in Tasks /\ future[task[w]] = "copying" /\ permits \in Nat
    BY <1>13, <1>d DEF Typed, Leave, Polls
  <2>2. Cardinality(Inside') = Cardinality(Inside) - 1
    BY <1>13, <2>1, InsideMoves DEF Leave, Stages
  <2>3. Conserved'
    BY <1>0, <1>13, <1>a, <2>1, <2>2 DEF Leave, PermitDrop, Conserved
  <2>4. Typed'
    BY <1>0, <1>13, <1>d, <2>1 DEF Typed, Leave, PermitDrop, exec, Stages
  <2> QED
    BY <1>c, <2>3, <2>4
<1>14. ASSUME NEW w \in Workers, EndPoll(w) PROVE TypeOK'
  <2>1. Typed'
    BY <1>14, <1>d DEF Typed, EndPoll, Polls, Release, body, calls, Places
  <2> QED
    BY <1>14, <1>b, <1>c, <2>1 DEF EndPoll, body
<1> QED
  BY <1>1, <1>2, <1>3, <1>4, <1>5, <1>6, <1>7, <1>8, <1>9, <1>10, <1>11, <1>12, <1>13, <1>14
  DEF Next

-----------------------------------------------------------------------------
(* Where the tasks are.                                                     *)

\* What every later lemma needs of the state before a step.
LEMMA Before ==
    ASSUME Typed
    PROVE  /\ Tasks \subseteq Actors /\ Workers \subseteq Actors /\ Spawner \in Actors
           /\ queue \in Seq(Tasks) /\ waiters \in Seq(Tasks)
           /\ queued \in [Tasks -> BOOLEAN]
           /\ future \in [Tasks -> Stages]
           /\ cell \in [Tasks -> {"unborn", "running", "done"}]
           /\ cellWaker \in [Tasks -> BOOLEAN]
           /\ at \in [Workers -> Places] /\ task \in [Workers -> Tasks \cup {NoTask}]
           /\ \A w \in Workers : at[w] \notin {"ready", "asleep"} => task[w] \in Tasks
           /\ toWake \in [Actors -> Seq(Tasks)]
           /\ step \in [Actors -> {"swap", "push", "notify"}]
           /\ permits \in Nat
BY DEF Typed, Actors

\* A call under way belongs to an actor that is making it.
LEMMA CallsStep ==
    ASSUME Typed, CallsUnderWay, Next
    PROVE  CallsUnderWay'
<1>1. ASSUME NEW a \in Actors, Swap(a) \/ Push(a) \/ Notify(a) PROVE CallsUnderWay'
  BY <1>1, Before DEF CallsUnderWay, Swap, Push, Notify
<1>2. ASSUME NEW t \in Tasks, Spawn(t) PROVE CallsUnderWay'
  BY <1>2, Before DEF CallsUnderWay, Spawn
<1>3. ASSUME NEW t \in Tasks, Expire(t) \/ Complete(t) PROVE CallsUnderWay'
  <2>1. toWake[t] \in Seq(Tasks)
    BY Before
  <2>2. Append(toWake[t], t) # <<>>
    BY <2>1, AppendProperties
  <2> QED
    BY <1>3, <2>2, Before DEF CallsUnderWay, Expire, Complete
<1>4. ASSUME NEW w \in Workers, Leave(w) PROVE CallsUnderWay'
  <2>1. toWake[w] = <<>> /\ step[w] = "swap"
    BY <1>4, Before DEF CallsUnderWay, Leave, Polls
  <2> QED
    BY <1>4, <2>1, Before DEF CallsUnderWay, Leave, PermitDrop
<1>5. ASSUME UNCHANGED calls PROVE CallsUnderWay'
  BY <1>5 DEF CallsUnderWay, calls
<1> QED
  BY <1>1, <1>2, <1>3, <1>4, <1>5
  DEF Next, Look, SpuriousWake, Clear, Enter, PollAcquire, PollCell, EndPoll

\* A task stays in its place if the queue, the pushes and the popped workers do.
LEMMA SamePlace ==
    ASSUME NEW t \in Tasks, OnePlace(t), queued'[t] = queued[t], UNCHANGED queue,
           UNCHANGED Pushing(t), UNCHANGED Popping(t)
    PROVE  OnePlace(t)'
BY DEF OnePlace, InQueue, AtMostOne

\* Setting the queued flag moves a task to one place at most.
LEMMA PlaceSwap ==
    ASSUME Typed, CallsUnderWay, NEW a \in Actors, Swap(a), NEW t \in Tasks, OnePlace(t)
    PROVE  OnePlace(t)'
<1> DEFINE h == Head(toWake[a])
<1>1. h \in Tasks /\ step[a] = "swap" /\ toWake[a] # <<>>
  BY Before DEF Swap
<1>2. UNCHANGED <<queue, at, task>> /\ queued' = [queued EXCEPT ![h] = TRUE]
  BY DEF Swap
<1>3. UNCHANGED InQueue(t) /\ UNCHANGED Popping(t)
  BY <1>2 DEF InQueue, Popping, In
<1>4. CASE queued[h]
  <2>1. Pushing(t)' = Pushing(t)
    BY <1>1, <1>4, Before DEF Swap, Pushing
  <2>2. queued'[t] = queued[t]
    BY <1>1, <1>2, <1>4, Before
  <2> QED
    BY <1>2, <1>3, <2>1, <2>2, SamePlace
<1>5. CASE ~queued[h]
  <2>1. toWake' = toWake /\ step' = [step EXCEPT ![a] = "push"]
    BY <1>5 DEF Swap
  <2>2. CASE t = h
    <3>1. Pushing(t) = {} /\ InQueue(t) = {} /\ Popping(t) = {}
      BY <1>5, <2>2 DEF OnePlace
    <3>2. Pushing(t)' = {a}
      BY <1>1, <2>1, <2>2, <3>1, Before DEF Pushing
    <3>3. queued'[t] = TRUE
      BY <1>2, <2>2, Before
    <3> QED
      BY <1>3, <3>1, <3>2, <3>3 DEF OnePlace, AtMostOne
  <2>3. CASE t # h
    <3>1. Pushing(t)' = Pushing(t)
      BY <1>1, <2>1, <2>3, Before DEF Pushing
    <3>2. queued'[t] = queued[t]
      BY <1>1, <1>2, <2>3, Before
    <3> QED
      BY <1>2, <1>3, <3>1, <3>2, SamePlace
  <2> QED
    BY <2>2, <2>3
<1> QED
  BY <1>4, <1>5

\* Pushing a task puts it in the queue, where it was not.
LEMMA PlacePush ==
    ASSUME Typed, NEW a \in Actors, Push(a), NEW t \in Tasks, OnePlace(t)
    PROVE  OnePlace(t)'
<1> DEFINE h == Head(toWake[a])
<1>1. h \in Tasks /\ step[a] = "push" /\ toWake[a] # <<>>
  BY Before DEF Push
<1>2. /\ UNCHANGED <<queued, at, task, toWake>> /\ queue' = Append(queue, h)
      /\ step' = [step EXCEPT ![a] = "notify"]
  BY DEF Push
<1>3. UNCHANGED Popping(t)
  BY <1>2 DEF Popping, In
<1>4. /\ Len(queue') = Len(queue) + 1 /\ DOMAIN queue = 1..Len(queue)
      /\ DOMAIN queue' = 1..(Len(queue) + 1)
      /\ \A i \in 1..Len(queue) : queue'[i] = queue[i]
      /\ queue'[Len(queue) + 1] = h
      /\ Len(queue) \in Nat
  BY <1>1, <1>2, Before
<1>5. CASE t = h
  <2>1. a \in Pushing(t)
    BY <1>1, <1>5 DEF Pushing
  <2>2. InQueue(t) = {} /\ Popping(t) = {} /\ queued[t] /\ Pushing(t) = {a}
    BY <2>1 DEF OnePlace, AtMostOne
  <2>3. Pushing(t)' = {}
    BY <1>2, <2>2, Before DEF Pushing
  <2>4. InQueue(t)' = {Len(queue) + 1}
    BY <1>4, <1>5, <2>2 DEF InQueue
  <2> QED
    BY <1>2, <1>3, <2>2, <2>3, <2>4 DEF OnePlace, AtMostOne
<1>6. CASE t # h
  <2>1. Pushing(t)' = Pushing(t)
    BY <1>1, <1>2, <1>6, Before DEF Pushing
  <2>2. InQueue(t)' = InQueue(t)
    BY <1>4, <1>6 DEF InQueue
  <2> QED
    BY <1>2, <1>3, <2>1, <2>2 DEF OnePlace
<1> QED
  BY <1>5, <1>6

\* Popping a task takes it from the queue, where it was once.
LEMMA PlaceLook ==
    ASSUME Typed, NEW w \in Workers, Look(w), NEW t \in Tasks, OnePlace(t)
    PROVE  OnePlace(t)'
<1>1. at[w] = "ready" /\ UNCHANGED <<queued, calls>>
  BY DEF Look
<1>2. UNCHANGED Pushing(t)
  BY <1>1 DEF Pushing, calls
<1>3. CASE queue = <<>>
  <2>1. at' = [at EXCEPT ![w] = "asleep"] /\ UNCHANGED <<queue, task>>
    BY <1>3 DEF Look
  <2>2. Popping(t)' = Popping(t)
    BY <1>1, <2>1, Before DEF Popping, In
  <2> QED
    BY <1>1, <1>2, <2>1, <2>2, SamePlace
<1>4. CASE queue # <<>>
  <2> DEFINE h == Head(queue)
  <2>1. /\ at' = [at EXCEPT ![w] = "popped"] /\ task' = [task EXCEPT ![w] = h]
        /\ queue' = Tail(queue) /\ h \in Tasks
    BY <1>4, Before DEF Look
  <2>2. /\ Len(queue) \in Nat \ {0} /\ DOMAIN queue = 1..Len(queue) /\ queue[1] = h
        /\ DOMAIN queue' = 1..(Len(queue) - 1)
        /\ \A i \in 1..(Len(queue) - 1) : queue'[i] = queue[i + 1]
    BY <1>4, <2>1, Before
  <2>3. \A i \in DOMAIN queue' : i + 1 \in DOMAIN queue /\ queue'[i] = queue[i + 1] /\ i + 1 # 1
    BY <2>2
  <2>4. CASE t = h
    <3>1. 1 \in InQueue(t)
      BY <2>2, <2>4 DEF InQueue
    <3>2. Pushing(t) = {} /\ Popping(t) = {} /\ queued[t] /\ InQueue(t) = {1}
      BY <3>1 DEF OnePlace, AtMostOne
    <3>3. InQueue(t)' = {}
      BY <2>3, <3>2 DEF InQueue
    <3>4. Popping(t)' = {w}
      BY <1>1, <2>1, <2>4, <3>2, Before DEF Popping, In
    <3> QED
      BY <1>1, <1>2, <3>2, <3>3, <3>4 DEF OnePlace, AtMostOne
  <2>5. CASE t # h
    <3>1. Popping(t)' = Popping(t)
      BY <1>1, <2>1, <2>5, Before DEF Popping, In
    <3>2. \A i \in InQueue(t) : i # 1 /\ i - 1 \in InQueue(t)'
      BY <2>2, <2>5 DEF InQueue
    <3>3. \A i \in InQueue(t)' : i + 1 \in InQueue(t)
      BY <2>3 DEF InQueue
    <3>4. \A i \in InQueue(t)' : i \in Nat
      BY <2>2 DEF InQueue
    <3>5. AtMostOne(InQueue(t)')
      BY <3>3, <3>4 DEF OnePlace, AtMostOne
    <3>6. InQueue(t)' = {} <=> InQueue(t) = {}
      BY <3>2, <3>3
    <3> QED
      BY <1>1, <1>2, <3>1, <3>5, <3>6 DEF OnePlace, AtMostOne
  <2> QED
    BY <2>4, <2>5
<1> QED
  BY <1>3, <1>4

\* A task is in one place, whatever steps.
LEMMA PlaceStep ==
    ASSUME Typed, CallsUnderWay, UnbornIsUnknown, InOnePlace, Next
    PROVE  InOnePlace'
<1> SUFFICES ASSUME NEW t \in Tasks, OnePlace(t) PROVE OnePlace(t)'
  BY DEF InOnePlace
<1>1. ASSUME NEW a \in Actors, Notify(a) PROVE OnePlace(t)'
  <2>1. UNCHANGED <<queue, queued, task>> /\ step[a] = "notify"
    BY <1>1 DEF Notify
  <2>2. Pushing(t)' = Pushing(t)
    BY <1>1, <2>1, Before DEF Notify, Pushing
  <2>3. In({"popped"})' = In({"popped"})
    BY <1>1, Before DEF Notify, NotifyOne, In
  <2> QED
    BY <2>1, <2>2, <2>3, SamePlace DEF Popping
<1>2. ASSUME NEW u \in Tasks, Spawn(u) PROVE OnePlace(t)'
  <2>1. UNCHANGED <<queue, at, task>> /\ step[Spawner] = "swap" /\ toWake[Spawner] = <<>>
    BY <1>2, Before DEF Spawn, CallsUnderWay
  <2>2. UNCHANGED InQueue(t) /\ UNCHANGED Popping(t)
    BY <2>1 DEF InQueue, Popping, In
  <2>3. CASE t = u
    <3>1. Pushing(t) = {} /\ InQueue(t) = {} /\ Popping(t) = {}
      BY <1>2, <2>3 DEF OnePlace, Spawn, UnbornIsUnknown
    <3>2. Pushing(t)' = {Spawner}
      BY <1>2, <2>3, <3>1, Before DEF Pushing, Spawn
    <3>3. queued'[t] = TRUE
      BY <1>2, <2>3, Before DEF Spawn
    <3> QED
      BY <2>2, <3>1, <3>2, <3>3 DEF OnePlace, AtMostOne
  <2>4. CASE t # u
    <3>1. Pushing(t)' = Pushing(t) /\ queued'[t] = queued[t]
      BY <1>2, <2>1, <2>4, Before DEF Pushing, Spawn
    <3> QED
      BY <2>1, <2>2, <3>1, SamePlace
  <2> QED
    BY <2>3, <2>4
<1>3. ASSUME NEW u \in Tasks, Expire(u) \/ Complete(u) PROVE OnePlace(t)'
  <2>1. UNCHANGED <<queue, queued, at, task, step>>
    BY <1>3 DEF Expire, Complete, exec
  <2>2. \A a \in Actors : step[a] = "push" => Head(toWake'[a]) = Head(toWake[a])
    <3>1. toWake[u] # <<>> => Head(Append(toWake[u], u)) = Head(toWake[u])
      BY Before
    <3> QED
      BY <1>3, <3>1, Before DEF Expire, Complete, CallsUnderWay
  <2>3. UNCHANGED Pushing(t) /\ UNCHANGED Popping(t)
    BY <2>1, <2>2 DEF Pushing, Popping, In
  <2> QED
    BY <2>1, <2>3, SamePlace
<1>4. ASSUME NEW w \in Workers, Clear(w) PROVE OnePlace(t)'
  <2>1. at[w] = "popped" /\ UNCHANGED <<queue, task, calls>> /\ task[w] \in Tasks
    BY <1>4, Before DEF Clear
  <2>2. UNCHANGED InQueue(t) /\ UNCHANGED Pushing(t)
    BY <2>1 DEF InQueue, Pushing, calls
  <2>3. CASE t = task[w]
    <3>1. w \in Popping(t)
      BY <2>1, <2>3 DEF Popping, In
    <3>2. Pushing(t) = {} /\ InQueue(t) = {} /\ Popping(t) = {w}
      BY <3>1 DEF OnePlace, AtMostOne
    <3>3. Popping(t)' = {} /\ queued'[t] = FALSE
      BY <1>4, <2>1, <2>3, <3>2, Before DEF Popping, In, Clear
    <3> QED
      BY <2>2, <3>2, <3>3 DEF OnePlace, AtMostOne
  <2>4. CASE t # task[w]
    <3>1. Popping(t)' = Popping(t) /\ queued'[t] = queued[t]
      BY <1>4, <2>1, <2>4, Before DEF Popping, In, Clear
    <3> QED
      BY <2>1, <2>2, <3>1, SamePlace
  <2> QED
    BY <2>3, <2>4
<1>5. ASSUME NEW w \in Workers,
             SpuriousWake(w) \/ Enter(w) \/ PollAcquire(w) \/ PollCell(w) \/ EndPoll(w)
      PROVE  OnePlace(t)'
  <2>1. UNCHANGED <<queue, queued, calls>> /\ at[w] \in {"asleep", "cleared", "polling"}
    BY <1>5 DEF SpuriousWake, Enter, PollAcquire, PollCell, EndPoll, Polls
  <2>2. /\ \A v \in Workers \ {w} : at'[v] = at[v] /\ task'[v] = task[v]
        /\ at'[w] # "popped"
    BY <1>5, <2>1, Before
    DEF SpuriousWake, Enter, PollAcquire, PollCell, EndPoll, Polls, Release
  <2>3. UNCHANGED Pushing(t) /\ UNCHANGED Popping(t)
    BY <2>1, <2>2 DEF Pushing, Popping, In, calls
  <2> QED
    BY <2>1, <2>3, SamePlace
<1>6. ASSUME NEW w \in Workers, Leave(w) PROVE OnePlace(t)'
  <2>1. UNCHANGED <<queue, queued, at, task, step>> /\ step[w] = "swap"
    BY <1>6, Before DEF Leave, exec, Polls, CallsUnderWay
  <2>2. UNCHANGED Pushing(t) /\ UNCHANGED Popping(t)
    BY <1>6, <2>1, Before DEF Pushing, Popping, In, Leave, PermitDrop
  <2> QED
    BY <2>1, <2>2, SamePlace
<1> QED
  BY <1>1, <1>2, <1>3, <1>4, <1>5, <1>6, PlaceSwap, PlacePush, PlaceLook DEF Next

-----------------------------------------------------------------------------
(* Who is going to poll a task.                                             *)

\* The elements of a sequence of tasks that loses its first or gains a last one.
LEMMA TailElements ==
    ASSUME NEW s \in Seq(Tasks), s # <<>>
    PROVE  /\ 1 \in DOMAIN s /\ s[1] = Head(s) /\ Head(s) \in Tasks
           /\ \A i \in DOMAIN Tail(s) : i \in Nat \ {0} /\ i + 1 \in DOMAIN s /\ Tail(s)[i] = s[i + 1]
           /\ \A i \in DOMAIN s : i > 1 => i - 1 \in DOMAIN Tail(s) /\ Tail(s)[i - 1] = s[i]
OBVIOUS

\* What is in a sequence after an append.
LEMMA AppendElements ==
    ASSUME NEW s \in Seq(Tasks), NEW t \in Tasks
    PROVE  /\ \A i \in DOMAIN s : i \in DOMAIN Append(s, t) /\ Append(s, t)[i] = s[i]
           /\ Len(s) + 1 \in DOMAIN Append(s, t) /\ Append(s, t)[Len(s) + 1] = t
           /\ Len(s) \in Nat /\ (s # <<>> => Len(s) > 0)
           /\ \A i \in DOMAIN Append(s, t) : Append(s, t)[i] = t \/ (i \in DOMAIN s /\ Append(s, t)[i] = s[i])
OBVIOUS

\* Nobody mentions t.
Unknown(t) ==
    /\ ~queued[t] /\ cell[t] = "unborn" /\ ~Waits(t)
    /\ \A a \in Actors : \A i \in DOMAIN toWake[a] : toWake[a][i] # t

\* A task that was never spawned is nowhere.
LEMMA UnbornStep ==
    ASSUME Typed, UnbornIsUnknown, InOnePlace, Next
    PROVE  UnbornIsUnknown'
<1> SUFFICES ASSUME NEW t \in Tasks, future'[t] = "unborn"
             PROVE  Unknown(t)'
  BY DEF UnbornIsUnknown, Unknown
<1>1. ASSUME NEW a \in Actors, Swap(a) PROVE Unknown(t)'
  <2>1. future[t] = "unborn" /\ toWake[a] \in Seq(Tasks) /\ toWake[a] # <<>>
    BY <1>1, Before DEF Swap, body
  <2>2. Unknown(t)
    BY <2>1 DEF UnbornIsUnknown, Unknown
  <2>3. Head(toWake[a]) # t /\ \A i \in DOMAIN Tail(toWake[a]) : Tail(toWake[a])[i] # t
    BY <2>1, <2>2, TailElements DEF Unknown
  <2>4. \A b \in Actors : \A i \in DOMAIN toWake'[b] : toWake'[b][i] # t
    BY <1>1, <2>2, <2>3, Before DEF Unknown, Swap
  <2>5. queued'[t] = queued[t]
    BY <1>1, <2>1, <2>3, Before, TailElements DEF Swap
  <2> QED
    BY <1>1, <2>2, <2>4, <2>5 DEF Unknown, Swap, Waits, body
<1>2. ASSUME NEW a \in Actors, Push(a) PROVE Unknown(t)'
  BY <1>2 DEF UnbornIsUnknown, Unknown, Push, Waits, body
<1>3. ASSUME NEW a \in Actors, Notify(a) PROVE Unknown(t)'
  <2>1. future[t] = "unborn" /\ toWake[a] \in Seq(Tasks) /\ toWake[a] # <<>>
    BY <1>3, Before DEF Notify, body
  <2>2. Unknown(t)
    BY <2>1 DEF UnbornIsUnknown, Unknown
  <2>3. \A i \in DOMAIN Tail(toWake[a]) : Tail(toWake[a])[i] # t
    BY <2>1, <2>2, TailElements DEF Unknown
  <2> QED
    BY <1>3, <2>1, <2>2, <2>3, Before DEF Unknown, Notify, Waits, body
<1>4. ASSUME NEW u \in Tasks, Spawn(u) PROVE Unknown(t)'
  <2>1. future[t] = "unborn" /\ t # u
    BY <1>4, Before DEF Spawn
  <2>2. Unknown(t)
    BY <2>1 DEF UnbornIsUnknown, Unknown
  <2> QED
    BY <1>4, <2>1, <2>2, Before DEF Unknown, Spawn, Waits
<1>5. ASSUME NEW u \in Tasks, Expire(u) \/ Complete(u) PROVE Unknown(t)'
  <2>1. future[t] = "unborn" /\ UNCHANGED <<queued, waiters>>
    BY <1>5 DEF Expire, Complete, exec
  <2>2. Unknown(t) /\ t # u
    BY <1>5, <2>1 DEF UnbornIsUnknown, Unknown, Expire, Complete
  <2>3. cell'[t] = cell[t]
    BY <1>5, <2>2, Before DEF Expire, Complete
  <2>4. toWake[u] \in Seq(Tasks)
    BY Before
  <2>5. \A i \in DOMAIN Append(toWake[u], u) : Append(toWake[u], u)[i] # t
    BY <2>2, <2>4, AppendElements, Before DEF Unknown
  <2>6. \A a \in Actors : \A i \in DOMAIN toWake'[a] : toWake'[a][i] # t
    BY <1>5, <2>2, <2>5, Before DEF Unknown, Expire, Complete
  <2> QED
    BY <2>1, <2>2, <2>3, <2>6 DEF Unknown, Waits
<1>6. ASSUME NEW w \in Workers, Look(w) \/ SpuriousWake(w) \/ Enter(w) \/ EndPoll(w)
      PROVE  Unknown(t)'
  BY <1>6 DEF UnbornIsUnknown, Unknown, Look, SpuriousWake, Enter, EndPoll, Waits, body, calls
<1>7. ASSUME NEW w \in Workers, Clear(w) PROVE Unknown(t)'
  <2>1. Unknown(t) /\ task[w] \in Tasks
    BY <1>7, Before DEF UnbornIsUnknown, Unknown, Clear, body
  <2> QED
    BY <1>7, <2>1, Before DEF Unknown, Clear, Waits, body, calls
<1>8. ASSUME NEW w \in Workers, PollAcquire(w) PROVE Unknown(t)'
  <2>1. task[w] \in Tasks /\ future[task[w]] = "begins"
    BY <1>8, Before DEF PollAcquire, Polls
  <2>2. future[t] = "unborn"
    BY <1>8, <2>1, Before DEF PollAcquire
  <2>3. Unknown(t) /\ t # task[w]
    BY <2>1, <2>2 DEF UnbornIsUnknown, Unknown
  <2>4. ~Waits(t)'
    <3>1. CASE waiters' = Append(waiters, task[w])
      <4>1. waiters \in Seq(Tasks)
        BY Before
      <4>2. \A i \in DOMAIN Append(waiters, task[w]) : Append(waiters, task[w])[i] # t
        BY <2>1, <2>3, <4>1, AppendElements DEF Waits, Unknown
      <4> QED
        BY <3>1, <4>2 DEF Waits
    <3>2. CASE UNCHANGED waiters
      BY <2>3, <3>2 DEF Waits, Unknown
    <3> QED
      BY <1>8, <3>1, <3>2 DEF PollAcquire
  <2> QED
    BY <1>8, <2>1, <2>3, <2>4, Before DEF Unknown, PollAcquire, calls
<1>9. ASSUME NEW w \in Workers, PollCell(w) PROVE Unknown(t)'
  BY <1>9 DEF UnbornIsUnknown, Unknown, PollCell, Waits, calls
<1>10. ASSUME NEW w \in Workers, Leave(w) PROVE Unknown(t)'
  <2>1. task[w] \in Tasks /\ future[task[w]] = "copying"
    BY <1>10, Before DEF Leave, Polls
  <2>2. future[t] = "unborn"
    BY <1>10, <2>1, Before DEF Leave
  <2>3. Unknown(t)
    BY <2>2 DEF UnbornIsUnknown, Unknown
  <2>4. waiters' = <<>> /\ \A i \in DOMAIN waiters : waiters[i] # t
    BY <1>10, <2>3 DEF Leave, PermitDrop, Unknown, Waits
  <2>5. \A a \in Actors : \A i \in DOMAIN toWake'[a] : toWake'[a][i] # t
    BY <1>10, <2>3, <2>4, Before DEF Leave, PermitDrop, Unknown
  <2> QED
    BY <1>10, <2>3, <2>4, <2>5 DEF Unknown, Waits, Leave, exec
<1> QED
  BY <1>1, <1>2, <1>3, <1>4, <1>5, <1>6, <1>7, <1>8, <1>9, <1>10 DEF Next

\* A worker that polls t, or is about to.
Polled(t) == \E w \in In({"cleared", "polling"}) : task[w] = t

\* A poll of t that is coming still is after a step that lets no worker go of t.
LEMMA StillComing ==
    ASSUME Typed, CallsUnderWay, Next, NEW t \in Tasks, Coming(t), Polled(t) => Polled(t)'
    PROVE  Coming(t)'
<1>0. Coming(t) <=> queued[t] \/ WakePending(t) \/ Polled(t)
  BY DEF Coming, Polled
<1>1. SUFFICES ASSUME ~Polled(t) PROVE Coming(t)'
  BY <1>1 DEF Coming, Polled
<1>2. ASSUME NEW a \in Actors, Swap(a) PROVE Coming(t)'
  <2> DEFINE h == Head(toWake[a])
  <2>1. toWake[a] \in Seq(Tasks) /\ toWake[a] # <<>> /\ step[a] = "swap" /\ h \in Tasks
    BY <1>2, Before, TailElements DEF Swap
  <2>2. queued'[h] = TRUE /\ (queued[t] => queued'[t])
    BY <1>2, <2>1, Before DEF Swap
  <2>3. CASE t = h
    BY <2>2, <2>3 DEF Coming
  <2>4. CASE t # h /\ ~queued[t]
    <3>0. PICK b \in Actors :
             \E i \in DOMAIN toWake[b] : toWake[b][i] = t /\ (i > 1 \/ step[b] = "swap")
      BY <1>0, <1>1, <2>4 DEF WakePending
    <3>1. PICK i \in DOMAIN toWake[b] : toWake[b][i] = t /\ (i > 1 \/ step[b] = "swap")
      BY <3>0
    <3>2. CASE b # a
      <4>1. toWake'[b] = toWake[b] /\ step'[b] = step[b]
        BY <1>2, <3>2, Before DEF Swap
      <4> QED
        BY <3>1, <4>1 DEF Coming, WakePending
    <3>3. CASE b = a /\ ~queued[h]
      <4>1. toWake' = toWake
        BY <1>2, <3>3 DEF Swap
      <4>2. i > 1
        BY <2>1, <2>4, <3>1, <3>3, TailElements
      <4> QED
        BY <3>1, <4>1, <4>2 DEF Coming, WakePending
    <3>4. CASE b = a /\ queued[h]
      <4>1. toWake'[a] = Tail(toWake[a]) /\ step'[a] = "swap"
        BY <1>2, <2>1, <3>4, Before DEF Swap
      <4>2. i > 1
        BY <2>1, <2>4, <3>1, <3>4, TailElements
      <4>3. i - 1 \in DOMAIN toWake'[a] /\ toWake'[a][i - 1] = t
        BY <2>1, <3>1, <3>4, <4>1, <4>2, TailElements
      <4> QED
        BY <4>1, <4>3 DEF Coming, WakePending
    <3> QED
      BY <3>2, <3>3, <3>4
  <2> QED
    BY <2>2, <2>3, <2>4 DEF Coming
<1>3. ASSUME NEW a \in Actors, Push(a) PROVE Coming(t)'
  <2>1. UNCHANGED <<queued, toWake>> /\ step[a] = "push"
    BY <1>3 DEF Push
  <2>2. \A b \in Actors : step[b] = "swap" => step'[b] = "swap"
    BY <1>3, <2>1, Before DEF Push
  <2> QED
    BY <1>0, <1>1, <2>1, <2>2 DEF Coming, WakePending
<1>4. ASSUME NEW a \in Actors, Notify(a) PROVE Coming(t)'
  <2>1. /\ toWake[a] \in Seq(Tasks) /\ toWake[a] # <<>> /\ step[a] = "notify"
        /\ queued' = queued /\ toWake' = [toWake EXCEPT ![a] = Tail(@)]
        /\ step' = [step EXCEPT ![a] = "swap"]
    BY <1>4, Before DEF Notify
  <2>2. CASE queued[t]
    BY <2>1, <2>2 DEF Coming
  <2>3. CASE ~queued[t]
    <3>0. PICK b \in Actors :
             \E i \in DOMAIN toWake[b] : toWake[b][i] = t /\ (i > 1 \/ step[b] = "swap")
      BY <1>0, <1>1, <2>3 DEF WakePending
    <3>1. PICK i \in DOMAIN toWake[b] : toWake[b][i] = t /\ (i > 1 \/ step[b] = "swap")
      BY <3>0
    <3>2. CASE b # a
      <4>1. toWake'[b] = toWake[b] /\ step'[b] = step[b]
        BY <2>1, <3>2, Before
      <4> QED
        BY <3>1, <4>1 DEF Coming, WakePending
    <3>3. CASE b = a
      <4>1. i > 1 /\ toWake'[a] = Tail(toWake[a]) /\ step'[a] = "swap"
        BY <2>1, <3>1, <3>3, Before
      <4>2. i - 1 \in DOMAIN toWake'[a] /\ toWake'[a][i - 1] = t
        BY <2>1, <3>1, <3>3, <4>1, TailElements
      <4> QED
        BY <4>1, <4>2 DEF Coming, WakePending
    <3> QED
      BY <3>2, <3>3
  <2> QED
    BY <2>2, <2>3
<1>5. ASSUME NEW u \in Tasks, Spawn(u) PROVE Coming(t)'
  <2>1. CASE queued[t]
    BY <1>5, <2>1, Before DEF Spawn, Coming
  <2>2. CASE ~queued[t]
    <3>0. PICK b \in Actors :
             \E i \in DOMAIN toWake[b] : toWake[b][i] = t /\ (i > 1 \/ step[b] = "swap")
      BY <1>0, <1>1, <2>2 DEF WakePending
    <3>1. PICK i \in DOMAIN toWake[b] : toWake[b][i] = t /\ (i > 1 \/ step[b] = "swap")
      BY <3>0
    <3>2. b # Spawner
      BY <1>5, <3>1 DEF Spawn
    <3>3. toWake'[b] = toWake[b] /\ step'[b] = step[b]
      BY <1>5, <3>2, Before DEF Spawn
    <3> QED
      BY <3>1, <3>3 DEF Coming, WakePending
  <2> QED
    BY <2>1, <2>2
<1>6. ASSUME NEW u \in Tasks, Expire(u) \/ Complete(u) PROVE Coming(t)'
  <2>1. UNCHANGED <<queued, step>> /\ toWake[u] \in Seq(Tasks)
    BY <1>6, Before DEF Expire, Complete, exec
  <2>2. CASE queued[t]
    BY <2>1, <2>2 DEF Coming
  <2>3. CASE ~queued[t]
    <3>0. PICK b \in Actors :
             \E i \in DOMAIN toWake[b] : toWake[b][i] = t /\ (i > 1 \/ step[b] = "swap")
      BY <1>0, <1>1, <2>3 DEF WakePending
    <3>1. PICK i \in DOMAIN toWake[b] : toWake[b][i] = t /\ (i > 1 \/ step[b] = "swap")
      BY <3>0
    <3>2. toWake'[b] = toWake[b] \/ (b = u /\ toWake'[b] = Append(toWake[u], u))
      BY <1>6, Before DEF Expire, Complete
    <3>3. i \in DOMAIN toWake'[b] /\ toWake'[b][i] = t
      BY <2>1, <3>1, <3>2, AppendElements
    <3> QED
      BY <2>1, <3>1, <3>3 DEF Coming, WakePending
  <2> QED
    BY <2>2, <2>3
<1>7. ASSUME NEW w \in Workers, Clear(w) PROVE Coming(t)'
  <2>1. UNCHANGED calls /\ task' = task /\ at' = [at EXCEPT ![w] = "cleared"]
    BY <1>7 DEF Clear
  <2>2. CASE WakePending(t)
    BY <2>1, <2>2 DEF Coming, WakePending, calls
  <2>3. CASE t = task[w]
    BY <2>1, <2>3, Before DEF Coming, In
  <2>4. CASE t # task[w]
    <3>1. queued'[t] = queued[t]
      BY <1>7, <2>4, Before DEF Clear
    <3> QED
      BY <1>0, <1>1, <2>2, <3>1 DEF Coming
  <2> QED
    BY <2>3, <2>4
<1>8. ASSUME NEW w \in Workers, Leave(w) PROVE Coming(t)'
  <2>1. toWake[w] = <<>> /\ UNCHANGED <<queued, step>>
    BY <1>8 DEF Leave, Polls, exec
  <2>2. CASE queued[t]
    BY <2>1, <2>2 DEF Coming
  <2>3. CASE ~queued[t]
    <3>0. PICK b \in Actors :
             \E i \in DOMAIN toWake[b] : toWake[b][i] = t /\ (i > 1 \/ step[b] = "swap")
      BY <1>0, <1>1, <2>3 DEF WakePending
    <3>1. PICK i \in DOMAIN toWake[b] : toWake[b][i] = t /\ (i > 1 \/ step[b] = "swap")
      BY <3>0
    <3>2. toWake'[b] = toWake[b]
      BY <1>8, <2>1, <3>1, Before DEF Leave, PermitDrop
    <3> QED
      BY <2>1, <3>1, <3>2 DEF Coming, WakePending
  <2> QED
    BY <2>2, <2>3
<1>9. ASSUME UNCHANGED <<queued, calls>> PROVE Coming(t)'
  BY <1>0, <1>1, <1>9 DEF Coming, WakePending, calls
<1> QED
  BY <1>2, <1>3, <1>4, <1>5, <1>6, <1>7, <1>8, <1>9
  DEF Next, Look, SpuriousWake, Enter, PollAcquire, PollCell, EndPoll

\* Only the poll that ends, or that leaves its waker behind, lets go of a task.
LEMMA PolledStep ==
    ASSUME Typed, Next, NEW t \in Tasks, Polled(t)
    PROVE  \/ Polled(t)'
           \/ \E w \in Workers :
                 /\ task[w] = t /\ at[w] \in {"cleared", "polling"}
                 /\ \/ Enter(w) /\ future[t] = "ended"
                    \/ PollAcquire(w) /\ permits = 0
                    \/ PollCell(w) \/ EndPoll(w)
<1>1. PICK w \in Workers : task[w] = t /\ at[w] \in {"cleared", "polling"}
  BY DEF Polled, In
<1>2. CASE at'[w] \in {"cleared", "polling"} /\ task'[w] = task[w]
  BY <1>1, <1>2 DEF Polled, In
<1>3. ASSUME NEW a \in Actors, Swap(a) \/ Push(a) \/ Notify(a)
      PROVE  at'[w] = at[w] /\ task'[w] = task[w]
  BY <1>1, <1>3, Before DEF Swap, Push, Notify, NotifyOne, In
<1>4. ASSUME NEW u \in Tasks, Spawn(u) \/ Expire(u) \/ Complete(u)
      PROVE  at'[w] = at[w] /\ task'[w] = task[w]
  BY <1>4 DEF Spawn, Expire, Complete, exec
<1>5. ASSUME NEW v \in Workers, Look(v) \/ SpuriousWake(v) \/ Clear(v) \/ Leave(v)
      PROVE  at'[w] = at[w] /\ task'[w] = task[w]
  BY <1>1, <1>5, Before DEF Look, SpuriousWake, Clear, Leave, exec
<1>6. ASSUME NEW v \in Workers, v # w,
             Enter(v) \/ PollAcquire(v) \/ PollCell(v) \/ EndPoll(v)
      PROVE  at'[w] = at[w] /\ task'[w] = task[w]
  BY <1>6, Before DEF Enter, PollAcquire, PollCell, EndPoll, Release
<1>7. CASE Enter(w)
  BY <1>1, <1>2, <1>7, Before DEF Enter, Release
<1>8. CASE PollAcquire(w)
  BY <1>1, <1>2, <1>8, Before DEF PollAcquire
<1> QED
  BY <1>1, <1>2, <1>3, <1>4, <1>5, <1>6, <1>7, <1>8 DEF Next

\* While permits are free nobody waits.
LEMMA WaitersStep ==
    ASSUME Typed, permits > 0 => waiters = <<>>, Next
    PROVE  (permits > 0 => waiters = <<>>)'
<1>1. ASSUME NEW w \in Workers, PollAcquire(w) PROVE permits' > 0 => waiters' = <<>>
  BY <1>1, Before DEF PollAcquire
<1>2. ASSUME NEW w \in Workers, Leave(w) PROVE permits' > 0 => waiters' = <<>>
  BY <1>2 DEF Leave, PermitDrop
<1> QED
  BY <1>1, <1>2
  DEF Next, Swap, Push, Notify, Spawn, Expire, Complete, Look, SpuriousWake, Clear, Enter,
      PollCell, EndPoll, body

\* A task that was spawned is polled, or is going to be.
LEMMA BeginsStep ==
    ASSUME Typed, CallsUnderWay, Next, NEW t \in Tasks,
           future[t] = "begins" => Coming(t) \/ Waits(t), future'[t] = "begins"
    PROVE  (Coming(t) \/ Waits(t))'
<1>1. CASE future[t] # "begins"
  <2>1. PICK u \in Tasks : Spawn(u)
    BY <1>1, Before
    DEF Next, Swap, Push, Notify, Expire, Complete, Look, SpuriousWake, Clear, Enter,
        PollAcquire, PollCell, Leave, EndPoll, body
  <2>2. t = u
    BY <1>1, <2>1, Before DEF Spawn
  <2>3. queued'[t]
    BY <2>1, <2>2, Before DEF Spawn
  <2> QED
    BY <2>3 DEF Coming
<1>2. CASE future[t] = "begins" /\ Waits(t)
  <2>1. CASE UNCHANGED waiters
    BY <1>2, <2>1 DEF Waits
  <2>2. ASSUME NEW w \in Workers, PollAcquire(w), waiters' = Append(waiters, task[w])
        PROVE  Waits(t)'
    <3>1. waiters \in Seq(Tasks) /\ task[w] \in Tasks
      BY <2>2, Before DEF PollAcquire, Polls
    <3> QED
      BY <1>2, <2>2, <3>1, AppendElements DEF Waits
  <2>3. ASSUME NEW w \in Workers, Leave(w) PROVE Coming(t)'
    <3>1. toWake'[w] = waiters /\ step'[w] = "swap" /\ w \in Actors
      BY <2>3, Before DEF Leave, PermitDrop, Polls, CallsUnderWay
    <3> QED
      BY <1>2, <3>1 DEF Waits, Coming, WakePending
  <2> QED
    BY <2>1, <2>2, <2>3
    DEF Next, Swap, Push, Notify, Spawn, Expire, Complete, Look, SpuriousWake, Clear, Enter,
        PollAcquire, PollCell, EndPoll, body
<1>3. CASE future[t] = "begins" /\ Coming(t)
  <2>1. CASE Polled(t) => Polled(t)'
    BY <1>3, <2>1, StillComing
  <2>2. CASE Polled(t) /\ ~Polled(t)'
    <3>1. PICK w \in Workers :
             /\ task[w] = t
             /\ \/ Enter(w) /\ future[t] = "ended"
                \/ PollAcquire(w) /\ permits = 0
                \/ PollCell(w) \/ EndPoll(w)
      BY <2>2, PolledStep
    <3>2. PollAcquire(w) /\ permits = 0
      BY <1>3, <3>1 DEF PollCell, EndPoll, Polls
    <3>3. waiters' = Append(waiters, t) /\ waiters \in Seq(Tasks)
      BY <3>1, <3>2, Before DEF PollAcquire
    <3>4. Len(waiters) + 1 \in DOMAIN waiters' /\ waiters'[Len(waiters) + 1] = t
      BY <3>3, AppendElements
    <3> QED
      BY <3>4 DEF Waits
  <2> QED
    BY <2>1, <2>2
<1> QED
  BY <1>1, <1>2, <1>3

\* A task that awaits its job: the job is born, and the task's waker is in its cell
\* unless a poll is coming.
Awaits(t) ==
    future[t] = "copying" =>
        cell[t] # "unborn" /\ (Coming(t) \/ (cell[t] = "running" /\ cellWaker[t]))

\* A task that waits has its waker where the permit or the result will find it.
LEMMA AwaitsStep ==
    ASSUME Typed, CallsUnderWay, Next, NEW t \in Tasks, Awaits(t)
    PROVE  Awaits(t)'
<1> SUFFICES ASSUME future'[t] = "copying"
             PROVE  /\ cell'[t] # "unborn"
                    /\ Coming(t)' \/ (cell'[t] = "running" /\ cellWaker'[t])
  BY DEF Awaits
<1>1. CASE future[t] # "copying"
  <2>1. PICK w \in Workers : PollAcquire(w)
    BY <1>1, Before
    DEF Next, Swap, Push, Notify, Spawn, Expire, Complete, Look, SpuriousWake, Clear, Enter,
        PollCell, Leave, EndPoll, body
  <2>2. task[w] = t /\ at'[w] = "polling" /\ task'[w] = t /\ cell'[t] = "running"
    BY <1>1, <2>1, Before DEF PollAcquire, Polls
  <2> QED
    BY <2>2 DEF Coming, In
<1>2. CASE future[t] = "copying"
  <2>0. cell[t] # "unborn" /\ (Coming(t) \/ (cell[t] = "running" /\ cellWaker[t]))
    BY <1>2 DEF Awaits
  <2>1. cell'[t] # "unborn"
    BY <2>0, Before
    DEF Next, Swap, Push, Notify, Spawn, Expire, Complete, Look, SpuriousWake, Clear, Enter,
        PollAcquire, PollCell, Leave, EndPoll, body
  <2>2. CASE cell[t] = "running" /\ cellWaker[t]
    <3>1. CASE cell'[t] = cell[t] /\ cellWaker'[t] = cellWaker[t]
      BY <2>1, <2>2, <3>1
    <3>2. CASE Complete(t)
      <4>1. toWake'[t] = Append(toWake[t], t) /\ toWake[t] \in Seq(Tasks) /\ t \in Actors
        BY <2>2, <3>2, Before DEF Complete
      <4>2. step'[t] = step[t] /\ (toWake[t] = <<>> => step[t] = "swap")
        BY <3>2, <4>1, Before DEF Complete, CallsUnderWay
      <4>3. Len(toWake[t]) + 1 > 1 \/ step[t] = "swap"
        BY <4>1, <4>2, AppendElements
      <4>4. WakePending(t)'
        BY <4>1, <4>2, <4>3, AppendElements DEF WakePending
      <4> QED
        BY <2>1, <4>4 DEF Coming
    <3>3. ASSUME NEW w \in Workers, PollAcquire(w) \/ PollCell(w)
          PROVE  cell'[t] = cell[t] /\ cellWaker'[t] = cellWaker[t]
      BY <1>2, <2>2, <3>3, Before DEF PollAcquire, PollCell, Polls
    <3>4. ASSUME NEW u \in Tasks, u # t, Complete(u)
          PROVE  cell'[t] = cell[t] /\ cellWaker'[t] = cellWaker[t]
      BY <3>4, Before DEF Complete
    <3> QED
      BY <3>1, <3>2, <3>3, <3>4
      DEF Next, Swap, Push, Notify, Spawn, Expire, Look, SpuriousWake, Clear, Enter,
          Leave, EndPoll, body
  <2>3. CASE Coming(t)
    <3>1. CASE Polled(t) => Polled(t)'
      BY <2>1, <2>3, <3>1, StillComing
    <3>2. CASE Polled(t) /\ ~Polled(t)'
      <4>1. PICK w \in Workers :
               /\ task[w] = t
               /\ \/ Enter(w) /\ future[t] = "ended"
                  \/ PollAcquire(w) /\ permits = 0
                  \/ PollCell(w) \/ EndPoll(w)
        BY <3>2, PolledStep
      <4>2. PollCell(w)
        BY <1>2, <4>1 DEF PollAcquire, EndPoll, Polls
      <4>3. cell'[t] = "running" /\ cellWaker'[t]
        BY <4>1, <4>2, Before DEF PollCell
      <4> QED
        BY <2>1, <4>3
    <3> QED
      BY <3>1, <3>2
  <2> QED
    BY <2>0, <2>2, <2>3
<1> QED
  BY <1>1, <1>2

\* Every task that can go on is going to be polled, whatever steps.
LEMMA WokenStep ==
    ASSUME Typed, CallsUnderWay, WillBeWoken, Next
    PROVE  WillBeWoken'
<1>1. (permits > 0 => waiters = <<>>)'
  BY WaitersStep DEF WillBeWoken
<1>2. ASSUME NEW t \in Tasks
      PROVE  (future[t] = "begins" => Coming(t) \/ Waits(t))' /\ Awaits(t)'
  BY BeginsStep, AwaitsStep DEF WillBeWoken, Awaits
<1> QED
  BY <1>1, <1>2 DEF WillBeWoken, Awaits
-----------------------------------------------------------------------------
(* The workers that sleep.                                                  *)

Ready == In({"ready"})
Notifying == {a \in Actors : step[a] = "notify"}

\* The sets whose members are counted are finite.
LEMMA Finite ==
    ASSUME ExecutorAssumption, Typed
    PROVE  /\ IsFiniteSet(Ready) /\ Cardinality(Ready) \in Nat
           /\ IsFiniteSet(Notifying) /\ Cardinality(Notifying) \in Nat
           /\ queue \in Seq(Tasks) /\ Len(queue) \in Nat
<1>1. IsFiniteSet(Tasks) /\ IsFiniteSet(Workers)
  BY FS_Interval DEF ExecutorAssumption, Tasks
<1>2. IsFiniteSet(Actors)
  BY <1>1, FS_Union, FS_Singleton DEF Actors
<1>3. IsFiniteSet(Ready) /\ IsFiniteSet(Notifying)
  BY <1>1, <1>2, FS_Subset DEF Ready, In, Notifying
<1> QED
  BY <1>3, FS_CardinalityType, Before

\* A worker that comes to look makes one more, and one that goes one less.
LEMMA ReadyMoves ==
    ASSUME ExecutorAssumption, Typed, NEW w \in Workers, NEW p \in Places,
           at' = [at EXCEPT ![w] = p]
    PROVE  /\ at[w] # "ready" /\ p = "ready" => Cardinality(Ready') = Cardinality(Ready) + 1
           /\ at[w] = "ready" /\ p # "ready" => Cardinality(Ready') = Cardinality(Ready) - 1
           /\ at[w] # "ready" /\ p # "ready" => Ready' = Ready
<1>1. ASSUME at[w] # "ready", p = "ready" PROVE Cardinality(Ready') = Cardinality(Ready) + 1
  <2>1. Ready' = Ready \cup {w} /\ w \notin Ready
    BY <1>1, Before DEF Ready, In
  <2> QED
    BY <2>1, Finite, FS_AddElement
<1>2. ASSUME at[w] = "ready", p # "ready" PROVE Cardinality(Ready') = Cardinality(Ready) - 1
  <2>1. Ready' = Ready \ {w} /\ w \in Ready
    BY <1>2, Before DEF Ready, In
  <2> QED
    BY <2>1, Finite, FS_RemoveElement
<1>3. ASSUME at[w] # "ready", p # "ready" PROVE Ready' = Ready
  BY <1>3, Before DEF Ready, In
<1> QED
  BY <1>1, <1>2, <1>3

\* A worker falls asleep only when nothing is left for it.
LEMMA SleepersStep ==
    ASSUME ExecutorAssumption, Typed, CallsUnderWay, SleepersAreNotNeeded, Next
    PROVE  SleepersAreNotNeeded'
<1> DEFINE Asleep == In({"asleep"})
           Enough == Len(queue) <= Cardinality(Ready) + Cardinality(Notifying)
<1>0. SleepersAreNotNeeded = (Asleep # {} => Enough)
  BY DEF SleepersAreNotNeeded, Ready, Notifying
<1>a. Asleep # {} => Enough
  BY <1>0
<1>b. (Asleep' # {} => Enough') => SleepersAreNotNeeded'
  BY DEF SleepersAreNotNeeded, Ready, Notifying
<1>c. /\ Cardinality(Ready) \in Nat /\ Cardinality(Notifying) \in Nat /\ Len(queue) \in Nat
      /\ IsFiniteSet(Notifying)
  BY Finite
<1>1. ASSUME NEW a \in Actors, Swap(a) PROVE SleepersAreNotNeeded'
  <2>1. UNCHANGED <<queue, at>> /\ Notifying' = Notifying
    BY <1>1, Before DEF Swap, Notifying
  <2> QED
    BY <2>1, <1>a, <1>b DEF In, Ready
<1>2. ASSUME NEW a \in Actors, Push(a) PROVE SleepersAreNotNeeded'
  <2>1. UNCHANGED at /\ queue' = Append(queue, Head(toWake[a])) /\ queue \in Seq(Tasks)
        /\ Head(toWake[a]) \in Tasks
    BY <1>2, Before DEF Push
  <2>2. Notifying' = Notifying \cup {a} /\ a \notin Notifying
    BY <1>2, Before DEF Push, Notifying
  <2>3. Cardinality(Notifying') = Cardinality(Notifying) + 1 /\ Len(queue') = Len(queue) + 1
    <3>1. Cardinality(Notifying') = Cardinality(Notifying) + 1
      BY <1>c, <2>2, FS_AddElement
    <3>2. Len(queue') = Len(queue) + 1
      BY <2>1, AppendProperties
    <3> QED
      BY <3>1, <3>2
  <2>4. Asleep' = Asleep /\ Ready' = Ready
    BY <2>1 DEF In, Ready
  <2>5. Asleep # {} => Enough'
    BY <1>a, <1>c, <2>3, <2>4
  <2> QED
    BY <1>b, <2>4, <2>5
<1>3. ASSUME NEW a \in Actors, Notify(a) PROVE SleepersAreNotNeeded'
  <2>1. UNCHANGED queue /\ Notifying' = Notifying \ {a} /\ a \in Notifying
    BY <1>3, Before DEF Notify, Notifying
  <2>2. Cardinality(Notifying') = Cardinality(Notifying) - 1
    BY <1>c, <2>1, FS_RemoveElement
  <2>3. CASE Asleep = {}
    BY <1>3, <1>b, <2>3 DEF Notify, NotifyOne, In
  <2>4. CASE Asleep # {}
    <3>1. PICK w \in Asleep : at' = [at EXCEPT ![w] = "ready"]
      BY <1>3, <2>4 DEF Notify, NotifyOne
    <3>2. Cardinality(Ready') = Cardinality(Ready) + 1
      BY <3>1, ReadyMoves DEF In, Places
    <3>3. Enough'
      BY <1>a, <1>c, <2>1, <2>2, <2>4, <3>2
    <3> QED
      BY <1>b, <3>3
  <2> QED
    BY <2>3, <2>4
<1>4. ASSUME NEW t \in Tasks, Spawn(t) PROVE SleepersAreNotNeeded'
  <2>1. step[Spawner] = "swap"
    BY <1>4, Before DEF Spawn, CallsUnderWay
  <2>2. UNCHANGED <<queue, at>> /\ Notifying' = Notifying
    BY <1>4, <2>1, Before DEF Spawn, Notifying
  <2> QED
    BY <2>2, <1>a, <1>b DEF In, Ready
<1>5. ASSUME NEW w \in Workers, Look(w) PROVE SleepersAreNotNeeded'
  <2>1. at[w] = "ready" /\ UNCHANGED Notifying
    BY <1>5 DEF Look, Notifying, calls
  <2>2. CASE queue = <<>>
    <3>1. queue' = <<>> /\ at' = [at EXCEPT ![w] = "asleep"]
      BY <1>5, <2>2 DEF Look
    <3>2. Cardinality(Ready') \in Nat
      <4>1. Ready' = Ready \ {w}
        BY <2>1, <3>1, Before DEF Ready, In
      <4> QED
        BY <4>1, Finite, FS_RemoveElement, FS_CardinalityType
    <3>3. Enough'
      BY <1>c, <2>1, <3>1, <3>2
    <3> QED
      BY <1>b, <3>3
  <2>3. CASE queue # <<>>
    <3>1. queue' = Tail(queue) /\ at' = [at EXCEPT ![w] = "popped"] /\ queue \in Seq(Tasks)
      BY <1>5, <2>3, Before DEF Look
    <3>2. Len(queue') = Len(queue) - 1
      BY <2>3, <3>1
    <3>3. Cardinality(Ready') = Cardinality(Ready) - 1
      BY <2>1, <3>1, ReadyMoves DEF Places
    <3>4. Asleep' = Asleep
      BY <2>1, <3>1, Before DEF In
    <3>5. Asleep # {} => Enough'
      BY <1>a, <1>c, <2>1, <3>2, <3>3
    <3> QED
      BY <1>b, <3>4, <3>5
  <2> QED
    BY <2>2, <2>3
<1>6. ASSUME NEW w \in Workers, NEW p \in Places \ {"asleep"}, at[w] # "ready",
             at' = [at EXCEPT ![w] = p], UNCHANGED <<queue, step>>
      PROVE  SleepersAreNotNeeded'
  <2>1. Notifying' = Notifying
    BY <1>6 DEF Notifying
  <2>2. Cardinality(Ready') = Cardinality(Ready) + 1 \/ Ready' = Ready
    BY <1>6, ReadyMoves
  <2>3. Asleep' # {} => Asleep # {}
    BY <1>6, Before DEF In
  <2>4. Asleep # {} => Enough'
    BY <1>6, <1>a, <1>c, <2>1, <2>2
  <2> QED
    BY <1>b, <2>3, <2>4
<1>7. ASSUME UNCHANGED <<queue, at, step>> PROVE SleepersAreNotNeeded'
  BY <1>7, <1>a, <1>b DEF In, Ready, Notifying
<1>8. ASSUME NEW w \in Workers,
             SpuriousWake(w) \/ Clear(w) \/ Enter(w) \/ PollAcquire(w) \/ PollCell(w) \/ EndPoll(w)
      PROVE  SleepersAreNotNeeded'
  <2>1. UNCHANGED <<queue, step>> /\ at[w] # "ready"
    BY <1>8 DEF SpuriousWake, Clear, Enter, PollAcquire, PollCell, EndPoll, Polls, calls
  <2>2. \/ at' = at
        \/ \E p \in {"ready", "cleared", "polling"} : at' = [at EXCEPT ![w] = p]
    BY <1>8 DEF SpuriousWake, Clear, Enter, PollAcquire, PollCell, EndPoll, Release
  <2> QED
    BY <1>6, <1>7, <2>1, <2>2 DEF Places
<1> QED
  BY <1>1, <1>2, <1>3, <1>4, <1>5, <1>7, <1>8 DEF Next, Expire, Complete, Leave, exec

-----------------------------------------------------------------------------
(* The theorems.                                                            *)

\* The invariant holds before the first task.
LEMMA InitIInv ==
    ASSUME ExecutorAssumption, Init
    PROVE  IInv
<1>1. /\ Tasks \subseteq Actors /\ Workers \subseteq Actors
      /\ <<>> \in Seq(Tasks) /\ DOMAIN <<>> = {} /\ Len(<<>>) = 0
  BY DEF Actors
<1>2. Typed
  BY <1>1 DEF Init, Typed, Stages, Places, ExecutorAssumption
<1>3. Inside = {}
  BY DEF Init, Inside
<1>4. TypeOK
  BY <1>2, <1>3, FS_EmptySet DEF TypeOK, Init, ExecutorAssumption
<1>5. CallsUnderWay
  BY DEF Init, CallsUnderWay
<1>6. InOnePlace
  <2> SUFFICES ASSUME NEW t \in Tasks PROVE OnePlace(t)
    BY DEF InOnePlace
  <2>1. InQueue(t) = {} /\ Pushing(t) = {} /\ Popping(t) = {} /\ ~queued[t]
    BY <1>1 DEF Init, InQueue, Pushing, Popping, In
  <2> QED
    BY <2>1 DEF OnePlace, AtMostOne
<1>7. UnbornIsUnknown
  BY <1>1 DEF Init, UnbornIsUnknown, Waits
<1>8. WillBeWoken
  BY DEF Init, WillBeWoken
<1>9. SleepersAreNotNeeded
  BY DEF Init, SleepersAreNotNeeded, In
<1> QED
  BY <1>4, <1>5, <1>6, <1>7, <1>8, <1>9 DEF IInv

\* Every step keeps the invariant.
LEMMA StepIInv ==
    ASSUME ExecutorAssumption, IInv, [Next]_vars
    PROVE  IInv'
<1>1. CASE Next
  BY <1>1, TypeStep, CallsStep, PlaceStep, UnbornStep, WokenStep, SleepersStep DEF IInv, TypeOK
<1>2. CASE UNCHANGED vars
  <2>1. TypeOK'
    BY <1>2 DEF IInv, TypeOK, Typed, Inside, vars
  <2>2. CallsUnderWay' /\ UnbornIsUnknown'
    BY <1>2 DEF IInv, CallsUnderWay, UnbornIsUnknown, Waits, vars
  <2>3. InOnePlace'
    BY <1>2 DEF IInv, InOnePlace, OnePlace, InQueue, Pushing, Popping, In, vars
  <2>4. WillBeWoken'
    BY <1>2 DEF IInv, WillBeWoken, Waits, Coming, WakePending, In, vars
  <2>5. SleepersAreNotNeeded'
    BY <1>2 DEF IInv, SleepersAreNotNeeded, In, vars
  <2> QED
    BY <2>1, <2>2, <2>3, <2>4, <2>5 DEF IInv
<1> QED
  BY <1>1, <1>2

\* A task on its way to a poll is counted once.
LEMMA OneIsCounted ==
    ASSUME InOnePlace
    PROVE  QueuedOnce
<1> SUFFICES ASSUME NEW t \in Tasks
             PROVE  Cardinality(InQueue(t)) + Cardinality(Pushing(t)) + Cardinality(Popping(t))
                      = IF queued[t] THEN 1 ELSE 0
  BY DEF QueuedOnce, InQueue, Pushing, Popping
<1>1. OnePlace(t)
  BY DEF InOnePlace
<1>2. ASSUME NEW S, AtMostOne(S)
      PROVE  Cardinality(S) = IF S = {} THEN 0 ELSE 1
  <2>1. CASE S = {}
    BY <2>1, FS_EmptySet
  <2>2. CASE S # {}
    <3>1. PICK x : S = {x}
      BY <1>2, <2>2 DEF AtMostOne
    <3> QED
      BY <2>2, <3>1, FS_Singleton
  <2> QED
    BY <2>1, <2>2
<1>3. /\ Cardinality(InQueue(t)) = IF InQueue(t) = {} THEN 0 ELSE 1
      /\ Cardinality(Pushing(t)) = IF Pushing(t) = {} THEN 0 ELSE 1
      /\ Cardinality(Popping(t)) = IF Popping(t) = {} THEN 0 ELSE 1
  BY <1>1, <1>2 DEF OnePlace
<1> QED
  BY <1>1, <1>3 DEF OnePlace

\* The part of the invariant about wakes contains the property.
LEMMA WokenIsNotLost ==
    ASSUME Typed, WillBeWoken
    PROVE  NoLostWake
<1> SUFFICES ASSUME NEW t \in Tasks,
                    \/ future[t] = "begins" /\ permits > 0
                    \/ future[t] = "copying" /\ cell[t] = "done"
             PROVE  Coming(t)
  BY DEF NoLostWake
<1>1. CASE future[t] = "begins" /\ permits > 0
  BY <1>1 DEF WillBeWoken, Waits
<1>2. CASE future[t] = "copying" /\ cell[t] = "done"
  BY <1>2 DEF WillBeWoken
<1> QED
  BY <1>1, <1>2

\* The invariant of the executor: types, one place per task, wakes, and sleepers.
THEOREM Invariance ==
    ASSUME ExecutorAssumption
    PROVE  Spec => []IInv
BY InitIInv, StepIInv, PTL DEF Spec

\* Permits of the semaphore are conserved, and every variable has its type.
THEOREM TypeCorrect ==
    ASSUME ExecutorAssumption
    PROVE  Spec => []TypeOK
<1>1. IInv => TypeOK
  BY DEF IInv
<1> QED
  BY <1>1, Invariance, PTL

\* A task is queued once: the flag of Task.queued says whether it is on its way.
THEOREM QueueIsBounded ==
    ASSUME ExecutorAssumption
    PROVE  Spec => []QueuedOnce
<1>1. IInv => QueuedOnce
  BY OneIsCounted DEF IInv
<1> QED
  BY <1>1, Invariance, PTL

\* A task that can go on is going to be polled.
THEOREM WakesAreKept ==
    ASSUME ExecutorAssumption
    PROVE  Spec => []NoLostWake
<1>1. IInv => NoLostWake
  BY WokenIsNotLost DEF IInv, TypeOK
<1> QED
  BY <1>1, Invariance, PTL

\* No worker sleeps beside a task in the queue that nobody comes for.
THEOREM SleepersMaySleep ==
    ASSUME ExecutorAssumption
    PROVE  Spec => []SleepersAreNotNeeded
<1>1. IInv => SleepersAreNotNeeded
  BY DEF IInv
<1> QED
  BY <1>1, Invariance, PTL
=============================================================================
