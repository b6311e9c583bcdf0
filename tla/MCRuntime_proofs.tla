--------------------------- MODULE MCRuntime_proofs ---------------------------
(***************************************************************************)
(* Theorems about the two schedulers of launcher_runtime.  First the       *)
(* blocking pool: its inductive invariant is the conjunction of its three  *)
(* invariants, for that every waiting job has a thread needs the counters  *)
(* to be exact, and that the pool implements JobQueue needs each job in    *)
(* one place.  Then both together: a step of the run is a step of one of   *)
(* them, so the invariants of both are kept.  P is E, with its theorems.   *)
(***************************************************************************)
EXTENDS MCRuntime, FiniteSetTheorems, SequenceTheorems, TLAPS

One(b) == IF b THEN 1 ELSE 0
Count(f, P) == Cardinality({v \in Workers : f[v] \in P})

\* How moving one thread changes the number of threads in a set of places.
LEMMA MovedCount ==
    ASSUME NEW f \in [Workers -> Places], NEW w \in Workers, NEW p \in Places,
           NEW P \in SUBSET Places
    PROVE  /\ Count(f, P) \in Nat
           /\ Count([f EXCEPT ![w] = p], P)
                = Count(f, P) + One(p \in P) - One(f[w] \in P)
<1> DEFINE S == {v \in Workers : f[v] \in P}
           T == {v \in Workers : [f EXCEPT ![w] = p][v] \in P}
<1>1. IsFiniteSet(S) /\ Cardinality(S) \in Nat
  BY PoolAssumption, FS_Subset, FS_CardinalityType
<1>2. CASE p \in P
  <2>1. T = S \cup {w}
    BY <1>2
  <2>2. w \in S <=> f[w] \in P
    OBVIOUS
  <2>3. Cardinality(T) = IF w \in S THEN Cardinality(S) ELSE Cardinality(S) + 1
    BY <1>1, <2>1, FS_AddElement
  <2> QED
    BY <1>1, <1>2, <2>2, <2>3 DEF Count, One
<1>3. CASE p \notin P
  <2>1. T = S \ {w}
    BY <1>3
  <2>2. w \in S <=> f[w] \in P
    OBVIOUS
  <2>3. Cardinality(T) = IF w \in S THEN Cardinality(S) - 1 ELSE Cardinality(S)
    BY <1>1, <2>1, FS_RemoveElement
  <2> QED
    BY <1>1, <1>3, <2>2, <2>3 DEF Count, One
<1> QED
  BY <1>2, <1>3

\* The same for the sets the counters stand for, and for the running threads.
LEMMA Moved ==
    ASSUME TypeOK, NEW w \in Workers, NEW p \in Places, at' = [at EXCEPT ![w] = p]
    PROVE  /\ at' \in [Workers -> Places]
           /\ Cardinality(Alive') = Cardinality(Alive) + One(p # "none") - One(at[w] # "none")
           /\ Cardinality(Idle') = Cardinality(Idle)
                  + One(p \in {"asleep", "woken", "late"})
                  - One(at[w] \in {"asleep", "woken", "late"})
           /\ Cardinality(Coming') = Cardinality(Coming)
                  + One(p \in {"asked", "ready"}) - One(at[w] \in {"asked", "ready"})
<1>1. at \in [Workers -> Places] /\ at[w] \in Places
  BY DEF TypeOK
<1>2. Cardinality(Alive') = Cardinality(Alive)
         + One(p \in (Places \ {"none"})) - One(at[w] \in (Places \ {"none"}))
  <2>1. (Places \ {"none"}) \in SUBSET Places
    BY DEF Places
  <2>2. Count([at EXCEPT ![w] = p], (Places \ {"none"})) = Count(at, (Places \ {"none"}))
           + One(p \in (Places \ {"none"})) - One(at[w] \in (Places \ {"none"}))
    BY <1>1, <2>1, MovedCount
  <2>3. Cardinality(Alive) = Count(at, (Places \ {"none"}))
    BY DEF Alive, In, Count
  <2>4. Cardinality(Alive') = Count(at', (Places \ {"none"}))
    BY DEF Alive, In, Count
  <2> QED
    BY <2>2, <2>3, <2>4
<1>3. /\ p \in (Places \ {"none"}) <=> p # "none"
     /\ at[w] \in (Places \ {"none"}) <=> at[w] # "none"
  BY <1>1
<1>4. Cardinality(Idle') = Cardinality(Idle)
         + One(p \in {"asleep", "woken", "late"}) - One(at[w] \in {"asleep", "woken", "late"})
  <2>1. {"asleep", "woken", "late"} \in SUBSET Places
    BY DEF Places
  <2>2. Count([at EXCEPT ![w] = p], {"asleep", "woken", "late"}) = Count(at, {"asleep", "woken", "late"})
           + One(p \in {"asleep", "woken", "late"}) - One(at[w] \in {"asleep", "woken", "late"})
    BY <1>1, <2>1, MovedCount
  <2>3. Cardinality(Idle) = Count(at, {"asleep", "woken", "late"})
    BY DEF Idle, In, Count
  <2>4. Cardinality(Idle') = Count(at', {"asleep", "woken", "late"})
    BY DEF Idle, In, Count
  <2> QED
    BY <2>2, <2>3, <2>4
<1>5. Cardinality(Coming') = Cardinality(Coming)
         + One(p \in {"asked", "ready"}) - One(at[w] \in {"asked", "ready"})
  <2>1. {"asked", "ready"} \in SUBSET Places
    BY DEF Places
  <2>2. Count([at EXCEPT ![w] = p], {"asked", "ready"}) = Count(at, {"asked", "ready"})
           + One(p \in {"asked", "ready"}) - One(at[w] \in {"asked", "ready"})
    BY <1>1, <2>1, MovedCount
  <2>3. Cardinality(Coming) = Count(at, {"asked", "ready"})
    BY DEF Coming, In, Count
  <2>4. Cardinality(Coming') = Count(at', {"asked", "ready"})
    BY DEF Coming, In, Count
  <2> QED
    BY <2>2, <2>3, <2>4
<1> QED
  BY <1>1, <1>2, <1>3, <1>4, <1>5 DEF One

\* The counts are numbers.
LEMMA Counts ==
    /\ Cardinality(Alive) \in Nat
    /\ Cardinality(Idle) \in Nat
    /\ Cardinality(Coming) \in Nat
<1>1. IsFiniteSet(Alive) /\ IsFiniteSet(Idle) /\ IsFiniteSet(Coming)
  BY PoolAssumption, FS_Subset DEF Alive, Idle, Coming, In
<1> QED
  BY <1>1, FS_CardinalityType

\* What taking a job does.
LEMMA TakeEffect ==
    ASSUME TypeOK, NEW w \in Workers, Take(w)
    PROVE  /\ Head(queue) \in Jobs
           /\ queue' \in Seq(Jobs)
           /\ Len(queue) \in Nat \ {0}
           /\ Len(queue') = Len(queue) - 1
           /\ \A i \in 1..Len(queue') : queue'[i] = queue[i + 1]
           /\ refused' \in BOOLEAN
           /\ job' \in [Workers -> Jobs \cup {NoJob}]
           /\ refused' = refused \/ Len(queue') = 0
  <1>1. queue \in Seq(Jobs) /\ queue # <<>>
    BY DEF TypeOK, Take
  <1>2. /\ Head(queue) \in Jobs /\ Tail(queue) \in Seq(Jobs)
        /\ Len(Tail(queue)) = Len(queue) - 1
        /\ \A i \in 1..Len(Tail(queue)) : Tail(queue)[i] = queue[i + 1]
        /\ Len(queue) \in Nat \ {0}
    BY <1>1, HeadTailProperties, EmptySeq
  <1>3. queue' = Tail(queue) /\ refused' = (refused /\ queue' # <<>>)
    BY DEF Take
  <1>4. refused' = refused \/ Len(queue') = 0
    BY <1>3, EmptySeq DEF TypeOK
  <1> QED
    BY <1>2, <1>3, <1>4 DEF Take, TypeOK

\* The counters are exact before the first job.
LEMMA TypeInit == Init => TypeOK
<1> SUFFICES ASSUME Init PROVE TypeOK
  OBVIOUS
<1>1. Alive = {} /\ Idle = {}
  BY DEF Init, Alive, Idle, In
<1>2. Cardinality(Alive) = 0 /\ Cardinality(Idle) = 0
  BY <1>1, FS_EmptySet
<1>3. queue \in Seq(Jobs)
  BY EmptySeq DEF Init
<1>4. /\ at \in [Workers -> Places]
      /\ job \in [Workers -> Jobs \cup {NoJob}]
      /\ outcome \in [Jobs -> {"none", "value", "error"}]
      /\ refused \in BOOLEAN
  BY DEF Init, Places
<1>5. \A w \in Workers : job[w] \in Jobs <=> at[w] = "running"
  BY PoolAssumption DEF Init
<1>6. threads = 0 /\ threads <= MaxThreads /\ idle = 0
  BY PoolAssumption DEF Init
<1> QED
  BY <1>2, <1>3, <1>4, <1>5, <1>6 DEF TypeOK

\* TypeOK in two parts: the counters, and the rest.
CountersOK ==
    /\ threads = Cardinality(Alive) /\ threads <= MaxThreads
    /\ idle = Cardinality(Idle)
DataOK ==
    /\ queue \in Seq(Jobs)
    /\ at \in [Workers -> Places]
    /\ job \in [Workers -> Jobs \cup {NoJob}]
    /\ outcome \in [Jobs -> {"none", "value", "error"}]
    /\ refused \in BOOLEAN
    /\ \A w \in Workers : job[w] \in Jobs <=> at[w] = "running"

\* When one thread moves, the counters stay exact if the step changes them so.
Move(w, p) ==
    /\ at' = [at EXCEPT ![w] = p]
    /\ threads' = threads + One(p # "none") - One(at[w] # "none")
    /\ idle' = idle + One(p \in {"asleep", "woken", "late"})
                    - One(at[w] \in {"asleep", "woken", "late"})
    /\ threads' <= MaxThreads

\* A thread that goes from one place to another changes the counters of the two.
LEMMA CountersMove ==
    ASSUME TypeOK, NEW w \in Workers, NEW p \in Places, Move(w, p)
    PROVE  CountersOK' /\ at' \in [Workers -> Places]
<1>1. threads = Cardinality(Alive) /\ idle = Cardinality(Idle)
  BY DEF TypeOK
<1>2. Cardinality(Alive)' = threads' /\ Cardinality(Idle)' = idle'
  BY <1>1, Moved DEF Move
<1> QED
  BY <1>2, Moved DEF CountersOK, Move

\* Every action keeps the types, the counters and the cap.
LEMMA TypeStep == TypeOK /\ [Next]_vars => TypeOK'
<1> SUFFICES ASSUME TypeOK, [Next]_vars PROVE TypeOK'
  OBVIOUS
<1>0. /\ threads \in Nat /\ idle \in Nat /\ MaxThreads \in Nat /\ threads <= MaxThreads
      /\ NoJob \notin Jobs
  BY Counts, PoolAssumption DEF TypeOK
<1>a. UNCHANGED <<at, threads, idle>> => CountersOK'
  BY DEF TypeOK, CountersOK, Alive, Idle, In
<1>b. CountersOK' /\ DataOK' => TypeOK'
  BY DEF TypeOK, CountersOK, DataOK
<1>1. ASSUME NEW j \in Jobs, Submit(j) PROVE TypeOK'
  <2>1. queue' \in Seq(Jobs)
    BY <1>1, AppendProperties DEF TypeOK, Submit
  <2>2. CASE UNCHANGED <<at, threads>>
    BY <1>1, <1>a, <1>b, <2>1, <2>2 DEF TypeOK, DataOK, Submit
  <2>3. ASSUME NEW w \in Workers, at[w] = "asleep", at' = [at EXCEPT ![w] = "woken"],
               UNCHANGED threads
        PROVE  TypeOK'
    <3>1. CountersOK' /\ at' \in [Workers -> Places]
      <4>1. Move(w, "woken")
        BY <1>0, <1>1, <2>3 DEF Submit, Move, One
      <4> QED
        BY <4>1, CountersMove DEF Places
    <3> QED
      BY <1>1, <1>b, <2>1, <2>3, <3>1 DEF TypeOK, DataOK, Submit
  <2>4. ASSUME NEW w \in Workers, at[w] = "none", at' = [at EXCEPT ![w] = "asked"],
               threads < MaxThreads, threads' = threads + 1
        PROVE  TypeOK'
    <3>1. CountersOK' /\ at' \in [Workers -> Places]
      <4>1. Move(w, "asked")
        BY <1>0, <1>1, <2>4 DEF Submit, Move, One
      <4> QED
        BY <4>1, CountersMove DEF Places
    <3> QED
      BY <1>1, <1>b, <2>1, <2>4, <3>1 DEF TypeOK, DataOK, Submit
  <2> QED
    BY <1>1, <2>2, <2>3, <2>4 DEF Submit, Notify, In
<1>2. ASSUME NEW w \in Workers, SpawnOk(w) PROVE TypeOK'
  <2>1. CountersOK' /\ at' \in [Workers -> Places]
    <3>1. Move(w, "ready")
      BY <1>0, <1>2 DEF SpawnOk, Move, One
    <3> QED
      BY <3>1, CountersMove DEF Places
  <2> QED
    BY <1>0, <1>2, <1>b, <2>1 DEF TypeOK, DataOK, SpawnOk
<1>3. ASSUME NEW w \in Workers, SpawnFail(w) PROVE TypeOK'
  <2>1. CountersOK' /\ at' \in [Workers -> Places]
    <3>1. Move(w, "none")
      BY <1>0, <1>3 DEF SpawnFail, Move, One
    <3> QED
      BY <3>1, CountersMove DEF Places
  <2>2. /\ queue' \in Seq(Jobs)
        /\ outcome' \in [Jobs -> {"none", "value", "error"}]
    BY <1>3, EmptySeq DEF TypeOK, SpawnFail
  <2> QED
    BY <1>3, <1>b, <2>1, <2>2 DEF TypeOK, DataOK, SpawnFail
<1>4. ASSUME NEW w \in Workers, Look(w) PROVE TypeOK'
  <2>1. CASE Take(w)
    <3>1. CountersOK' /\ at' \in [Workers -> Places]
      <4>1. at' = [at EXCEPT ![w] = "running"] /\ at[w] = "ready" /\ UNCHANGED <<threads, idle>>
        BY <1>4, <2>1 DEF Look, Take
      <4> QED
        <5>1. Move(w, "running")
          BY <1>0, <4>1 DEF Move, One
        <5> QED
          BY <5>1, CountersMove DEF Places
    <3> QED
      BY <1>4, <1>b, <2>1, <3>1, TakeEffect DEF TypeOK, DataOK, Look, Take
  <2>2. CASE ~Take(w)
    <3>1. CountersOK' /\ at' \in [Workers -> Places]
      <4>1. Move(w, "asleep")
        BY <1>0, <1>4, <2>2 DEF Look, Move, One
      <4> QED
        BY <4>1, CountersMove DEF Places
    <3> QED
      BY <1>4, <1>b, <2>2, <3>1 DEF TypeOK, DataOK, Look
  <2> QED
    BY <2>1, <2>2
<1>5. ASSUME NEW w \in Workers, Finish(w) PROVE TypeOK'
  <2>1. CountersOK' /\ at' \in [Workers -> Places]
    <3>1. Move(w, "ready")
      BY <1>0, <1>5 DEF Finish, Move, One
    <3> QED
      BY <3>1, CountersMove DEF Places
  <2>2. job' \in [Workers -> Jobs \cup {NoJob}]
    BY <1>5 DEF TypeOK, Finish
  <2>3. outcome' \in [Jobs -> {"none", "value", "error"}]
    BY <1>5 DEF TypeOK, Finish
  <2>4. \A v \in Workers : job'[v] \in Jobs <=> at'[v] = "running"
    BY <1>0, <1>5 DEF TypeOK, Finish
  <2> QED
    BY <1>5, <1>b, <2>1, <2>2, <2>3, <2>4 DEF TypeOK, DataOK, Finish
<1>6. ASSUME NEW w \in Workers, SpuriousWake(w) PROVE TypeOK'
  <2>1. CountersOK' /\ at' \in [Workers -> Places]
    <3>1. Move(w, "woken")
      BY <1>0, <1>6 DEF SpuriousWake, Move, One
    <3> QED
      BY <3>1, CountersMove DEF Places
  <2> QED
    BY <1>0, <1>6, <1>b, <2>1 DEF TypeOK, DataOK, SpuriousWake
<1>7. ASSUME NEW w \in Workers, TimeOut(w) PROVE TypeOK'
  <2>1. CountersOK' /\ at' \in [Workers -> Places]
    <3>1. Move(w, "late")
      BY <1>0, <1>7 DEF TimeOut, Move, One
    <3> QED
      BY <3>1, CountersMove DEF Places
  <2> QED
    BY <1>0, <1>7, <1>b, <2>1 DEF TypeOK, DataOK, TimeOut
<1>8. ASSUME NEW w \in Workers, Resume(w) PROVE TypeOK'
  <2>1. CASE Take(w)
    <3>1. CountersOK' /\ at' \in [Workers -> Places]
      <4>1. /\ at' = [at EXCEPT ![w] = "running"] /\ at[w] \in {"woken", "late"}
            /\ idle' = idle - 1 /\ UNCHANGED threads
        BY <1>8, <2>1 DEF Resume, Take
      <4> QED
        <5>1. Move(w, "running")
          BY <1>0, <4>1 DEF Move, One
        <5> QED
          BY <5>1, CountersMove DEF Places
    <3> QED
      BY <1>8, <1>b, <2>1, <3>1, TakeEffect DEF TypeOK, DataOK, Resume, Take
  <2>2. CASE ~Take(w) /\ at[w] = "late"
    <3>1. CountersOK' /\ at' \in [Workers -> Places]
      <4>1. Move(w, "none")
        BY <1>0, <1>8, <2>2 DEF Resume, Move, One
      <4> QED
        BY <4>1, CountersMove DEF Places
    <3> QED
      BY <1>8, <1>b, <2>2, <3>1 DEF TypeOK, DataOK, Resume
  <2>3. CASE ~Take(w) /\ at[w] = "woken"
    <3>1. CountersOK' /\ at' \in [Workers -> Places]
      <4>1. Move(w, "asleep")
        BY <1>0, <1>8, <2>3 DEF Resume, Move, One
      <4> QED
        BY <4>1, CountersMove DEF Places
    <3> QED
      BY <1>8, <1>b, <2>3, <3>1 DEF TypeOK, DataOK, Resume
  <2> QED
    BY <1>8, <2>1, <2>2, <2>3 DEF Resume
<1>9. CASE UNCHANGED vars
  BY <1>9 DEF TypeOK, vars, Alive, Idle, In
<1> QED
  BY <1>1, <1>2, <1>3, <1>4, <1>5, <1>6, <1>7, <1>8, <1>9 DEF Next

\* The counters of the pool are exact and its cap holds, in every reachable state.
THEOREM TypeCorrect == Spec => []TypeOK
  BY TypeInit, TypeStep, PTL DEF Spec

-----------------------------------------------------------------------------
\* The threads on their way are a finite set.
LEMMA ComingIsNat == Cardinality(Coming') \in Nat
<1>1. IsFiniteSet(Coming')
  BY PoolAssumption, FS_Subset DEF Coming, In
<1> QED
  BY <1>1, FS_CardinalityType

Goes(w, p) == at' = [at EXCEPT ![w] = p]

\* There is no job without a thread at the beginning.
LEMMA ThreadInit == Init => EveryJobHasAThread
<1> SUFFICES ASSUME Init PROVE EveryJobHasAThread
  OBVIOUS
<1>1. Len(queue) = 0 /\ idle = 0
  BY DEF Init
<1> QED
  BY <1>1, Counts DEF EveryJobHasAThread

\* No step leaves a job without a thread on its way.
LEMMA ThreadStep == TypeOK /\ EveryJobHasAThread /\ [Next]_vars => EveryJobHasAThread'
<1> SUFFICES ASSUME TypeOK, EveryJobHasAThread, [Next]_vars PROVE EveryJobHasAThread'
  OBVIOUS
<1> DEFINE C == Cardinality(Coming)
<1>0. /\ queue \in Seq(Jobs) /\ Len(queue) \in Nat
      /\ threads \in Nat /\ idle \in Nat /\ C \in Nat /\ C' \in Nat
      /\ threads <= MaxThreads /\ MaxThreads \in Nat
      /\ refused \/ threads = MaxThreads \/ Len(queue) <= idle + C
  BY Counts, ComingIsNat, PoolAssumption, LenProperties DEF TypeOK, EveryJobHasAThread
<1>a. ASSUME NEW w \in Workers, NEW p \in Places, Goes(w, p)
      PROVE  C' = C + One(p \in {"asked", "ready"}) - One(at[w] \in {"asked", "ready"})
  BY <1>a, Moved DEF Goes
<1>b. UNCHANGED at => C' = C
  BY DEF Coming, In
<1>c. refused' \/ threads' = MaxThreads \/ Len(queue)' <= idle' + C' => EveryJobHasAThread'
  BY DEF EveryJobHasAThread
<1>d. queue' = <<>> /\ idle' \in Nat => EveryJobHasAThread'
  BY <1>0, <1>c
<1> HIDE DEF C
<1>1. ASSUME NEW j \in Jobs, Submit(j) PROVE EveryJobHasAThread'
  <2>1. Len(queue') = Len(queue) + 1 /\ UNCHANGED <<idle, refused>>
    BY <1>0, <1>1, AppendProperties DEF Submit
  <2>2. CASE idle >= Len(queue')
    BY <1>0, <1>c, <2>1, <2>2
  <2>3. CASE threads >= MaxThreads /\ UNCHANGED threads
    BY <1>0, <1>c, <2>3
  <2>4. ASSUME NEW w \in Workers, at[w] = "none", at' = [at EXCEPT ![w] = "asked"],
               threads < MaxThreads
        PROVE  EveryJobHasAThread'
    <3>1. C' = C + 1
      <4>1. Goes(w, "asked")
        BY <2>4 DEF Goes
      <4>2. at[w] = "none"
        BY <2>4 DEF Goes
      <4> QED
        BY <1>0, <1>a, <4>1, <4>2 DEF One, Places
    <3> QED
      BY <1>0, <1>c, <2>1, <2>4, <3>1
  <2> QED
    BY <1>1, <2>2, <2>3, <2>4 DEF Submit, In
<1>2. ASSUME NEW w \in Workers, SpawnOk(w) PROVE EveryJobHasAThread'
  <2>1. C' = C
    <3>1. Goes(w, "ready")
      BY <1>2 DEF SpawnOk, Goes
    <3>2. at[w] = "asked"
      BY <1>2 DEF SpawnOk, Goes
    <3> QED
      BY <1>0, <1>a, <3>1, <3>2 DEF One, Places
  <2> QED
    BY <1>0, <1>2, <1>c, <2>1 DEF SpawnOk
<1>3. ASSUME NEW w \in Workers, SpawnFail(w) PROVE EveryJobHasAThread'
  <2>1. CASE queue' = <<>>
    BY <1>0, <1>3, <1>d, <2>1 DEF SpawnFail
  <2>2. CASE queue' # <<>>
    BY <1>3, <1>c, <2>2 DEF SpawnFail
  <2> QED
    BY <2>1, <2>2
<1>4. ASSUME NEW w \in Workers, Look(w) PROVE EveryJobHasAThread'
  <2>1. CASE Take(w)
    <3>1. C' = C - 1
      <4>1. Goes(w, "running")
        BY <1>4, <2>1 DEF Look, Take, Goes
      <4>2. at[w] = "ready"
        BY <1>4, <2>1 DEF Look, Take, Goes
      <4> QED
        BY <1>0, <1>a, <4>1, <4>2 DEF One, Places
    <3>2. /\ Len(queue') = Len(queue) - 1 /\ Len(queue) \in Nat \ {0}
          /\ refused' = refused \/ Len(queue') = 0
          /\ UNCHANGED <<threads, idle>>
      BY <1>4, <2>1, TakeEffect DEF Look, Take
    <3> QED
      BY <1>0, <1>c, <3>1, <3>2
  <2>2. CASE ~Take(w)
    BY <1>0, <1>4, <1>d, <2>2 DEF Look
  <2> QED
    BY <2>1, <2>2
<1>5. ASSUME NEW w \in Workers, Finish(w) PROVE EveryJobHasAThread'
  <2>1. C' = C + 1
    <3>1. Goes(w, "ready")
      BY <1>5 DEF Finish, Goes
    <3>2. at[w] = "running"
      BY <1>5 DEF Finish, Goes
    <3> QED
      BY <1>0, <1>a, <3>1, <3>2 DEF One, Places
  <2> QED
    BY <1>0, <1>5, <1>c, <2>1 DEF Finish
<1>6. ASSUME NEW w \in Workers, SpuriousWake(w) PROVE EveryJobHasAThread'
  <2>1. C' = C
    <3>1. Goes(w, "woken")
      BY <1>6 DEF SpuriousWake, Goes
    <3>2. at[w] = "asleep"
      BY <1>6 DEF SpuriousWake, Goes
    <3> QED
      BY <1>0, <1>a, <3>1, <3>2 DEF One, Places
  <2> QED
    BY <1>0, <1>6, <1>c, <2>1 DEF SpuriousWake
<1>7. ASSUME NEW w \in Workers, TimeOut(w) PROVE EveryJobHasAThread'
  <2>1. C' = C
    <3>1. Goes(w, "late")
      BY <1>7 DEF TimeOut, Goes
    <3>2. at[w] = "asleep"
      BY <1>7 DEF TimeOut, Goes
    <3> QED
      BY <1>0, <1>a, <3>1, <3>2 DEF One, Places
  <2> QED
    BY <1>0, <1>7, <1>c, <2>1 DEF TimeOut
<1>8. ASSUME NEW w \in Workers, Resume(w) PROVE EveryJobHasAThread'
  <2>0. idle' \in Nat
    <3>1. IsFiniteSet(Idle')
      BY PoolAssumption, FS_Subset DEF Idle, In
    <3>2. TypeOK'
      BY TypeStep
    <3> QED
      BY <3>1, <3>2, FS_CardinalityType DEF TypeOK
  <2>1. CASE Take(w)
    <3>1. C' = C
      <4>1. Goes(w, "running")
        BY <1>8, <2>1 DEF Resume, Take, Goes
      <4>2. at[w] \in {"woken", "late"}
        BY <1>8, <2>1 DEF Resume, Take, Goes
      <4> QED
        BY <1>0, <1>a, <4>1, <4>2 DEF One, Places
    <3>2. /\ Len(queue') = Len(queue) - 1 /\ Len(queue) \in Nat \ {0}
          /\ refused' = refused \/ Len(queue') = 0
      BY <2>1, TakeEffect
    <3>3. idle' = idle - 1 /\ UNCHANGED threads
      BY <1>8, <2>1 DEF Resume, Take
    <3> QED
      BY <1>0, <1>c, <2>0, <3>1, <3>2, <3>3
  <2>2. CASE ~Take(w)
    <3>1. queue' = <<>>
      BY <1>8, <2>2 DEF Resume
    <3> QED
      BY <1>d, <2>0, <3>1
  <2> QED
    BY <2>1, <2>2
<1>9. CASE UNCHANGED vars
  BY <1>0, <1>9, <1>b, <1>c DEF vars
<1> QED
  BY <1>1, <1>2, <1>3, <1>4, <1>5, <1>6, <1>7, <1>8, <1>9 DEF Next

\* Below the cap, and unless the system refused one, every job in the queue has a
\* thread that is idle or on its way.
THEOREM NoNeedlessWait == Spec => []EveryJobHasAThread
  BY TypeInit, TypeStep, ThreadInit, ThreadStep, PTL DEF Spec

-----------------------------------------------------------------------------
Busy == In({"running"})

\* At the beginning no job is anywhere.
LEMMA OnePlaceInit == Init => JobsAreInOnePlace
  BY DEF Init, JobsAreInOnePlace, In, running, Waits

\* Taking a job moves it from the head of the queue to the thread.
LEMMA TakeMoves ==
    ASSUME TypeOK, JobsAreInOnePlace, NEW w \in Workers, Take(w), at[w] # "running",
           UNCHANGED outcome
    PROVE  JobsAreInOnePlace' /\ running' = running \cup {Head(queue)}
<1> DEFINE h == Head(queue)
<1>1. /\ queue \in Seq(Jobs) /\ queue' \in Seq(Jobs) /\ h \in Jobs
      /\ Len(queue) \in Nat \ {0} /\ Len(queue') = Len(queue) - 1
      /\ \A i \in 1..Len(queue') : queue'[i] = queue[i + 1]
      /\ DOMAIN queue = 1..Len(queue) /\ DOMAIN queue' = 1..Len(queue')
      /\ h = queue[1]
  BY TakeEffect, LenProperties DEF TypeOK
<1>2. \A i, k \in 1..Len(queue) : queue[i] = queue[k] => i = k
  BY <1>1 DEF JobsAreInOnePlace
<1>3. Waits(h) /\ \A j : Waits(j)' => Waits(j) /\ j # h
  BY <1>1, <1>2 DEF Waits
<1>4. /\ Busy' = Busy \cup {w} /\ w \notin Busy
      /\ job'[w] = h /\ \A v \in Busy : job'[v] = job[v]
  BY DEF Take, Busy, In, TypeOK
<1>5. running' = running \cup {h}
  BY <1>4 DEF running, Busy
<1>6. \A v \in Busy : ~Waits(job[v]) /\ \A u \in Busy : job[u] = job[v] => u = v
  BY DEF JobsAreInOnePlace, Busy
<1>7. (\A i, k \in DOMAIN queue : queue[i] = queue[k] => i = k)'
  BY <1>1, <1>2
<1>8. \A v \in Busy' : ~Waits(job[v])' /\ \A u \in Busy' : job'[u] = job'[v] => u = v
  BY <1>3, <1>4, <1>6
<1>9. \A j \in Jobs : outcome'[j] # "none" => j \notin running' /\ ~Waits(j)'
  BY <1>3, <1>5 DEF JobsAreInOnePlace
<1> QED
  BY <1>5, <1>7, <1>8, <1>9 DEF JobsAreInOnePlace, Busy

\* A thread that ends its job settles that job and no other.
LEMMA FinishMoves ==
    ASSUME TypeOK, JobsAreInOnePlace, NEW w \in Workers, Finish(w)
    PROVE  /\ JobsAreInOnePlace'
           /\ job[w] \in running /\ job[w] \in Jobs
           /\ running' = running \ {job[w]}
<1>1. /\ w \in Busy /\ Busy' = Busy \ {w}
      /\ \A v \in Busy' : job'[v] = job[v]
  BY DEF Finish, Busy, In, TypeOK
<1>2. \A v \in Busy : ~Waits(job[v]) /\ \A u \in Busy : job[u] = job[v] => u = v
  BY DEF JobsAreInOnePlace, Busy
<1>3. running' = running \ {job[w]} /\ job[w] \in running
  BY <1>1, <1>2 DEF running, Busy
<1>4. job[w] \in Jobs
  BY DEF TypeOK, Finish
<1>5. UNCHANGED queue /\ \A j \in Jobs : j # job[w] => outcome'[j] = outcome[j]
  BY DEF Finish, TypeOK
<1>6. \A j \in Jobs : outcome'[j] # "none" => j \notin running' /\ ~Waits(j)'
  BY <1>1, <1>2, <1>3, <1>5 DEF JobsAreInOnePlace, Waits
<1>7. \A v \in Busy' : ~Waits(job[v])' /\ \A u \in Busy' : job'[u] = job'[v] => u = v
  BY <1>1, <1>2, <1>5 DEF Waits
<1>8. (\A i, k \in DOMAIN queue : queue[i] = queue[k] => i = k)'
  BY <1>5 DEF JobsAreInOnePlace
<1> QED
  BY <1>3, <1>4, <1>6, <1>7, <1>8 DEF JobsAreInOnePlace, Busy

\* A step that moves no thread into or out of a job.
LEMMA Stays ==
    ASSUME UNCHANGED job, \A v \in Workers : at'[v] = "running" <=> at[v] = "running"
    PROVE  running' = running /\ Busy' = Busy
  BY DEF running, Busy, In

\* Submitting a job puts it in the queue, where it was not.
LEMMA SubmitMoves ==
    ASSUME TypeOK, JobsAreInOnePlace, NEW j \in Jobs, Submit(j)
    PROVE  JobsAreInOnePlace' /\ running' = running
<1>1. /\ queue \in Seq(Jobs) /\ Len(queue) \in Nat /\ DOMAIN queue = 1..Len(queue)
      /\ DOMAIN queue' = 1..Len(queue) + 1
      /\ queue'[Len(queue) + 1] = j
      /\ \A i \in 1..Len(queue) : queue'[i] = queue[i]
  BY AppendProperties, LenProperties DEF TypeOK, Submit
<1>2. \A k : Waits(k)' <=> Waits(k) \/ k = j
  BY <1>1 DEF Waits
<1>3. \A v \in Workers : at'[v] = "running" <=> at[v] = "running"
  BY DEF Submit, Notify, In, TypeOK
<1>4. running' = running /\ Busy' = Busy
  BY <1>3, Stays DEF Submit
<1>5. UNCHANGED <<job, outcome>> /\ New(j)
  BY DEF Submit
<1>6. (\A i, k \in DOMAIN queue : queue[i] = queue[k] => i = k)'
  BY <1>1, <1>5 DEF JobsAreInOnePlace, New, Waits
<1>7. \A v \in Busy' : ~Waits(job[v])' /\ \A u \in Busy' : job'[u] = job'[v] => u = v
  BY <1>2, <1>4, <1>5 DEF JobsAreInOnePlace, Busy, New, running
<1>8. \A k \in Jobs : outcome'[k] # "none" => k \notin running' /\ ~Waits(k)'
  BY <1>2, <1>4, <1>5 DEF JobsAreInOnePlace, New
<1> QED
  BY <1>4, <1>6, <1>7, <1>8 DEF JobsAreInOnePlace, Busy

\* Jobs are dropped only when no thread is left, so none is running.
LEMMA SpawnFailMoves ==
    ASSUME TypeOK, JobsAreInOnePlace, NEW w \in Workers, SpawnFail(w)
    PROVE  /\ JobsAreInOnePlace' /\ running' = running
           /\ threads' = 0 => running = {}
<1>1. \A v \in Workers : at'[v] = "running" <=> at[v] = "running"
  BY DEF SpawnFail, TypeOK
<1>2. running' = running /\ Busy' = Busy /\ UNCHANGED job
  BY <1>1, Stays DEF SpawnFail
<1>3. threads' = 0 => running = {}
  <2>1. SUFFICES ASSUME threads' = 0 PROVE Busy = {}
    BY DEF running, Busy
  <2>2. TypeOK' /\ IsFiniteSet(Alive')
    BY TypeStep, PoolAssumption, FS_Subset DEF Next, Alive, In
  <2>3. Alive' = {}
    BY <2>1, <2>2, FS_EmptySet DEF TypeOK
  <2> QED
    BY <1>1, <2>3 DEF Busy, Alive, In, Places
<1>4. CASE threads' # 0
  <2>1. UNCHANGED <<queue, outcome>>
    BY <1>4 DEF SpawnFail
  <2> QED
    BY <1>2, <1>3, <2>1 DEF JobsAreInOnePlace, Busy, Waits
<1>5. CASE threads' = 0
  <2>1. queue' = <<>> /\ running' = {}
    BY <1>2, <1>3, <1>5 DEF SpawnFail
  <2>2. Busy' = {}
    BY <2>1 DEF running, Busy
  <2> QED
    BY <1>2, <1>3, <2>1, <2>2 DEF JobsAreInOnePlace, Busy, Waits
<1> QED
  BY <1>4, <1>5

\* Every step keeps each job in one place.
LEMMA OnePlaceStep ==
    TypeOK /\ JobsAreInOnePlace /\ [Next]_vars => JobsAreInOnePlace'
<1> SUFFICES ASSUME TypeOK, JobsAreInOnePlace, [Next]_vars PROVE JobsAreInOnePlace'
  OBVIOUS
<1>1. ASSUME UNCHANGED <<queue, job, outcome>>,
             \A v \in Workers : at'[v] = "running" <=> at[v] = "running"
      PROVE  JobsAreInOnePlace'
  BY <1>1, Stays DEF JobsAreInOnePlace, Busy, Waits
<1>2. ASSUME NEW w \in Workers, SpawnOk(w) \/ SpuriousWake(w) \/ TimeOut(w)
      PROVE  JobsAreInOnePlace'
  BY <1>1, <1>2 DEF SpawnOk, SpuriousWake, TimeOut, TypeOK
<1>3. ASSUME NEW w \in Workers, Look(w) \/ Resume(w) PROVE JobsAreInOnePlace'
  <2>1. at[w] # "running" /\ UNCHANGED outcome
    BY <1>3 DEF Look, Resume
  <2>2. CASE Take(w)
    BY <2>1, <2>2, TakeMoves
  <2>3. CASE ~Take(w)
    BY <1>1, <1>3, <2>1, <2>3 DEF Look, Resume, TypeOK
  <2> QED
    BY <2>2, <2>3
<1>4. CASE UNCHANGED vars
  BY <1>1, <1>4 DEF vars
<1> QED
  BY <1>2, <1>3, <1>4, SubmitMoves, FinishMoves, SpawnFailMoves DEF Next

\* A job is in the queue once, or on one thread, or settled: it is run at most once.
THEOREM EachJobRunsOnce == Spec => []JobsAreInOnePlace
  BY TypeInit, TypeStep, OnePlaceInit, OnePlaceStep, PTL DEF Spec

-----------------------------------------------------------------------------
\* A thread that is not in a job leaves room below the cap.
LEMMA Room ==
    ASSUME TypeOK, NEW w \in Workers, at[w] \notin {"none", "running"}
    PROVE  Cardinality(running) < MaxThreads
<1> DEFINE f == [v \in Busy |-> job[v]]
<1>1. IsFiniteSet(Busy) /\ IsFiniteSet(Alive)
  BY PoolAssumption, FS_Subset DEF Busy, Alive, In
<1>2. Cardinality(running) <= Cardinality(Busy) /\ IsFiniteSet(running)
  <2>1. f \in Surjection(Busy, running)
    BY DEF Surjection, running, Busy
  <2> QED
    BY <1>1, <2>1, FS_Surjection
<1>3. Busy \in SUBSET (Alive \ {w})
  BY DEF Busy, Alive, In, Places
<1>4. /\ IsFiniteSet(Alive \ {w})
      /\ Cardinality(Alive \ {w}) = Cardinality(Alive) - 1
  <2>1. w \in Alive
    BY DEF Alive, In, TypeOK
  <2> QED
    BY <1>1, <2>1, FS_RemoveElement
<1>5. Cardinality(Busy) <= Cardinality(Alive \ {w})
  BY <1>3, <1>4, FS_Subset
<1>6. /\ Cardinality(running) \in Nat /\ Cardinality(Busy) \in Nat
      /\ Cardinality(Alive) \in Nat /\ MaxThreads \in Nat
      /\ Cardinality(Alive) <= MaxThreads
  BY <1>1, <1>2, FS_CardinalityType, PoolAssumption DEF TypeOK
<1> QED
  BY <1>2, <1>4, <1>5, <1>6

\* The pool begins as the job queue does.
LEMMA PromiseInit == Init => Promise!Init
  BY DEF Init, Promise!Init, running, In

\* Every step of the pool is a step of the queue it promises, or changes nothing in it.
LEMMA PromiseStep ==
    TypeOK /\ JobsAreInOnePlace /\ [Next]_vars => [Promise!Next]_Promise!vars
<1> SUFFICES ASSUME TypeOK, JobsAreInOnePlace, [Next]_vars
             PROVE  [Promise!Next]_Promise!vars
  OBVIOUS
<1>1. ASSUME UNCHANGED <<queue, job, outcome>>,
             \A v \in Workers : at'[v] = "running" <=> at[v] = "running"
      PROVE  UNCHANGED Promise!vars
  BY <1>1, Stays DEF Promise!vars
<1>2. ASSUME NEW j \in Jobs, Submit(j) PROVE Promise!Submit(j)
  BY <1>2, SubmitMoves DEF Submit, New, Waits, Promise!Submit, Promise!New, Promise!Waits
<1>3. ASSUME NEW w \in Workers, SpawnFail(w) PROVE [Promise!Next]_Promise!vars
  <2>1. CASE threads' = 0 /\ queue # <<>>
    <3>1. Promise!DropAll
      <4>1. running = {} /\ running' = running
        BY <1>3, <2>1, SpawnFailMoves
      <4>2. /\ queue' = <<>>
            /\ outcome' = [j \in Jobs |-> IF Promise!Waits(j) THEN "error" ELSE outcome[j]]
        BY <1>3, <2>1 DEF SpawnFail, Waits, Promise!Waits
      <4> QED
        BY <2>1, <4>1, <4>2 DEF Promise!DropAll
    <3> QED
      BY <3>1 DEF Promise!Next
  <2>2. CASE threads' = 0 /\ queue = <<>>
    <3>1. outcome' = outcome
      <4>1. \A j \in Jobs : ~Waits(j)
        BY <2>2 DEF Waits
      <4> QED
        BY <1>3, <2>2, <4>1 DEF SpawnFail, TypeOK
    <3> QED
      BY <1>3, <2>2, <3>1, SpawnFailMoves DEF SpawnFail, Promise!vars
  <2>3. CASE threads' # 0
    BY <1>3, <2>3, SpawnFailMoves DEF SpawnFail, Promise!vars
  <2> QED
    BY <2>1, <2>2, <2>3
<1>4. ASSUME NEW w \in Workers, Look(w) \/ Resume(w) PROVE [Promise!Next]_Promise!vars
  <2>1. at[w] \notin {"none", "running"} /\ UNCHANGED outcome
    BY <1>4 DEF Look, Resume
  <2>2. CASE Take(w)
    <3>1. Promise!Start
      <4>1. Promise!Cardinality(running) = Cardinality(running)
        BY DEF Cardinality, Promise!Cardinality
      <4> QED
        BY <2>1, <2>2, <4>1, TakeMoves, Room DEF Take, Promise!Start
    <3> QED
      BY <3>1 DEF Promise!Next
  <2>3. CASE ~Take(w)
    BY <1>1, <1>4, <2>1, <2>3 DEF Look, Resume, TypeOK
  <2> QED
    BY <2>2, <2>3
<1>5. ASSUME NEW w \in Workers, Finish(w) PROVE Promise!Finish(job[w]) /\ job[w] \in Jobs
  BY <1>5, FinishMoves DEF Finish, Promise!Finish
<1>6. ASSUME NEW w \in Workers, SpawnOk(w) \/ SpuriousWake(w) \/ TimeOut(w)
      PROVE  UNCHANGED Promise!vars
  BY <1>1, <1>6 DEF SpawnOk, SpuriousWake, TimeOut, TypeOK
<1>7. CASE UNCHANGED vars
  BY <1>1, <1>7 DEF vars
<1> QED
  BY <1>2, <1>3, <1>4, <1>5, <1>6, <1>7 DEF Next, Promise!Next

\* The pool implements the job queue it promises: jobs start in order, run once, at
\* most MaxThreads at a time, and are dropped only while none runs.
THEOREM ImplementsPromise == Spec => Promise!Spec
<1>1. Spec => [](TypeOK /\ JobsAreInOnePlace)
  BY TypeInit, TypeStep, OnePlaceInit, OnePlaceStep, PTL DEF Spec
<1> QED
  BY <1>1, PromiseInit, PromiseStep, PTL DEF Spec, Promise!Spec

-------------------------------------------------------------------------------
(* The pool and the executor side by side.                                  *)

P == INSTANCE AsyncExecutor_proofs WITH Workers <- Pollers, queue <- ready, at <- place

\* The executor of the composition begins as the one the theorems are about.
LEMMA SameInit == E!Init => P!Init
BY
DEF E!Tasks, P!Tasks, E!NoTask, P!NoTask, E!Actors, P!Actors, E!Init, P!Init

\* Its steps are steps of the one the theorems are about.
LEMMA SameNext == [E!Next]_execVars => [P!Next]_P!vars
BY
DEF execVars, E!Tasks, P!Tasks, E!NoTask, P!NoTask, E!Actors, P!Actors, E!body, P!body, E!exec,
              P!exec, E!calls, P!calls, E!In, P!In, E!Polls, P!Polls, E!Release, P!Release, E!Swap,
              P!Swap, E!Push, P!Push, E!NotifyOne, P!NotifyOne, E!Notify, P!Notify, E!Spawn,
              P!Spawn, E!Expire, P!Expire, E!Complete, P!Complete, E!Look, P!Look, E!SpuriousWake,
              P!SpuriousWake, E!Clear, P!Clear, E!Enter, P!Enter, E!PollAcquire, P!PollAcquire,
              E!PollCell, P!PollCell, E!PermitDrop, P!PermitDrop, E!Leave, P!Leave, E!EndPoll,
              P!EndPoll, E!Next, P!Next, E!vars, P!vars

\* The sets and operators that both name are the same.
LEMMA SameSets ==
    /\ P!Tasks = E!Tasks /\ P!NoTask = E!NoTask /\ P!Actors = E!Actors
    /\ P!Stages = E!Stages /\ P!Places = E!Places /\ P!Inside = E!Inside
BY DEF E!Tasks, P!Tasks, E!NoTask, P!NoTask, E!Actors, P!Actors, E!Stages, P!Stages,
       E!Places, P!Places, E!Inside, P!Inside

\* Counting with either definition gives the same number.
LEMMA SameSizes ==
    ASSUME NEW S
    PROVE  /\ P!Cardinality(S) = E!Cardinality(S)
           /\ P!IsFiniteSet(S) <=> E!IsFiniteSet(S)
<1>1. P!Cardinality(S) = E!Cardinality(S)
  BY Zenon DEF P!Cardinality, E!Cardinality
<1>2. P!IsFiniteSet(S) <=> E!IsFiniteSet(S)
  BY Zenon DEF P!IsFiniteSet, E!IsFiniteSet
<1> QED
  BY <1>1, <1>2

\* The two type invariants agree.
LEMMA SameTypes == P!TypeOK => E!TypeOK
<1>1. P!Typed => E!Typed
  BY SameSets, Zenon DEF P!Typed, E!Typed
<1> QED
  BY <1>1, SameSets, SameSizes, Zenon DEF P!TypeOK, E!TypeOK

\* The three properties of the executor make the property of the composition.
LEMMA SamePromises ==
    P!QueuedOnce /\ P!NoLostWake /\ P!SleepersAreNotNeeded => NoLostWake
<1>1. \A places : P!In(places) = E!In(places)
  BY DEF P!In, E!In
<1>a. P!In({"popped"}) = E!In({"popped"}) /\ P!In({"asleep"}) = E!In({"asleep"})
      /\ P!In({"ready"}) = E!In({"ready"})
  BY <1>1
<1>2. P!QueuedOnce => E!QueuedOnce
  <2>1. \A t : /\ {a \in P!Actors : step[a] = "push" /\ Head(toWake[a]) = t}
                    = {a \in E!Actors : step[a] = "push" /\ Head(toWake[a]) = t}
               /\ {w \in P!In({"popped"}) : task[w] = t} = {w \in E!In({"popped"}) : task[w] = t}
    BY <1>a, SameSets
  <2> QED
    BY <2>1, SameSets, SameSizes, Zenon DEF P!QueuedOnce, E!QueuedOnce
<1>3. \A t : P!Coming(t) => E!Coming(t)
  BY <1>1, SameSets, Zenon DEF P!Coming, E!Coming, P!WakePending, E!WakePending
<1>4. P!NoLostWake => E!NoLostWake
  BY <1>3, SameSets, Zenon DEF P!NoLostWake, E!NoLostWake
<1>5. P!SleepersAreNotNeeded => E!SleepersAreNotNeeded
  <2>1. {a \in P!Actors : step[a] = "notify"} = {a \in E!Actors : step[a] = "notify"}
    BY SameSets
  <2> QED
    BY <1>a, <2>1, SameSizes, Zenon DEF P!SleepersAreNotNeeded, E!SleepersAreNotNeeded
<1> QED
  BY <1>2, <1>4, <1>5 DEF NoLostWake
-----------------------------------------------------------------------------
\* The executor's invariant holds at the beginning of the composition.
LEMMA ExecutorInit == E!Init => P!IInv
<1>1. P!ExecutorAssumption
  BY RuntimeAssumption, SameSizes DEF E!ExecutorAssumption, P!ExecutorAssumption
<1> QED
  BY <1>1, SameInit, P!InitIInv

\* The executor's steps keep it.
LEMMA ExecutorStep == P!IInv /\ [E!Next]_execVars => P!IInv'
<1>1. P!ExecutorAssumption
  BY RuntimeAssumption, SameSizes DEF E!ExecutorAssumption, P!ExecutorAssumption
<1> QED
  BY <1>1, SameNext, P!StepIInv

\* Both schedulers' invariants.
RuntimeInv == TypeOK /\ EveryJobHasAThread /\ P!IInv

\* Both invariants hold at the beginning.
LEMMA RuntimeInit == MCInit => RuntimeInv
BY TypeInit, ThreadInit, ExecutorInit DEF MCInit, RuntimeInv

\* A step of either part keeps both.
LEMMA RuntimeStep == RuntimeInv /\ [MCNext]_allVars => RuntimeInv'
<1> SUFFICES ASSUME RuntimeInv, [MCNext]_allVars PROVE RuntimeInv'
  OBVIOUS
<1>1. [Next]_vars /\ [E!Next]_execVars
  BY DEF MCNext, Pool, Exec, allVars
<1>2. TypeOK' /\ EveryJobHasAThread'
  BY <1>1, TypeStep, ThreadStep DEF RuntimeInv
<1>3. P!IInv'
  BY <1>1, ExecutorStep DEF RuntimeInv
<1> QED
  BY <1>2, <1>3 DEF RuntimeInv

\* The counters of the pool are exact, and the semaphore's permits conserved.
THEOREM RuntimeTypes == MCSpec => []RuntimeTypeOK
<1>1. RuntimeInv => RuntimeTypeOK
  BY SameTypes DEF RuntimeInv, RuntimeTypeOK, P!IInv
<1> QED
  BY <1>1, RuntimeInit, RuntimeStep, PTL DEF MCSpec

\* A task on its way to a poll is in one place, a task that can go on is going to be
\* polled, and no worker sleeps beside a task nobody comes for.
THEOREM RuntimeWakes == MCSpec => []NoLostWake
<1>1. RuntimeInv => P!QueuedOnce /\ P!NoLostWake /\ P!SleepersAreNotNeeded
  BY P!OneIsCounted, P!WokenIsNotLost DEF RuntimeInv, P!IInv, P!TypeOK
<1>2. RuntimeInv => NoLostWake
  BY <1>1, SamePromises
<1> QED
  BY <1>2, RuntimeInit, RuntimeStep, PTL DEF MCSpec
=============================================================================
