---------------------------- MODULE MCFiles_proofs ----------------------------
(***************************************************************************)
(* What the launcher keeps on disk, for any number of installs, workers,   *)
(* batches, chunks, saves, tasks and faults: the files of a game, the      *)
(* store of instances, and what is prepared for a launch.                  *)
(***************************************************************************)
EXTENDS MCFiles, FiniteSetTheorems, TLAPS

-----------------------------------------------------------------------------
(* The files of a game (GameFiles).                                         *)

GameTyped ==
    /\ dest \in [Files -> SUBSET Nat] /\ temp \in [Files -> SUBSET Nat]
    /\ batch \in [Installs -> 0..Len(Batches)]
    /\ result \in [Installs -> {"none", "ok", "err"}]
    /\ queue \in [Installs -> SUBSET Files]
    /\ at \in [Threads -> Places]
    /\ task \in [Threads -> Files \cup {NoFile}]
    /\ open \in [Threads -> {"closed", "temp", "dest", "unlinked"}]
    /\ offset \in [Threads -> Nat]
    /\ met \in SUBSET Files
    /\ \A t \in Threads : task[t] # NoFile <=> at[t] \in {"get", "write"}

\* The workers of an install begin and end together, and none ends before the queue has.
Together ==
    /\ \A i \in Installs : batch[i] = 0 => \A t \in Of(i) : at[t] = "idle"
    /\ \A i \in Installs : \A t, u \in Of(i) : at[t] = "idle" => at[u] = "idle"
    /\ \A i \in Installs : \A t \in Of(i) : at[t] = "ok" => queue[i] = {}

\* Who writes a file alone writes the temporary one, from the start.
Alone ==
    \A f \in Files \ met : \A t \in Writing(f) :
        /\ open[t] = "temp" /\ temp[f] = 1..offset[t]
        /\ \A u \in Writing(f) : u = t

\* The files of the batches before are whole; those of this one are, or someone still has
\* them to fetch, or a worker has failed.
Idling(i) == \A t \in Of(i) : at[t] = "idle"
InHand(i, f) == f \in queue[i] \/ \E t \in Of(i) : task[t] = f
Fetched(i) ==
    batch[i] # 0 =>
      /\ \A c \in 1..batch[i]-1 : \A f \in Batches[c] \ met : dest[f] = Whole
      /\ \/ Idling(i) \/ Failed(i)
         \/ \A f \in Batches[batch[i]] \ met : dest[f] = Whole \/ InHand(i, f)

GameInv ==
    /\ GameTyped /\ Together /\ Alone /\ PresentIsComplete /\ SuccessIsComplete
    /\ \A i \in Installs : Fetched(i)

\* The lists of files, and whose worker a thread is: consequences of the assumptions.
LEMMA GameFacts ==
    /\ Chunks \in Nat /\ Chunks # 0 /\ Len(Batches) \in Nat /\ Len(Batches) # 0
    /\ \A b \in 1..Len(Batches) : Batches[b] \in SUBSET Files
    /\ \A f \in Files : \E b \in 1..Len(Batches) : f \in Batches[b]
    /\ NoFile \notin Files
    /\ \A t \in Threads : t[1] \in Installs /\ t \in Of(t[1])
    /\ \A i \in Installs : Of(i) # {} /\ Of(i) \subseteq Threads
    /\ \A i \in Installs : \A t \in Of(i) : t[1] = i
    /\ \A t \in Threads : \A i \in Installs : t \in Of(i) <=> t[1] = i
<1>1. Chunks \in Nat /\ Chunks # 0 /\ NoFile \notin Files /\ Batches \in Seq(SUBSET Files)
      /\ Batches # <<>> /\ Workers # {}
  BY FilesAssumption
<1>2. DOMAIN Batches = 1..Len(Batches) /\ Len(Batches) \in Nat /\ Len(Batches) # 0
  BY <1>1
<1>3. \A b \in 1..Len(Batches) : Batches[b] \in SUBSET Files
  BY <1>1, <1>2
<1>4. \A f \in Files : \E b \in 1..Len(Batches) : f \in Batches[b]
  BY <1>2 DEF Files
<1>5. \A t \in Threads : t[1] \in Installs /\ t \in Of(t[1])
  BY DEF Threads, Of
<1>6. ASSUME NEW i \in Installs PROVE Of(i) # {} /\ Of(i) \subseteq Threads
  <2>1. PICK w : w \in Workers
    BY <1>1
  <2>2. <<i, w>> \in Threads
    BY <2>1 DEF Threads
  <2> QED
    BY <2>2 DEF Of
<1> QED
  BY <1>1, <1>2, <1>3, <1>4, <1>5, <1>6 DEF Of

\* The type of each variable, for citing one at a time.
LEMMA GameTypes ==
    ASSUME GameTyped
    PROVE  /\ dest \in [Files -> SUBSET Nat] /\ temp \in [Files -> SUBSET Nat]
           /\ batch \in [Installs -> 0..Len(Batches)]
           /\ result \in [Installs -> {"none", "ok", "err"}]
           /\ queue \in [Installs -> SUBSET Files]
           /\ at \in [Threads -> Places]
           /\ task \in [Threads -> Files \cup {NoFile}]
           /\ open \in [Threads -> {"closed", "temp", "dest", "unlinked"}]
           /\ offset \in [Threads -> Nat]
           /\ met \in SUBSET Files
           /\ \A t \in Threads : at[t] \in {"get", "write"} => task[t] \in Files
           /\ \A t \in Threads : at[t] \notin {"get", "write"} => task[t] = NoFile
BY DEF GameTyped

\* The places a worker can be at.
LEMMA PlaceNames ==
    /\ "idle" \in Places /\ "next" \in Places /\ "get" \in Places /\ "write" \in Places
    /\ "ok" \in Places /\ "err" \in Places
BY DEF Places

\* What an install does when it goes on or returns.
LEMMA InstallMoves ==
    ASSUME GameTyped, NEW i \in Installs, batch[i] # 0,
           Advance(i) \/ Return(i, "err")
    PROVE  /\ batch' \in [Installs -> 0..Len(Batches)]
           /\ result' \in [Installs -> {"none", "ok", "err"}]
           /\ \A j \in Installs \ {i} : batch'[j] = batch[j] /\ result'[j] = result[j]
           /\ \/ batch'[i] = 0 /\ result'[i] = "err"
              \/ Advance(i) /\ batch[i] = Len(Batches) /\ batch'[i] = 0 /\ result'[i] = "ok"
              \/ Advance(i) /\ batch[i] # Len(Batches) /\ batch'[i] = batch[i] + 1 /\ result'[i] = result[i]
<1> USE GameTypes, GameFacts
<1>1. CASE Return(i, "err")
  BY <1>1 DEF Return
<1>2. CASE Advance(i) /\ batch[i] = Len(Batches)
  <2>1. batch' = [batch EXCEPT ![i] = 0] /\ result' = [result EXCEPT ![i] = "ok"]
    BY <1>2 DEF Advance
  <2>2. 0 \in 0..Len(Batches)
    OBVIOUS
  <2> QED
    BY <1>2, <2>1, <2>2
<1>3. CASE Advance(i) /\ batch[i] # Len(Batches)
  <2>1. batch' = [batch EXCEPT ![i] = @ + 1] /\ result' = result
    BY <1>3 DEF Advance
  <2>2. batch[i] \in 0..Len(Batches) /\ batch[i] + 1 \in 0..Len(Batches)
    BY <1>3
  <2> QED
    BY <1>3, <2>1, <2>2
<1> QED
  BY <1>1, <1>2, <1>3

\* Every step keeps the types.
LEMMA GameTypedStep ==
    ASSUME GameTyped, Next
    PROVE  GameTyped'
<1> USE GameTypes, GameFacts, PlaceNames
<1>1. ASSUME NEW i \in Installs, Begin(i) PROVE GameTyped'
  <2>1. 1 \in 0..Len(Batches)
    OBVIOUS
  <2> QED
    BY <1>1, <2>1 DEF Begin, disk, worker, GameTyped
<1>2. ASSUME NEW i \in Installs, Collect(i) PROVE GameTyped'
  <2>1. batch[i] # 0
    BY <1>2 DEF Collect
  <2>2. UNCHANGED <<batch, result>> \/ Advance(i) \/ Return(i, "err")
    BY <1>2 DEF Collect
  <2>3. batch' \in [Installs -> 0..Len(Batches)] /\ result' \in [Installs -> {"none", "ok", "err"}]
    BY <2>1, <2>2, InstallMoves
  <2>4. CASE UNCHANGED <<queue, at>>
    BY <1>2, <2>3, <2>4 DEF Collect, disk, GameTyped
  <2>5. CASE /\ queue' = [queue EXCEPT ![i] = Missing(batch[i])]
             /\ at' = [t \in Threads |-> IF t \in Of(i) THEN "next" ELSE at[t]]
    <3>1. Missing(batch[i]) \in SUBSET Files
      BY <2>1 DEF Missing
    <3>2. queue' \in [Installs -> SUBSET Files] /\ at' \in [Threads -> Places]
      BY <2>5, <3>1
    <3>3. \A t \in Of(i) : at[t] = "idle"
      BY <1>2 DEF Collect
    <3>4. \A t \in Threads : task'[t] # NoFile <=> at'[t] \in {"get", "write"}
      BY <1>2, <2>5, <3>3 DEF Collect
    <3> QED
      BY <1>2, <2>3, <3>2, <3>4 DEF Collect, disk, GameTyped
  <2> QED
    BY <1>2, <2>4, <2>5 DEF Collect
<1>3. ASSUME NEW i \in Installs, Join(i) PROVE GameTyped'
  <2>1. batch[i] # 0 /\ (Advance(i) \/ Return(i, "err"))
    BY <1>3 DEF Join
  <2>2. batch' \in [Installs -> 0..Len(Batches)] /\ result' \in [Installs -> {"none", "ok", "err"}]
    BY <2>1, InstallMoves
  <2>3. queue' \in [Installs -> SUBSET Files] /\ at' \in [Threads -> Places]
    BY <1>3 DEF Join
  <2>4. \A t \in Threads : task'[t] # NoFile <=> at'[t] \in {"get", "write"}
    <3>1. /\ \A t \in Of(i) : at[t] \in {"ok", "err"}
          /\ task' = task /\ at' = [t \in Threads |-> IF t \in Of(i) THEN "idle" ELSE at[t]]
      BY <1>3 DEF Join
    <3> QED
      BY <3>1 DEF GameTyped
  <2> QED
    BY <1>3, <2>2, <2>3, <2>4 DEF Join, disk, GameTyped
<1>4. ASSUME NEW t \in Threads, Take(t) PROVE GameTyped'
  <2>1. CASE queue[t[1]] # {}
    <3>1. PICK f \in queue[t[1]] : /\ queue' = [queue EXCEPT ![t[1]] = @ \ {f}]
                                   /\ task' = [task EXCEPT ![t] = f]
                                   /\ at' = [at EXCEPT ![t] = "get"]
      BY <1>4, <2>1 DEF Take, NextTask
    <3>2. f \in Files
      OBVIOUS
    <3> QED
      BY <1>4, <3>1, <3>2 DEF Take, disk, GameTyped
  <2>2. CASE queue[t[1]] = {}
    <3>1. at' = [at EXCEPT ![t] = "ok"] /\ at[t] = "next" /\ UNCHANGED <<queue, task>>
      BY <1>4, <2>2 DEF Take, NextTask
    <3>2. \A u \in Threads : task'[u] # NoFile <=> at'[u] \in {"get", "write"}
      BY <3>1 DEF GameTyped
    <3>3. at' \in [Threads -> Places]
      BY <3>1
    <3> QED
      BY <1>4, <3>1, <3>2, <3>3 DEF Take, disk, GameTyped
  <2> QED
    BY <2>1, <2>2
<1>5. ASSUME NEW t \in Threads, Get(t) PROVE GameTyped'
  BY <1>5 DEF Get, Create, GameTyped
<1>6. ASSUME NEW t \in Threads, Write(t) PROVE GameTyped'
  <2>1. task[t] \in Files /\ offset'[t] \in Nat /\ offset' \in [Threads -> Nat]
    BY <1>6 DEF Write
  <2>2. temp' \in [Files -> SUBSET Nat] /\ dest' \in [Files -> SUBSET Nat]
    <3> DEFINE more == temp[task[t]] \cup {offset'[t]}
               moreThere == dest[task[t]] \cup {offset'[t]}
    <3>1. more \in SUBSET Nat /\ moreThere \in SUBSET Nat
      BY <2>1
    <3>2. temp' \in {temp, [temp EXCEPT ![task[t]] = more]}
      BY <1>6 DEF Write
    <3>3. dest' \in {dest, [dest EXCEPT ![task[t]] = moreThere]}
      BY <1>6 DEF Write
    <3> HIDE DEF more, moreThere
    <3> QED
      BY <3>1, <3>2, <3>3
  <2> QED
    BY <1>6, <2>1, <2>2 DEF Write, GameTyped
<1>7. ASSUME NEW t \in Threads, NEW p \in Places \ {"get", "write"}, Drop(t, p)
      PROVE  /\ at' \in [Threads -> Places] /\ task' \in [Threads -> Files \cup {NoFile}]
             /\ offset' \in [Threads -> Nat]
             /\ \A u \in Threads : task'[u] # NoFile <=> at'[u] \in {"get", "write"}
  BY <1>7 DEF Drop
<1>8. ASSUME NEW t \in Threads, Rename(t) PROVE GameTyped'
  <2>1. task[t] \in Files /\ temp[task[t]] \in SUBSET Nat
    BY <1>8 DEF Rename
  <2>2. dest' \in [Files -> SUBSET Nat]
    BY <1>8, <2>1 DEF Rename
  <2>3. temp' \in [Files -> SUBSET Nat]
    BY <1>8, <2>1 DEF Rename, Absent
  <2>4. open' \in [Threads -> {"closed", "temp", "dest", "unlinked"}]
    BY <1>8 DEF Rename
  <2>5. Drop(t, "next")
    BY <1>8 DEF Rename
  <2> QED
    BY <1>7, <1>8, <2>2, <2>3, <2>4, <2>5 DEF Rename, GameTyped
<1>9. ASSUME NEW t \in Threads, Fail(t) PROVE GameTyped'
  <2>1. Drop(t, "err")
    BY <1>9 DEF Fail
  <2> QED
    BY <1>7, <1>9, <2>1 DEF Fail, disk, GameTyped
<1>10. CASE Crash
  BY <1>10 DEF Crash, disk, GameTyped
<1> QED
  BY <1>1, <1>2, <1>3, <1>4, <1>5, <1>6, <1>8, <1>9, <1>10 DEF Next

\* Steps that write nothing, and by which nobody begins to write.
LEMMA AloneStays ==
    ASSUME Alone, met' = met, dest' = dest, temp' = temp,
           \A t \in Threads : at'[t] = "write" =>
              /\ at[t] = "write" /\ task'[t] = task[t]
              /\ open'[t] = open[t] /\ offset'[t] = offset[t]
    PROVE  Alone'
<1> SUFFICES ASSUME NEW f \in Files \ met, NEW t \in Writing(f)'
             PROVE  /\ open'[t] = "temp" /\ temp'[f] = 1..offset'[t]
                    /\ \A u \in Writing(f)' : u = t
  BY DEF Alone
<1>1. Writing(f)' \subseteq Writing(f)
  BY DEF Writing
<1>2. t \in Threads /\ at'[t] = "write"
  BY DEF Writing
<1> QED
  BY <1>1, <1>2 DEF Alone

\* What is written comes from one writer alone and is whole when it is renamed; what is
\* whole stays so.
LEMMA AloneStep ==
    ASSUME GameTyped, Alone, PresentIsComplete, Next
    PROVE  /\ Alone' /\ PresentIsComplete' /\ met \subseteq met'
           /\ \A f \in Files \ met' : dest[f] = Whole => dest'[f] = Whole
<1> USE GameTypes
<1>a. ASSUME met' = met, dest' = dest, temp' = temp,
             \A t \in Threads : at'[t] = "write" =>
                /\ at[t] = "write" /\ task'[t] = task[t]
                /\ open'[t] = open[t] /\ offset'[t] = offset[t]
      PROVE  /\ Alone' /\ PresentIsComplete' /\ met \subseteq met'
             /\ \A f \in Files \ met' : dest[f] = Whole => dest'[f] = Whole
  BY <1>a, AloneStays DEF PresentIsComplete
<1>1. ASSUME NEW i \in Installs, Begin(i) \/ Collect(i) \/ Join(i)
      PROVE  /\ Alone' /\ PresentIsComplete' /\ met \subseteq met'
             /\ \A f \in Files \ met' : dest[f] = Whole => dest'[f] = Whole
  <2>1. UNCHANGED <<met, dest, temp, task, open, offset>>
    BY <1>1 DEF Begin, Collect, Join, disk, worker
  <2>2. \A t \in Threads : at'[t] = "write" => at[t] = "write"
    BY <1>1 DEF Begin, Collect, Join, worker
  <2> QED
    BY <1>a, <2>1, <2>2
<1>2. ASSUME NEW t \in Threads, Take(t)
      PROVE  /\ Alone' /\ PresentIsComplete' /\ met \subseteq met'
             /\ \A f \in Files \ met' : dest[f] = Whole => dest'[f] = Whole
  <2>1. UNCHANGED <<met, dest, temp, open, offset>>
    BY <1>2 DEF Take, disk
  <2>2. /\ at'[t] # "write"
        /\ \A u \in Threads \ {t} : at'[u] = at[u] /\ task'[u] = task[u]
    BY <1>2 DEF Take, NextTask
  <2> QED
    BY <1>a, <2>1, <2>2
<1>3. ASSUME NEW t \in Threads, Fail(t)
      PROVE  /\ Alone' /\ PresentIsComplete' /\ met \subseteq met'
             /\ \A f \in Files \ met' : dest[f] = Whole => dest'[f] = Whole
  <2>1. UNCHANGED <<met, dest, temp>>
    BY <1>3 DEF Fail, disk
  <2>2. /\ at'[t] # "write"
        /\ \A u \in Threads \ {t} : at'[u] = at[u] /\ task'[u] = task[u]
                                    /\ open'[u] = open[u] /\ offset'[u] = offset[u]
    BY <1>3 DEF Fail, Drop
  <2> QED
    BY <1>a, <2>1, <2>2
<1>4. CASE Crash
  <2>1. UNCHANGED <<met, dest, temp>> /\ \A t \in Threads : at'[t] # "write"
    BY <1>4 DEF Crash, disk
  <2> QED
    BY <1>a, <2>1
<1>5. ASSUME NEW t \in Threads, Get(t)
      PROVE  /\ Alone' /\ PresentIsComplete' /\ met \subseteq met'
             /\ \A f \in Files \ met' : dest[f] = Whole => dest'[f] = Whole
  <2>1. /\ dest' = dest /\ temp' = [temp EXCEPT ![task[t]] = {}] /\ task' = task
        /\ at[t] = "get" /\ at'[t] = "write" /\ open'[t] = "temp" /\ offset'[t] = 0
        /\ task[t] \in Files
        /\ \A u \in Threads \ {t} : at'[u] = at[u] /\ open'[u] = open[u] /\ offset'[u] = offset[u]
        /\ met' = IF Writing(task[t]) = {} THEN met ELSE met \cup {task[t]}
    BY <1>5 DEF Get, Create
  <2>2. ASSUME NEW f \in Files \ met', NEW v \in Writing(f)'
        PROVE  /\ open'[v] = "temp" /\ temp'[f] = 1..offset'[v]
               /\ \A u \in Writing(f)' : u = v
    <3>1. f \notin met /\ v \in Threads
      BY <2>1 DEF Writing
    <3>2. CASE f = task[t]
      <4>1. Writing(f) = {}
        BY <2>1, <3>2
      <4>2. Writing(f)' = {t}
        BY <2>1, <3>2, <4>1 DEF Writing
      <4>3. v = t /\ 1..0 = {}
        BY <4>2
      <4> QED
        BY <2>1, <3>2, <4>2, <4>3
    <3>3. CASE f # task[t]
      <4>1. Writing(f)' = Writing(f) /\ v # t
        BY <2>1, <3>3 DEF Writing
      <4>2. temp'[f] = temp[f]
        BY <2>1, <3>3
      <4> QED
        BY <2>1, <3>1, <4>1, <4>2 DEF Alone
    <3> QED
      BY <3>2, <3>3
  <2> QED
    BY <2>1, <2>2 DEF Alone, PresentIsComplete
<1>6. ASSUME NEW t \in Threads, Write(t)
      PROVE  /\ Alone' /\ PresentIsComplete' /\ met \subseteq met'
             /\ \A f \in Files \ met' : dest[f] = Whole => dest'[f] = Whole
  <2>1. /\ at[t] = "write" /\ task[t] \in Files /\ UNCHANGED <<at, task, open, met>>
        /\ offset'[t] = offset[t] + 1 /\ \A u \in Threads \ {t} : offset'[u] = offset[u]
        /\ \A f \in Files \ {task[t]} : temp'[f] = temp[f] /\ dest'[f] = dest[f]
    BY <1>6 DEF Write
  <2>2. ASSUME task[t] \notin met
        PROVE  open[t] = "temp" /\ temp[task[t]] = 1..offset[t]
    BY <2>1, <2>2 DEF Alone, Writing
  <2>3. ASSUME task[t] \notin met
        PROVE  dest' = dest /\ temp'[task[t]] = 1..offset'[t]
    <3>1. temp' = [temp EXCEPT ![task[t]] = @ \cup {offset'[t]}] /\ dest' = dest
      BY <1>6, <2>2, <2>3 DEF Write
    <3>2. 1..offset[t] \cup {offset[t] + 1} = 1..(offset[t] + 1)
      OBVIOUS
    <3> QED
      BY <2>1, <2>2, <2>3, <3>1, <3>2
  <2>4. ASSUME NEW f \in Files \ met', NEW v \in Writing(f)'
        PROVE  /\ open'[v] = "temp" /\ temp'[f] = 1..offset'[v]
               /\ \A u \in Writing(f)' : u = v
    <3>1. Writing(f)' = Writing(f) /\ f \notin met /\ v \in Threads /\ t \in Writing(task[t])
      BY <2>1 DEF Writing
    <3>2. CASE f = task[t]
      BY <2>1, <2>3, <3>1, <3>2 DEF Alone
    <3>3. CASE f # task[t]
      <4>1. v # t
        BY <3>1, <3>3 DEF Writing
      <4> QED
        BY <2>1, <3>1, <3>3, <4>1 DEF Alone
    <3> QED
      BY <3>2, <3>3
  <2> QED
    BY <2>1, <2>3, <2>4 DEF Alone, PresentIsComplete
<1>7. ASSUME NEW t \in Threads, Rename(t)
      PROVE  /\ Alone' /\ PresentIsComplete' /\ met \subseteq met'
             /\ \A f \in Files \ met' : dest[f] = Whole => dest'[f] = Whole
  <2>1. /\ at[t] = "write" /\ offset[t] = Chunks /\ met' = met /\ task[t] \in Files
        /\ dest' = [dest EXCEPT ![task[t]] = temp[task[t]]]
        /\ temp' = [temp EXCEPT ![task[t]] = Absent]
        /\ at'[t] = "next"
        /\ \A u \in Threads \ {t} : at'[u] = at[u] /\ task'[u] = task[u] /\ offset'[u] = offset[u]
        /\ \A u \in Threads \ {t} : u \notin Writing(task[t]) => open'[u] = open[u]
    BY <1>7 DEF Rename, Drop
  <2>2. task[t] \notin met => temp[task[t]] = Whole
    BY <2>1 DEF Alone, Writing, Whole
  <2>3. ASSUME NEW f \in Files \ met', NEW v \in Writing(f)'
        PROVE  /\ open'[v] = "temp" /\ temp'[f] = 1..offset'[v]
               /\ \A u \in Writing(f)' : u = v
    <3>1. f \notin met /\ v \in Threads /\ v # t /\ v \in Writing(f) /\ Writing(f)' \subseteq Writing(f)
      BY <2>1 DEF Writing
    <3>2. f # task[t]
      BY <2>1, <3>1 DEF Alone, Writing
    <3>3. v \notin Writing(task[t])
      BY <3>1, <3>2 DEF Writing
    <3> QED
      BY <2>1, <3>1, <3>2, <3>3 DEF Alone
  <2> QED
    BY <2>1, <2>2, <2>3 DEF Alone, PresentIsComplete
<1> QED
  BY <1>1, <1>2, <1>3, <1>4, <1>5, <1>6, <1>7 DEF Next

\* A worker that moves on inside its install keeps the workers together.
LEMMA WorkersTogether ==
    ASSUME GameTyped, Together, NEW t \in Threads, at[t] # "idle",
           NEW p \in Places \ {"idle"}, at' = [at EXCEPT ![t] = p], batch' = batch,
           \A i \in Installs : queue'[i] \subseteq queue[i],
           p = "ok" => queue'[t[1]] = {}
    PROVE  Together'
<1> USE GameTypes
<1>1. /\ \A i \in Installs : Of(i) \subseteq Threads
      /\ \A i \in Installs : t \in Of(i) => i = t[1]
  BY GameFacts
<1>2. at'[t] = p /\ p # "idle" /\ \A u \in Threads \ {t} : at'[u] = at[u]
  OBVIOUS
<1>3. ASSUME NEW i \in Installs, batch'[i] = 0, NEW u \in Of(i) PROVE at'[u] = "idle"
  BY <1>1, <1>2, <1>3 DEF Together
<1>4. ASSUME NEW i \in Installs, NEW u \in Of(i), NEW v \in Of(i), at'[u] = "idle"
      PROVE  at'[v] = "idle"
  BY <1>1, <1>2, <1>4 DEF Together
<1>5. ASSUME NEW i \in Installs, NEW u \in Of(i), at'[u] = "ok" PROVE queue'[i] = {}
  <2>1. CASE u = t
    <3>1. p = "ok" /\ i = t[1]
      BY <1>1, <1>2, <1>5, <2>1
    <3> QED
      BY <3>1
  <2>2. CASE u # t
    <3>1. at[u] = "ok"
      BY <1>1, <1>2, <1>5, <2>2
    <3>2. queue[i] = {}
      BY <3>1 DEF Together
    <3> QED
      BY <3>2
  <2> QED
    BY <2>1, <2>2
<1> QED
  BY <1>3, <1>4, <1>5 DEF Together, Of

\* Workers of an install begin and end together, whatever steps.
LEMMA TogetherStep ==
    ASSUME GameTyped, Together, Next
    PROVE  Together'
<1> USE GameTypes
<1>0. /\ \A i \in Installs : Of(i) \subseteq Threads /\ Of(i) # {}
      /\ \A i, j \in Installs : \A t \in Of(i) : t \in Of(j) => i = j
      /\ \A t \in Threads : t[1] \in Installs
  BY GameFacts
<1>1. ASSUME NEW i \in Installs, Begin(i) PROVE Together'
  <2>1. /\ UNCHANGED <<at, queue>> /\ \A j \in Installs : batch'[j] = 0 => batch[j] = 0
    BY <1>1 DEF Begin, worker
  <2> QED
    BY <2>1 DEF Together, Of
<1>2. ASSUME NEW i \in Installs, batch[i] # 0, \A t \in Of(i) : at'[t] = "idle",
             \A t \in Threads : t \notin Of(i) => at'[t] = at[t],
             \A j \in Installs \ {i} : queue'[j] = queue[j] /\ batch'[j] = batch[j]
      PROVE  Together'
  <2>1. \A j \in Installs \ {i} : \A t \in Of(j) : at'[t] = at[t]
    BY <1>0, <1>2
  <2>2. ASSUME NEW j \in Installs, NEW u \in Of(j)
        PROVE  /\ batch'[j] = 0 => at'[u] = "idle"
               /\ \A v \in Of(j) : at'[u] = "idle" => at'[v] = "idle"
               /\ at'[u] = "ok" => queue'[j] = {}
    <3>1. CASE j = i
      BY <1>2, <3>1
    <3>2. CASE j # i
      <4>1. /\ \A v \in Of(j) : at'[v] = at[v]
            /\ queue'[j] = queue[j] /\ batch'[j] = batch[j]
        BY <1>2, <2>1, <3>2
      <4>2. /\ batch[j] = 0 => at[u] = "idle"
            /\ \A v \in Of(j) : at[u] = "idle" => at[v] = "idle"
            /\ at[u] = "ok" => queue[j] = {}
        BY DEF Together
      <4> QED
        BY <4>1, <4>2
    <3> QED
      BY <3>1, <3>2
  <2> QED
    BY <2>2 DEF Together, Of
<1>3. ASSUME NEW i \in Installs, Collect(i) PROVE Together'
  <2>1. batch[i] # 0 /\ \A t \in Of(i) : at[t] = "idle"
    BY <1>3 DEF Collect
  <2>2. CASE UNCHANGED <<queue, at>>
    <3>1. Advance(i) \/ Return(i, "err") \/ UNCHANGED batch
      BY <1>3 DEF Collect
    <3>2. \A j \in Installs \ {i} : batch'[j] = batch[j]
      BY <2>1, <3>1, InstallMoves
    <3> QED
      BY <1>2, <2>1, <2>2, <3>2
  <2>3. CASE /\ queue' = [queue EXCEPT ![i] = Missing(batch[i])]
             /\ at' = [t \in Threads |-> IF t \in Of(i) THEN "next" ELSE at[t]]
             /\ UNCHANGED batch
    <3>1. \A t \in Of(i) : at'[t] = "next"
      BY <1>0, <2>3
    <3>2. \A j \in Installs \ {i} : queue'[j] = queue[j] /\ \A t \in Of(j) : at'[t] = at[t]
      BY <1>0, <2>3
    <3> QED
      BY <2>1, <2>3, <3>1, <3>2 DEF Together, Of
  <2> QED
    BY <1>3, <2>2, <2>3 DEF Collect
<1>4. ASSUME NEW i \in Installs, Join(i) PROVE Together'
  <2>1. /\ batch[i] # 0 /\ (Advance(i) \/ Return(i, "err"))
        /\ queue' = [queue EXCEPT ![i] = {}]
        /\ at' = [t \in Threads |-> IF t \in Of(i) THEN "idle" ELSE at[t]]
    BY <1>4 DEF Join
  <2>2. \A j \in Installs \ {i} : queue'[j] = queue[j] /\ batch'[j] = batch[j]
    BY <2>1, InstallMoves
  <2> QED
    BY <1>0, <1>2, <2>1, <2>2
<1>5. ASSUME NEW t \in Threads, Take(t) PROVE Together'
  <2>1. CASE queue[t[1]] # {}
    <3>1. PICK f \in queue[t[1]] : /\ queue' = [queue EXCEPT ![t[1]] = @ \ {f}]
                                   /\ at' = [at EXCEPT ![t] = "get"]
      BY <1>5, <2>1 DEF Take, NextTask
    <3>2. \A i \in Installs : queue'[i] \subseteq queue[i]
      BY <1>0, <3>1
    <3>3. at[t] = "next" /\ batch' = batch
      BY <1>5 DEF Take
    <3> QED
      BY <3>1, <3>2, <3>3, WorkersTogether, PlaceNames
  <2>2. CASE queue[t[1]] = {}
    <3>1. /\ queue' = queue /\ at' = [at EXCEPT ![t] = "ok"] /\ at[t] = "next" /\ batch' = batch
      BY <1>5, <2>2 DEF Take, NextTask
    <3> QED
      BY <2>2, <3>1, WorkersTogether, PlaceNames
  <2> QED
    BY <2>1, <2>2
<1>6. ASSUME NEW t \in Threads, Get(t) \/ Rename(t) \/ Fail(t) PROVE Together'
  <2>1. PICK p \in {"write", "next", "err"} : at' = [at EXCEPT ![t] = p]
    BY <1>6 DEF Get, Rename, Fail, Drop
  <2>2. at[t] # "idle" /\ queue' = queue /\ batch' = batch
    BY <1>6 DEF Get, Rename, Fail
  <2> QED
    BY <2>1, <2>2, WorkersTogether, PlaceNames
<1>7. ASSUME NEW t \in Threads, Write(t) PROVE Together'
  BY <1>7 DEF Write, Together, Of
<1>8. CASE Crash
  <2>1. \A t \in Threads : at'[t] = "idle"
    BY <1>8 DEF Crash
  <2> QED
    BY <1>0, <2>1 DEF Together, Of
<1> QED
  BY <1>1, <1>3, <1>4, <1>5, <1>6, <1>7, <1>8 DEF Next

\* A batch that is whole lets its install go on, and leaves the game whole at the end.
LEMMA Advanced ==
    ASSUME GameTyped, NEW i \in Installs, batch[i] # 0, Advance(i), Fetched(i),
           \A f \in Batches[batch[i]] \ met : dest[f] = Whole,
           dest' = dest, met' = met, Idling(i)', SuccessIsComplete
    PROVE  /\ Fetched(i)'
           /\ result'[i] = "ok" => \A f \in Files \ met' : dest'[f] = Whole
<1> USE GameTypes
<1>0. batch[i] \in Nat /\ Len(Batches) \in Nat
  BY GameFacts
<1>1. \A c \in 1..batch[i] : \A f \in Batches[c] \ met : dest[f] = Whole
  <2>1. \A c \in 1..batch[i] : c \in 1..batch[i]-1 \/ c = batch[i]
    BY <1>0
  <2> QED
    BY <2>1 DEF Fetched
<1>2. CASE batch[i] = Len(Batches)
  <2>1. batch'[i] = 0
    BY <1>2 DEF Advance
  <2>2. \A f \in Files \ met : dest[f] = Whole
    BY <1>1, <1>2, GameFacts
  <2> QED
    BY <2>1, <2>2 DEF Fetched
<1>3. CASE batch[i] # Len(Batches)
  <2>1. batch'[i] = batch[i] + 1 /\ result' = result
    BY <1>3 DEF Advance
  <2>2. batch'[i] - 1 = batch[i]
    BY <1>0, <2>1
  <2>3. Fetched(i)'
    BY <1>1, <2>2 DEF Fetched
  <2> QED
    BY <2>1, <2>3 DEF SuccessIsComplete
<1> QED
  BY <1>2, <1>3

\* What is whole stays, and what is still to be fetched stays so until it is whole.
LEMMA FetchedStays ==
    ASSUME NEW i \in Installs, Fetched(i), met \subseteq met', batch[i] \in 1..Len(Batches),
           \A f \in Files \ met' : dest[f] = Whole => dest'[f] = Whole,
           batch'[i] = batch[i], Idling(i) => Idling(i)', Failed(i) => Failed(i)' ,
           Idling(i) \/ Failed(i)' \/
             \A f \in Files \ met' : InHand(i, f) => InHand(i, f)' \/ dest'[f] = Whole
    PROVE  Fetched(i)'
<1>0. /\ Len(Batches) \in Nat /\ \A b \in 1..Len(Batches) : Batches[b] \in SUBSET Files
  BY GameFacts
<1>1. \A c \in 1..batch[i]-1 : \A f \in Batches[c] \ met' : f \in Files \ met' /\ dest[f] = Whole
  BY <1>0 DEF Fetched
<1>2. \A f \in Batches[batch[i]] \ met' : f \in Files \ met'
  BY <1>0
<1>3. \/ Idling(i)' \/ Failed(i)'
      \/ \A f \in Batches[batch[i]] \ met' : dest'[f] = Whole \/ InHand(i, f)'
  <2>1. CASE Idling(i) \/ Failed(i) \/ Failed(i)'
    BY <2>1
  <2>2. CASE ~(Idling(i) \/ Failed(i) \/ Failed(i)')
    BY <1>0, <1>2, <2>2 DEF Fetched
  <2> QED
    BY <2>1, <2>2
<1> QED
  BY <1>1, <1>3 DEF Fetched

\* What an install has fetched stays fetched, and success means all of it.
LEMMA FetchedStep ==
    ASSUME GameInv, Next
    PROVE  SuccessIsComplete' /\ \A i \in Installs : Fetched(i)'
<1> USE GameTypes DEF GameInv
<1>0. /\ \A i \in Installs : Of(i) \subseteq Threads /\ Of(i) # {}
      /\ \A i \in Installs : \A t \in Of(i) : t[1] = i
      /\ \A t \in Threads : t[1] \in Installs /\ t \in Of(t[1])
      /\ NoFile \notin Files
      /\ Len(Batches) \in Nat /\ \A b \in 1..Len(Batches) : Batches[b] \in SUBSET Files
  BY GameFacts
<1>k. /\ met \subseteq met' /\ PresentIsComplete'
      /\ \A f \in Files \ met' : dest[f] = Whole => dest'[f] = Whole
  BY AloneStep
<1>s. ASSUME NEW i \in Installs, result'[i] = "ok" => result[i] = "ok"
      PROVE  result'[i] = "ok" => \A f \in Files \ met' : dest'[f] = Whole
  BY <1>k, <1>s DEF SuccessIsComplete
\* The installs a step is not about.
<1>o. ASSUME NEW i \in Installs, batch'[i] = batch[i],
             \A t \in Of(i) : at'[t] = at[t] /\ task'[t] = task[t], queue'[i] = queue[i]
      PROVE  Fetched(i)'
  <2>1. CASE batch[i] = 0
    BY <1>o, <2>1 DEF Fetched
  <2>2. CASE batch[i] # 0
    <3>1. batch[i] \in 1..Len(Batches)
      BY <1>0, <2>2
    <3>2. (Idling(i) => Idling(i)') /\ (Failed(i) => Failed(i)')
      BY <1>o DEF Idling, Failed, Of
    <3>3. \A f \in Files : InHand(i, f) => InHand(i, f)'
      BY <1>o DEF InHand, Of
    <3> QED
      BY <1>k, <1>o, <3>1, <3>2, <3>3, FetchedStays
  <2> QED
    BY <2>1, <2>2
<1>1. ASSUME NEW i \in Installs, Begin(i)
      PROVE  SuccessIsComplete' /\ \A j \in Installs : Fetched(j)'
  <2>1. Fetched(i)'
    <3>1. batch'[i] = 1 /\ batch[i] = 0 /\ at' = at
      BY <1>1 DEF Begin, worker
    <3>2. Idling(i)'
      BY <3>1 DEF Together, Idling, Of
    <3> QED
      BY <3>1, <3>2 DEF Fetched
  <2>2. \A j \in Installs \ {i} : Fetched(j)'
    BY <1>0, <1>1, <1>o DEF Begin, worker
  <2>3. SuccessIsComplete'
    BY <1>1, <1>s DEF Begin, SuccessIsComplete
  <2> QED
    BY <2>1, <2>2, <2>3
<1>2. ASSUME NEW i \in Installs, Collect(i)
      PROVE  SuccessIsComplete' /\ \A j \in Installs : Fetched(j)'
  <2>0. batch[i] # 0 /\ Idling(i) /\ UNCHANGED <<dest, temp, task, met>>
    BY <1>2 DEF Collect, Idling, disk
  <2>b. batch[i] \in 1..Len(Batches) /\ Batches[batch[i]] \in SUBSET Files
    BY <1>0, <2>0
  <2>1. CASE Return(i, "err") /\ UNCHANGED <<queue, at>>
    <3>1. /\ batch'[i] = 0 /\ result'[i] = "err"
          /\ \A j \in Installs \ {i} : batch'[j] = batch[j] /\ result'[j] = result[j]
      BY <2>1 DEF Return
    <3>2. Fetched(i)'
      BY <3>1 DEF Fetched
    <3>3. \A j \in Installs \ {i} : Fetched(j)'
      BY <1>0, <1>o, <2>0, <2>1, <3>1
    <3> QED
      BY <1>s, <3>1, <3>2, <3>3 DEF SuccessIsComplete
  <2>2. CASE Missing(batch[i]) = {} /\ Advance(i) /\ UNCHANGED <<queue, at>>
    <3>1. \A j \in Installs \ {i} : batch'[j] = batch[j] /\ result'[j] = result[j]
      BY <2>0, <2>2, InstallMoves
    <3>2. \A f \in Batches[batch[i]] \ met : dest[f] = Whole
      BY <2>b, <2>2 DEF Missing, PresentIsComplete
    <3>3. Idling(i)'
      BY <2>0, <2>2 DEF Idling, Of
    <3>4. Fetched(i)' /\ (result'[i] = "ok" => \A f \in Files \ met' : dest'[f] = Whole)
      BY <2>0, <2>2, <3>2, <3>3, Advanced
    <3>5. \A j \in Installs \ {i} : Fetched(j)'
      BY <1>0, <1>o, <2>0, <2>2, <3>1
    <3> QED
      BY <1>s, <3>1, <3>4, <3>5 DEF SuccessIsComplete
  <2>3. CASE /\ queue' = [queue EXCEPT ![i] = Missing(batch[i])]
             /\ at' = [t \in Threads |-> IF t \in Of(i) THEN "next" ELSE at[t]]
             /\ UNCHANGED <<batch, result>>
    <3>1. \A f \in Batches[batch[i]] \ met : dest[f] = Whole \/ f \in queue'[i]
      BY <2>b, <2>3 DEF Missing, PresentIsComplete
    <3>2. Fetched(i)'
      BY <2>0, <2>3, <3>1 DEF Fetched, InHand
    <3>3. \A j \in Installs \ {i} : \A t \in Of(j) : at'[t] = at[t]
      BY <1>0, <2>3
    <3>4. \A j \in Installs \ {i} : Fetched(j)'
      BY <1>o, <2>0, <2>3, <3>3
    <3> QED
      BY <1>s, <2>3, <3>2, <3>4 DEF SuccessIsComplete
  <2> QED
    BY <1>2, <2>1, <2>2, <2>3 DEF Collect
<1>3. ASSUME NEW i \in Installs, Join(i)
      PROVE  SuccessIsComplete' /\ \A j \in Installs : Fetched(j)'
  <2>0. /\ batch[i] # 0 /\ \A t \in Of(i) : at[t] \in {"ok", "err"}
        /\ UNCHANGED <<dest, temp, task, met>>
        /\ queue' = [queue EXCEPT ![i] = {}]
        /\ at' = [t \in Threads |-> IF t \in Of(i) THEN "idle" ELSE at[t]]
        /\ IF Failed(i) THEN Return(i, "err") ELSE Advance(i)
    BY <1>3 DEF Join, disk
  <2>b. batch[i] \in 1..Len(Batches) /\ Batches[batch[i]] \in SUBSET Files
    BY <1>0, <2>0
  <2>1. \A j \in Installs \ {i} : batch'[j] = batch[j] /\ result'[j] = result[j]
    BY <2>0, InstallMoves
  <2>2. \A j \in Installs \ {i} : \A t \in Of(j) : at'[t] = at[t]
    BY <1>0, <2>0
  <2>3. \A j \in Installs \ {i} : Fetched(j)'
    BY <1>o, <2>0, <2>1, <2>2
  <2>4. Fetched(i)' /\ (result'[i] = "ok" => \A f \in Files \ met' : dest'[f] = Whole)
    <3>1. CASE Failed(i)
      BY <2>0, <3>1 DEF Return, Fetched
    <3>2. CASE ~Failed(i)
      <4>1. PICK t \in Of(i) : at[t] = "ok"
        BY <1>0, <2>0, <3>2 DEF Failed
      <4>2. ~Idling(i) /\ queue[i] = {}
        BY <4>1 DEF Idling, Together
      <4>3. \A f \in Files : ~InHand(i, f)
        BY <1>0, <2>0, <4>2 DEF InHand
      <4>4. \A f \in Batches[batch[i]] \ met : dest[f] = Whole
        BY <2>0, <2>b, <3>2, <4>2, <4>3 DEF Fetched
      <4>5. Idling(i)'
        BY <1>0, <2>0 DEF Idling, Of
      <4> QED
        BY <2>0, <3>2, <4>4, <4>5, Advanced
    <3> QED
      BY <3>1, <3>2
  <2> QED
    BY <1>s, <2>1, <2>3, <2>4 DEF SuccessIsComplete
\* A worker's step.
<1>w. ASSUME NEW t \in Threads, at[t] # "idle", at[t] # "err", UNCHANGED <<batch, result>>,
             at' = at \/ \E p \in Places : at' = [at EXCEPT ![t] = p],
             task' = task \/ \E f \in Files \cup {NoFile} : task' = [task EXCEPT ![t] = f],
             \A i \in Installs \ {t[1]} : queue'[i] = queue[i],
             \/ at'[t] = "err"
             \/ \A f \in Files \ met' : InHand(t[1], f) => InHand(t[1], f)' \/ dest'[f] = Whole
      PROVE  SuccessIsComplete' /\ \A j \in Installs : Fetched(j)'
  <2>1. SuccessIsComplete'
    BY <1>s, <1>w DEF SuccessIsComplete
  <2>2. \A j \in Installs \ {t[1]} : \A u \in Of(j) : at'[u] = at[u] /\ task'[u] = task[u]
    BY <1>0, <1>w
  <2>3. \A j \in Installs \ {t[1]} : Fetched(j)'
    BY <1>o, <1>w, <2>2
  <2>4. Fetched(t[1])'
    <3>1. batch[t[1]] \in 1..Len(Batches)
      BY <1>0, <1>w DEF Together
    <3>2. ~Idling(t[1])
      BY <1>0, <1>w DEF Idling
    <3>3. Failed(t[1]) => Failed(t[1])'
      BY <1>0, <1>w DEF Failed, Of
    <3>4. at'[t] = "err" => Failed(t[1])'
      BY <1>0 DEF Failed, Of
    <3> QED
      BY <1>0, <1>k, <1>w, <3>1, <3>2, <3>3, <3>4, FetchedStays
  <2> QED
    BY <2>1, <2>3, <2>4
<1>4. ASSUME NEW t \in Threads, Take(t)
      PROVE  SuccessIsComplete' /\ \A j \in Installs : Fetched(j)'
  <2>0. at[t] = "next" /\ UNCHANGED <<batch, result>> /\ task[t] = NoFile
    BY <1>4 DEF Take
  <2>1. CASE queue[t[1]] # {}
    <3>1. PICK f \in queue[t[1]] : /\ queue' = [queue EXCEPT ![t[1]] = @ \ {f}]
                                   /\ task' = [task EXCEPT ![t] = f]
                                   /\ at' = [at EXCEPT ![t] = "get"]
      BY <1>4, <2>1 DEF Take, NextTask
    <3>2. \A i \in Installs \ {t[1]} : queue'[i] = queue[i]
      BY <3>1
    <3>3. f \in Files
      BY <1>0
    <3>4. ASSUME NEW g \in Files, InHand(t[1], g) PROVE InHand(t[1], g)'
      <4>1. CASE g = f
        BY <1>0, <3>1, <4>1 DEF InHand, Of
      <4>2. CASE g # f
        BY <1>0, <2>0, <3>1, <3>4, <4>2 DEF InHand, Of
      <4> QED
        BY <4>1, <4>2
    <3>5. \E p \in Places : at' = [at EXCEPT ![t] = p]
      BY <3>1, PlaceNames
    <3> QED
      BY <1>w, <2>0, <3>1, <3>2, <3>3, <3>4, <3>5
  <2>2. CASE queue[t[1]] = {}
    <3>1. UNCHANGED <<queue, task>> /\ at' = [at EXCEPT ![t] = "ok"]
      BY <1>4, <2>2 DEF Take, NextTask
    <3>2. \A g \in Files : InHand(t[1], g) => InHand(t[1], g)'
      BY <3>1 DEF InHand, Of
    <3>3. \E p \in Places : at' = [at EXCEPT ![t] = p]
      BY <3>1, PlaceNames
    <3> QED
      BY <1>w, <2>0, <3>1, <3>2, <3>3
  <2> QED
    BY <2>1, <2>2
<1>5. ASSUME NEW t \in Threads, Get(t)
      PROVE  SuccessIsComplete' /\ \A j \in Installs : Fetched(j)'
  <2>1. at[t] = "get" /\ at' = [at EXCEPT ![t] = "write"] /\ UNCHANGED <<batch, result, queue, task>>
    BY <1>5 DEF Get
  <2>2. \A g \in Files : InHand(t[1], g) => InHand(t[1], g)'
    BY <2>1 DEF InHand, Of
  <2>3. \E p \in Places : at' = [at EXCEPT ![t] = p]
    BY <2>1, PlaceNames
  <2> QED
    BY <1>w, <2>1, <2>2, <2>3
<1>6. ASSUME NEW t \in Threads, Write(t)
      PROVE  SuccessIsComplete' /\ \A j \in Installs : Fetched(j)'
  <2>1. at[t] = "write" /\ UNCHANGED <<batch, result, queue, at, task>>
    BY <1>6 DEF Write
  <2>2. \A g \in Files : InHand(t[1], g) => InHand(t[1], g)'
    BY <2>1 DEF InHand, Of
  <2> QED
    BY <1>w, <2>1, <2>2
<1>7. ASSUME NEW t \in Threads, Rename(t)
      PROVE  SuccessIsComplete' /\ \A j \in Installs : Fetched(j)'
  <2>1. /\ at[t] = "write" /\ at' = [at EXCEPT ![t] = "next"] /\ UNCHANGED <<batch, result, queue>>
        /\ task' = [task EXCEPT ![t] = NoFile] /\ temp[task[t]] # Absent
        /\ dest' = [dest EXCEPT ![task[t]] = temp[task[t]]]
    BY <1>7 DEF Rename, Drop
  <2>2. ASSUME NEW g \in Files \ met', InHand(t[1], g)
        PROVE  InHand(t[1], g)' \/ dest'[g] = Whole
    <3>1. CASE g = task[t]
      BY <1>k, <2>1, <3>1 DEF PresentIsComplete
    <3>2. CASE g # task[t]
      BY <2>1, <2>2, <3>2 DEF InHand, Of
    <3> QED
      BY <3>1, <3>2
  <2>3. \E p \in Places : at' = [at EXCEPT ![t] = p]
    BY <2>1, PlaceNames
  <2> QED
    BY <1>w, <2>1, <2>2, <2>3
<1>8. ASSUME NEW t \in Threads, Fail(t)
      PROVE  SuccessIsComplete' /\ \A j \in Installs : Fetched(j)'
  <2>1. /\ at[t] \in {"get", "write"} /\ at' = [at EXCEPT ![t] = "err"]
        /\ task' = [task EXCEPT ![t] = NoFile] /\ UNCHANGED <<batch, result, queue>>
    BY <1>8 DEF Fail, Drop
  <2>2. at'[t] = "err" /\ \E p \in Places : at' = [at EXCEPT ![t] = p]
    BY <2>1, PlaceNames
  <2> QED
    BY <1>w, <2>1, <2>2
<1>9. CASE Crash
  BY <1>9 DEF Crash, Fetched, SuccessIsComplete
<1> QED
  BY <1>1, <1>2, <1>3, <1>4, <1>5, <1>6, <1>7, <1>8, <1>9 DEF Next

\* The invariant holds when no install has begun.
LEMMA GameInit == Init => GameInv
<1> SUFFICES ASSUME Init PROVE GameInv
  OBVIOUS
<1>1. GameTyped
  BY GameFacts, PlaceNames DEF Init, GameTyped, Absent
<1>2. Together
  BY GameFacts DEF Init, Together
<1>3. Alone
  BY DEF Init, Alone, Writing
<1>4. PresentIsComplete /\ SuccessIsComplete
  BY DEF Init, PresentIsComplete, SuccessIsComplete
<1>5. \A i \in Installs : Fetched(i)
  BY DEF Init, Fetched
<1> QED
  BY <1>1, <1>2, <1>3, <1>4, <1>5 DEF GameInv

\* Every step keeps the invariant.
LEMMA GameStep == GameInv /\ [Next]_vars => GameInv'
<1>1. ASSUME GameInv, Next PROVE GameInv'
  BY <1>1, GameTypedStep, TogetherStep, AloneStep, FetchedStep DEF GameInv
<1>2. ASSUME GameInv, UNCHANGED vars PROVE GameInv'
  <2>1. GameTyped'
    BY <1>2 DEF GameInv, GameTyped, vars
  <2> QED
    BY <1>2, <2>1 DEF GameInv, Together, Alone, PresentIsComplete, SuccessIsComplete, Fetched,
       Idling, Failed, InHand, Of, Writing, vars
<1> QED
  BY <1>1, <1>2

\* The invariant of the downloads: files that exist are whole or being written by two.
THEOREM GameInvariance == Spec => []GameInv
BY GameInit, GameStep, PTL DEF Spec

\* Whatever installs fail, crash or meet, a file that exists is whole, and an install that
\* reports success has left all of them there, but for those two were writing at once.
THEOREM FilesThatExistAreWhole == Spec => []FilesAreComplete
<1>1. GameInv => FilesAreComplete
  BY DEF GameInv, FilesAreComplete
<1> QED
  BY <1>1, GameInvariance, PTL

\* No step damages a whole file, but for those two were writing at once.
THEOREM WholeFilesStay == Spec => WholeStaysWhole
<1>1. GameInv /\ [Next]_vars
        => [\A f \in Files : dest[f] = Whole /\ f \notin met' => dest'[f] = Whole]_vars
  BY AloneStep DEF GameInv
<1> QED
  BY <1>1, GameInvariance, PTL DEF Spec, WholeStaysWhole

-----------------------------------------------------------------------------
(* The instance store (StoreSaver).                                         *)

AnyStore == SUBSET (1..MaxChanges)

StoreTyped ==
    /\ ui \in {"off", "open", "closing", "saved"} /\ mem \in AnyStore
    /\ pending \in AnyStore \cup {S!None} /\ inFlight \in BOOLEAN
    /\ jobs \in SUBSET AnyStore /\ results \in Seq({"ok", "err"})
    /\ snapshot \in AnyStore \cup {S!None} /\ base \in AnyStore \cup {S!None}
    /\ file \in AnyStore \cup {S!Torn}
    /\ writers \in SUBSET [who : {"saver", "exit", "cli"}, store : AnyStore, mixed : BOOLEAN]
    /\ made \in 0..MaxChanges /\ fine \in BOOLEAN /\ durable \in AnyStore
    /\ promised \in AnyStore \cup {S!None}

Savers == {w \in writers : w.who = "saver"}

\* Who can have a hand in the file: at most one background save is under way.
Hands ==
    /\ ui = "off" => jobs = {} /\ \A w \in writers : w.who = "cli"
    /\ \A w \in writers : w.who = "cli" => base # S!None
    /\ \A w \in writers : w.who = "exit" => ui = "closing" /\ snapshot = S!None
    /\ \A s, t \in jobs : s = t
    /\ \A k \in {"saver", "exit", "cli"} : \A v, w \in writers : v.who = k /\ w.who = k => v = w
    /\ jobs # {} => Savers = {}
    /\ jobs # {} \/ Savers # {} => results = <<>>
    /\ results # <<>> => Len(results) = 1
    /\ ui = "open" /\ ~inFlight => jobs = {} /\ Savers = {} /\ results = <<>>

\* The file has one writer at a time, and what it writes holds what was in the file.
OneWriter ==
    /\ ui # "off" => base = S!None
    /\ \A v, w \in writers : v = w
    /\ \A w \in writers : ~w.mixed /\ (w.who = "exit" => jobs = {} /\ w.store = mem)
    /\ ui = "saved" => jobs = {} /\ writers = {}
Kept ==
    /\ ui \in {"open", "closing"} => snapshot \in {S!None, mem} /\ durable \subseteq mem
    /\ \A s \in jobs : s \subseteq mem /\ durable \subseteq s
    /\ \A w \in writers : durable \subseteq w.store /\ (w.who # "cli" => w.store \subseteq mem)
    /\ base # S!None => durable \subseteq base
    /\ file # S!Torn => durable \subseteq file

\* The newest store is on its way to the file, or there.
Newest ==
    ui = "open" =>
      /\ pending \in {S!None, mem} /\ (pending # S!None => inFlight)
      /\ pending = S!None =>
           /\ \A s \in jobs : s = mem
           /\ \A w \in Savers : w.store = mem
           /\ results = <<"ok">> => file = mem
      /\ ~inFlight /\ fine => file = mem

Promised ==
    promised # S!None => file = promised /\ ui \in {"saved", "off"} /\ jobs = {} /\ writers = {}

Clean == OneWriter /\ Kept /\ Newest /\ Promised

StoreInv ==
    /\ StoreTyped /\ Hands
    /\ excused = {} => Clean

\* The type of each variable, for citing one at a time.
LEMMA StoreTypes ==
    ASSUME StoreTyped
    PROVE  /\ ui \in {"off", "open", "closing", "saved"} /\ mem \in AnyStore
           /\ pending \in AnyStore \cup {S!None} /\ inFlight \in BOOLEAN
           /\ jobs \in SUBSET AnyStore /\ results \in Seq({"ok", "err"})
           /\ snapshot \in AnyStore \cup {S!None} /\ base \in AnyStore \cup {S!None}
           /\ file \in AnyStore \cup {S!Torn}
           /\ writers \in SUBSET [who : {"saver", "exit", "cli"}, store : AnyStore, mixed : BOOLEAN]
           /\ made \in 0..MaxChanges /\ fine \in BOOLEAN /\ durable \in AnyStore
           /\ promised \in AnyStore \cup {S!None}
BY DEF StoreTyped

\* Neither the torn file nor the absence of a store is a store.
LEMMA TornIsNoStore == S!None \notin AnyStore /\ S!Torn \notin AnyStore /\ {} \in AnyStore
BY DEF S!None, S!Torn, AnyStore

Writer == [who : {"saver", "exit", "cli"}, store : AnyStore, mixed : BOOLEAN]

\* Who opens the file has it, and those who had it have it still.
LEMMA OpenEffect ==
    ASSUME StoreTyped, NEW who \in {"saver", "exit", "cli"}, NEW st \in AnyStore, S!Open(who, st)
    PROVE  /\ file' = S!Torn /\ writers' \in SUBSET Writer
           /\ \A w \in writers' : \/ w.who = who /\ w.store = st
                                  \/ \E v \in writers : w.who = v.who /\ w.store = v.store
           /\ \A k \in {"saver", "exit", "cli"} \ {who} :
                (\A v, w \in writers : v.who = k /\ w.who = k => v = w)
                  => \A v, w \in writers' : v.who = k /\ w.who = k => v = w
           /\ (\A v \in writers : v.who # who)
                => \A v, w \in writers' : v.who = who /\ w.who = who => v = w
           /\ writers = {} => \A w \in writers' : ~w.mixed /\ \A v \in writers' : v = w
<1> USE StoreTypes DEF Writer
<1> DEFINE new == [who |-> who, store |-> st, mixed |-> S!Mixed([who |-> who, store |-> st, mixed |-> FALSE])]
           mixedIn(v) == [v EXCEPT !.mixed = v.mixed \/ v.store # st]
<1>1. S!Mixed([who |-> who, store |-> st, mixed |-> FALSE]) \in BOOLEAN
  BY DEF S!Mixed
<1>2. new \in Writer /\ new.who = who /\ new.store = st
  BY <1>1
<1>3. ASSUME NEW v \in writers
      PROVE  mixedIn(v) \in Writer /\ mixedIn(v).who = v.who /\ mixedIn(v).store = v.store
  <2>1. v \in Writer /\ (v.mixed \/ v.store # st) \in BOOLEAN
    OBVIOUS
  <2> QED
    BY <2>1
<1>4. file' = S!Torn /\ writers' = {mixedIn(v) : v \in writers} \cup {new}
  BY DEF S!Open
<1>5. writers = {} => ~new.mixed
  BY DEF S!Mixed
<1> HIDE DEF new, mixedIn, Writer
<1>6. \A w \in writers' : w = new \/ \E v \in writers : w = mixedIn(v)
  BY <1>4
<1>7. writers' \in SUBSET Writer
  BY <1>2, <1>3, <1>6
<1>8. \A w \in writers' : \/ w.who = who /\ w.store = st
                          \/ \E v \in writers : w.who = v.who /\ w.store = v.store
  BY <1>2, <1>3, <1>6
<1>9. ASSUME NEW k \in {"saver", "exit", "cli"} \ {who},
             \A v, w \in writers : v.who = k /\ w.who = k => v = w,
             NEW v \in writers', NEW w \in writers', v.who = k, w.who = k
      PROVE  v = w
  BY <1>2, <1>3, <1>6, <1>9
<1>10. ASSUME \A v \in writers : v.who # who,
              NEW v \in writers', NEW w \in writers', v.who = who, w.who = who
       PROVE  v = w
  BY <1>2, <1>3, <1>6, <1>10
<1>11. ASSUME writers = {}, NEW w \in writers' PROVE ~w.mixed /\ \A v \in writers' : v = w
  BY <1>5, <1>6, <1>11
<1> QED
  BY <1>4, <1>7, <1>8, <1>9, <1>10, <1>11

\* Opening the file adds at most one writer, and each of the three writes once at a time.
LEMMA OpenKeepsOne ==
    ASSUME StoreTyped, NEW who \in {"saver", "exit", "cli"}, NEW st \in AnyStore, S!Open(who, st),
           \A v \in writers : v.who # who,
           \A k \in {"saver", "exit", "cli"} : \A v, w \in writers : v.who = k /\ w.who = k => v = w
    PROVE  /\ \A k \in {"saver", "exit", "cli"} : \A v, w \in writers' : v.who = k /\ w.who = k => v = w
           /\ \A w \in writers' : w.who = who \/ \E v \in writers : w.who = v.who
<1>1. ASSUME NEW k \in {"saver", "exit", "cli"}, NEW v \in writers', NEW w \in writers', v.who = k, w.who = k
      PROVE  v = w
  <2>1. CASE k = who
    BY <1>1, <2>1, OpenEffect
  <2>2. CASE k # who
    BY <1>1, <2>2, OpenEffect
  <2> QED
    BY <2>1, <2>2
<1>2. \A w \in writers' : w.who = who \/ \E v \in writers : w.who = v.who
  BY OpenEffect
<1> QED
  BY <1>1, <1>2

\* What closing the file leaves: the store, or torn pieces if two wrote.
LEMMA CloseEffect ==
    ASSUME StoreTyped, NEW w \in writers, S!Close(w)
    PROVE  /\ writers' = writers \ {w} /\ file' \in AnyStore \cup {S!Torn} /\ durable' \in AnyStore
           /\ writers = {w} /\ ~w.mixed => file' = w.store /\ durable' = durable \cup w.store
<1> USE StoreTypes
<1>1. w.store \in AnyStore /\ w.mixed \in BOOLEAN
  OBVIOUS
<1>2. file' \in {w.store, S!Torn, file} /\ writers' = writers \ {w}
      /\ durable' = IF file' = S!Torn THEN durable ELSE durable \cup file'
  BY DEF S!Close
<1>3. writers = {w} /\ ~w.mixed => file' = w.store
  BY DEF S!Close
<1>4. \A x, y \in AnyStore : x \cup y \in AnyStore
  BY DEF AnyStore
<1> QED
  BY <1>1, <1>2, <1>3, <1>4, TornIsNoStore

\* What Saver::start leaves: a job for the pending store, or what was there.
LEMMA StartEffect ==
    ASSUME StoreTyped, NEW st \in AnyStore \cup {S!None}, NEW b \in BOOLEAN, S!Start(st, b)
    PROVE  /\ \/ /\ b \/ st = S!None
                 /\ pending' = st /\ inFlight' = b /\ jobs' = jobs
              \/ /\ ~b /\ st # S!None
                 /\ pending' = S!None /\ inFlight' = TRUE /\ jobs' = jobs \cup {st}
           /\ pending' \in AnyStore \cup {S!None} /\ inFlight' \in BOOLEAN
           /\ jobs' \in SUBSET AnyStore
<1> USE StoreTypes
<1>1. CASE b \/ st = S!None
  BY <1>1 DEF S!Start
<1>2. CASE ~(b \/ st = S!None)
  BY <1>2 DEF S!Start
<1> QED
  BY <1>1, <1>2

\* Every step keeps the types.
LEMMA StoreTypedStep ==
    ASSUME StoreTyped, S!Next
    PROVE  StoreTyped'
<1> USE StoreTypes, TornIsNoStore
<1>1. ASSUME NEW loaded \in BOOLEAN, S!UiStart(loaded) PROVE StoreTyped'
  <2>1. mem' \in AnyStore
    BY <1>1 DEF S!UiStart
  <2>2. <<>> \in Seq({"ok", "err"})
    OBVIOUS
  <2> QED
    BY <1>1, <2>1, <2>2 DEF S!UiStart, StoreTyped
<1>2. CASE S!Frame
  BY <1>2 DEF S!Frame, S!Snapshot, S!history, StoreTyped
<1>3. CASE S!Change
  <2>1. mem' \in AnyStore /\ made' \in 0..MaxChanges
    BY <1>3, MCFilesAssumption DEF S!Change, AnyStore
  <2>2. S!Start(mem', inFlight) /\ snapshot' = mem'
    BY <1>3 DEF S!Change, S!NextPending, S!Snapshot
  <2>3. pending' \in AnyStore \cup {S!None} /\ inFlight' \in BOOLEAN /\ jobs' \in SUBSET AnyStore
    BY <2>1, <2>2, StartEffect
  <2> QED
    BY <1>3, <2>1, <2>2, <2>3 DEF S!Change, S!history, StoreTyped
<1>4. CASE S!Poll
  <2>1. S!Start(pending, FALSE) /\ results' = <<>> /\ fine' \in BOOLEAN
    BY <1>4 DEF S!Poll
  <2>2. pending' \in AnyStore \cup {S!None} /\ inFlight' \in BOOLEAN /\ jobs' \in SUBSET AnyStore
    BY <2>1, StartEffect
  <2>3. <<>> \in Seq({"ok", "err"})
    OBVIOUS
  <2> QED
    BY <1>4, <2>1, <2>2, <2>3 DEF S!Poll, StoreTyped
<1>5. CASE S!WindowCloses
  BY <1>5 DEF S!WindowCloses, S!history, StoreTyped
<1>6. CASE S!ExitOpen
  <2>1. snapshot \in AnyStore /\ S!Open("exit", snapshot)
    BY <1>6 DEF S!ExitOpen
  <2>2. file' = S!Torn /\ writers' \in SUBSET Writer
    BY <2>1, OpenEffect
  <2> QED
    BY <1>6, <2>2 DEF S!ExitOpen, StoreTyped, Writer
<1>7. CASE S!UiEnds
  BY <1>7 DEF S!UiEnds, S!history, StoreTyped
<1>8. ASSUME NEW st \in jobs, S!JobOpen(st) PROVE StoreTyped'
  <2>1. CASE S!Open("saver", st) /\ UNCHANGED results
    <3>1. file' = S!Torn /\ writers' \in SUBSET Writer
      BY <2>1, OpenEffect
    <3> QED
      BY <1>8, <2>1, <3>1 DEF S!JobOpen, S!history, StoreTyped, Writer
  <2>2. CASE results' = Append(results, "err") /\ UNCHANGED <<file, writers>>
    <3>1. results' \in Seq({"ok", "err"})
      BY <2>2
    <3> QED
      BY <1>8, <2>2, <3>1 DEF S!JobOpen, S!history, StoreTyped
  <2> QED
    BY <1>8, <2>1, <2>2 DEF S!JobOpen
<1>9. ASSUME NEW st \in jobs, S!JobLost(st) PROVE StoreTyped'
  BY <1>9 DEF S!JobLost, S!history, StoreTyped
<1>10. ASSUME NEW w \in writers, S!JobClose(w) PROVE StoreTyped'
  <2>1. PICK r \in {"ok", "err"} : results' = Append(results, r)
    BY <1>10 DEF S!JobClose
  <2>2. results' \in Seq({"ok", "err"})
    BY <2>1
  <2>3. /\ writers' = writers \ {w} /\ file' \in AnyStore \cup {S!Torn} /\ durable' \in AnyStore
    BY <1>10, CloseEffect DEF S!JobClose
  <2> QED
    BY <1>10, <2>2, <2>3 DEF S!JobClose, StoreTyped
<1>11. ASSUME NEW w \in writers, S!ExitClose(w) PROVE StoreTyped'
  <2>1. /\ writers' = writers \ {w} /\ file' \in AnyStore \cup {S!Torn} /\ durable' \in AnyStore
        /\ promised' \in AnyStore \cup {S!None}
    BY <1>11, CloseEffect DEF S!ExitClose
  <2> QED
    BY <1>11, <2>1 DEF S!ExitClose, StoreTyped
<1>12. CASE S!CliLoad
  BY <1>12 DEF S!CliLoad, S!uiState, StoreTyped
<1>13. CASE S!CliOpen
  <2>1. base \cup {made'} \in AnyStore /\ made' \in 0..MaxChanges
    BY <1>13, MCFilesAssumption DEF S!CliOpen, AnyStore
  <2>2. file' = S!Torn /\ writers' \in SUBSET Writer
    BY <1>13, <2>1, OpenEffect DEF S!CliOpen
  <2> QED
    BY <1>13, <2>1, <2>2 DEF S!CliOpen, S!uiState, StoreTyped, Writer
<1>14. CASE S!CliEnds
  <2>1. CASE \E w \in writers : w.who = "cli" /\ S!Close(w)
    <3>1. PICK w \in writers : S!Close(w)
      BY <2>1
    <3>2. /\ writers' = writers \ {w} /\ file' \in AnyStore \cup {S!Torn} /\ durable' \in AnyStore
      BY <3>1, CloseEffect
    <3> QED
      BY <1>14, <3>2 DEF S!CliEnds, S!uiState, StoreTyped
  <2>2. CASE writers' = {w \in writers : w.who # "cli"} /\ UNCHANGED <<file, durable>>
    BY <1>14, <2>2 DEF S!CliEnds, S!uiState, StoreTyped
  <2> QED
    BY <1>14, <2>1, <2>2 DEF S!CliEnds
<1> QED
  BY <1>1, <1>2, <1>3, <1>4, <1>5, <1>6, <1>7, <1>8, <1>9, <1>10, <1>11, <1>12, <1>13, <1>14
  DEF S!Next

\* A store is in one pair of hands: pending, in a job, in a snapshot or being written.
LEMMA HandsStep ==
    ASSUME StoreTyped, Hands, S!Next
    PROVE  Hands'
<1> USE StoreTypes DEF Savers
\* A job begins, when there was none.
<1>s. ASSUME NEW st \in AnyStore \cup {S!None}, NEW b \in BOOLEAN, S!Start(st, b), ui' = "open", results' = <<>>,
             UNCHANGED <<writers, base>>, \A w \in writers : w.who # "exit",
             b \/ (jobs = {} /\ Savers = {}),
             Hands
      PROVE  Hands'
  <2>1. /\ jobs' = jobs \/ (~b /\ jobs' = jobs \cup {st})
        /\ ~inFlight' => ~b /\ jobs' = jobs
    BY <1>s, StartEffect
  <2> QED
    BY <1>s, <2>1 DEF Hands
<1>1. ASSUME NEW loaded \in BOOLEAN, S!UiStart(loaded) PROVE Hands'
  BY <1>1 DEF S!UiStart, Hands
<1>2. CASE S!Frame
  BY <1>2 DEF S!Frame, S!history, Hands
<1>3. CASE S!Change
  <2>1. S!Start(mem', inFlight) /\ mem' \in AnyStore /\ ui = "open" /\ UNCHANGED <<ui, results, base, writers>>
    BY <1>3, StoreTypedStep, StoreTypes DEF S!Change, S!NextPending, StoreTyped
  <2>2. inFlight => Hands'
    BY <1>3, <2>1, StartEffect DEF Hands
  <2>3. ~inFlight => results' = <<>> /\ jobs = {} /\ Savers = {} /\ \A w \in writers : w.who # "exit"
    BY <2>1 DEF Hands
  <2> QED
    BY <1>s, <2>1, <2>2, <2>3
<1>4. CASE S!Poll
  <2>1. S!Start(pending, FALSE) /\ results' = <<>> /\ results # <<>> /\ ui = "open"
        /\ UNCHANGED <<ui, base, writers>>
    BY <1>4 DEF S!Poll
  <2>2. jobs = {} /\ Savers = {} /\ \A w \in writers : w.who # "exit"
    BY <2>1 DEF Hands
  <2> QED
    BY <1>s, <2>1, <2>2
<1>5. CASE S!WindowCloses
  BY <1>5 DEF S!WindowCloses, S!history, Hands
<1>6. CASE S!ExitOpen
  <2>1. /\ snapshot \in AnyStore /\ S!Open("exit", snapshot) /\ ui = "closing" /\ snapshot # S!None
        /\ snapshot' = S!None /\ UNCHANGED <<ui, inFlight, jobs, results, base>>
    BY <1>6 DEF S!ExitOpen
  <2>2. \A w \in writers : w.who # "exit"
    BY <2>1 DEF Hands
  <2>3. /\ \A k \in {"saver", "exit", "cli"} : \A v, w \in writers' : v.who = k /\ w.who = k => v = w
        /\ \A w \in writers' : w.who = "exit" \/ \E v \in writers : w.who = v.who
    BY <2>1, <2>2, OpenKeepsOne DEF Hands
  <2>4. Savers' # {} => Savers # {}
    BY <2>3
  <2> QED
    BY <2>1, <2>3, <2>4 DEF Hands
<1>7. CASE S!UiEnds
  BY <1>7 DEF S!UiEnds, S!history, Hands
<1>8. ASSUME NEW st \in jobs, S!JobOpen(st) PROVE Hands'
  <2>1. /\ jobs' = {} /\ ui # "off" /\ Savers = {} /\ results = <<>> /\ (ui = "open" => inFlight)
        /\ UNCHANGED <<ui, inFlight, snapshot, base>>
    BY <1>8 DEF S!JobOpen, Hands
  <2>2. CASE S!Open("saver", st) /\ UNCHANGED results
    <3>1. \A w \in writers' : \/ w.who = "saver"
                              \/ \E v \in writers : w.who = v.who
      BY <2>2, OpenEffect
    <3>2. \A k \in {"saver", "exit", "cli"} : \A v, w \in writers' : v.who = k /\ w.who = k => v = w
      BY <2>1, <2>2, OpenEffect DEF Hands
    <3> QED
      BY <2>1, <2>2, <3>1, <3>2 DEF Hands
  <2>3. CASE results' = Append(results, "err") /\ UNCHANGED <<file, writers>>
    <3>1. Len(results') = 1
      BY <2>1, <2>3
    <3> QED
      BY <2>1, <2>3, <3>1 DEF Hands
  <2> QED
    BY <1>8, <2>2, <2>3 DEF S!JobOpen
<1>9. ASSUME NEW st \in jobs, S!JobLost(st) PROVE Hands'
  BY <1>9 DEF S!JobLost, S!history, Hands
<1>10. ASSUME NEW w \in writers, S!JobClose(w) PROVE Hands'
  <2>1. w \in Savers /\ writers' = writers \ {w} /\ UNCHANGED <<ui, inFlight, jobs, snapshot, base>>
    BY <1>10 DEF S!JobClose, S!Close
  <2>2. jobs = {} /\ results = <<>> /\ ui # "off" /\ (ui = "open" => inFlight) /\ Savers' = {}
    BY <2>1 DEF Hands
  <2>3. Len(results') = 1
    BY <1>10, <2>2 DEF S!JobClose
  <2> QED
    BY <2>1, <2>2, <2>3 DEF Hands
<1>11. ASSUME NEW w \in writers, S!ExitClose(w) PROVE Hands'
  <2>1. w.who = "exit" /\ writers' = writers \ {w} /\ ui' = "saved"
        /\ UNCHANGED <<inFlight, jobs, snapshot, base, results>>
    BY <1>11 DEF S!ExitClose, S!Close
  <2>2. \A v \in writers' : v.who # "exit"
    <3>1. ui = "closing"
      BY <2>1 DEF Hands
    <3> QED
      BY <2>1, <3>1 DEF Hands
  <2> QED
    BY <2>1, <2>2 DEF Hands
<1>12. CASE S!CliLoad
  BY <1>12 DEF S!CliLoad, S!uiState, Hands
<1>13. CASE S!CliOpen
  <2> DEFINE st == base \cup {made'}
  <2>1. base # S!None /\ (\A w \in writers : w.who # "cli") /\ S!Open("cli", st)
        /\ UNCHANGED <<ui, inFlight, jobs, snapshot, base, results>>
    BY <1>13 DEF S!CliOpen, S!uiState
  <2>2. st \in AnyStore
    BY <1>13, <2>1, MCFilesAssumption DEF S!CliOpen, AnyStore
  <2> HIDE DEF st
  <2>3. /\ \A k \in {"saver", "exit", "cli"} : \A v, w \in writers' : v.who = k /\ w.who = k => v = w
        /\ \A w \in writers' : w.who = "cli" \/ \E v \in writers : w.who = v.who
    BY <2>1, <2>2, OpenKeepsOne DEF Hands
  <2>4. Savers' # {} => Savers # {}
    BY <2>3
  <2> QED
    BY <2>1, <2>3, <2>4 DEF Hands
<1>14. CASE S!CliEnds
  <2>1. writers' \subseteq writers /\ UNCHANGED <<ui, inFlight, jobs, snapshot, results>>
    BY <1>14 DEF S!CliEnds, S!uiState, S!Close
  <2>2. \A w \in writers' : w.who # "cli"
    <3>1. CASE \E w \in writers : w.who = "cli" /\ S!Close(w)
      <4>1. PICK w \in writers : w.who = "cli" /\ writers' = writers \ {w}
        BY <3>1 DEF S!Close
      <4> QED
        BY <4>1 DEF Hands
    <3>2. CASE writers' = {w \in writers : w.who # "cli"}
      BY <3>2
    <3> QED
      BY <1>14, <3>1, <3>2 DEF S!CliEnds
  <2> QED
    BY <2>1, <2>2 DEF Hands
<1> QED
  BY <1>1, <1>2, <1>3, <1>4, <1>5, <1>6, <1>7, <1>8, <1>9, <1>10, <1>11, <1>12, <1>13, <1>14
  DEF S!Next

\* What a save that has the file to itself leaves.
LEMMA ClosedAlone ==
    ASSUME StoreTyped, OneWriter, Kept, NEW w \in writers, S!Close(w)
    PROVE  /\ writers = {w} /\ writers' = {} /\ w.store \in AnyStore
           /\ file' = w.store /\ durable' = w.store
<1>1. writers = {w} /\ ~w.mixed
  BY DEF OneWriter
<1>2. writers' = {} /\ file' = w.store /\ durable' = durable \cup w.store
  BY <1>1, CloseEffect
<1>3. durable \subseteq w.store /\ w.store \in AnyStore
  BY StoreTypes DEF Kept
<1> QED
  BY <1>1, <1>2, <1>3

\* Who opens the file when nobody writes it is the only writer, and its writing is clean.
LEMMA OpenedAlone ==
    ASSUME StoreTyped, writers = {}, NEW who \in {"saver", "exit", "cli"}, NEW st \in AnyStore,
           S!Open(who, st)
    PROVE  /\ file' = S!Torn
           /\ \A v, w \in writers' : v = w
           /\ \A w \in writers' : ~w.mixed /\ w.who = who /\ w.store = st
BY OpenEffect

\* As long as nothing excuses it, the file is what the last writer left.
LEMMA CleanStep ==
    ASSUME StoreTyped, Hands, Hands', Clean, S!Next, excused' = {}
    PROVE  Clean'
<1> USE StoreTypes, TornIsNoStore DEF Clean
<1>1. ASSUME NEW loaded \in BOOLEAN, S!UiStart(loaded) PROVE Clean'
  <2>1. loaded /\ base = S!None
    BY <1>1 DEF S!UiStart
  <2>2. writers = {}
    BY <1>1, <2>1 DEF S!UiStart, Hands
  <2>3. /\ ui' = "open" /\ mem' = file /\ file # S!Torn /\ pending' = S!None /\ jobs' = {}
        /\ snapshot' = S!None /\ promised' = S!None /\ UNCHANGED <<base, file, writers, durable>>
    BY <1>1, <2>1 DEF S!UiStart
  <2>4. durable \subseteq file
    BY <2>3 DEF Kept
  <2> QED
    BY <2>1, <2>2, <2>3, <2>4 DEF OneWriter, Kept, Newest, Promised, Savers
<1>2. CASE S!Frame
  BY <1>2 DEF S!Frame, S!Snapshot, S!history, OneWriter, Kept, Newest, Promised, Savers
<1>3. CASE S!Change
  <2>1. /\ ui = "open" /\ mem' = mem \cup {made + 1} /\ snapshot' = mem' /\ S!Start(mem', inFlight)
        /\ mem' \in AnyStore /\ UNCHANGED <<ui, results, base, file, writers, durable, promised, fine>>
    BY <1>3, MCFilesAssumption DEF S!Change, S!NextPending, S!Snapshot, S!history, AnyStore
  <2>2. promised = S!None /\ \A w \in writers : w.who # "exit"
    BY <2>1 DEF Promised, Hands
  <2>3. \/ inFlight /\ pending' = mem' /\ inFlight' /\ jobs' = jobs
        \/ ~inFlight /\ pending' = S!None /\ inFlight' /\ jobs' = {mem'}
    <3>1. mem' # S!None
      BY <2>1
    <3>2. CASE inFlight
      BY <2>1, <3>1, <3>2 DEF S!Start
    <3>3. CASE ~inFlight
      <4>1. jobs = {}
        BY <2>1, <3>3 DEF Hands
      <4>2. pending' = S!None /\ inFlight' = TRUE /\ jobs' = jobs \cup {mem'}
        BY <2>1, <3>1, <3>3 DEF S!Start
      <4> QED
        BY <3>3, <4>1, <4>2
    <3> QED
      BY <3>2, <3>3
  <2>4. OneWriter'
    BY <2>1, <2>2 DEF OneWriter
  <2>5. Kept'
    BY <2>1, <2>3 DEF Kept
  <2>6. Newest'
    <3>1. CASE inFlight
      BY <2>1, <2>3, <3>1 DEF Newest
    <3>2. CASE ~inFlight
      <4>1. Savers' = {} /\ results' = <<>> /\ <<>> # <<"ok">>
        BY <2>1, <3>2 DEF Hands, Savers
      <4> QED
        BY <2>1, <2>3, <3>2, <4>1 DEF Newest
    <3> QED
      BY <3>1, <3>2
  <2> QED
    BY <2>1, <2>2, <2>4, <2>5, <2>6 DEF Promised
<1>4. CASE S!Poll
  <2>1. /\ ui = "open" /\ results # <<>> /\ results' = <<>> /\ fine' = (results[Len(results)] = "ok")
        /\ S!Start(pending, FALSE)
        /\ UNCHANGED <<ui, mem, snapshot, base, file, writers, durable, promised>>
    BY <1>4 DEF S!Poll
  <2>2. jobs = {} /\ Savers = {} /\ Len(results) = 1 /\ \A w \in writers : w.who # "exit"
    BY <2>1 DEF Hands
  <2>3. \/ pending = S!None /\ pending' = S!None /\ ~inFlight' /\ jobs' = {}
        \/ pending = mem /\ pending' = S!None /\ inFlight' /\ jobs' = {mem}
    BY <2>1, <2>2, StartEffect DEF Newest
  <2>4. OneWriter' /\ Kept'
    BY <2>1, <2>2, <2>3 DEF OneWriter, Kept
  <2>5. Newest'
    <3>1. CASE pending = S!None
      <4>1. results = <<results[1]>>
        BY <2>2
      <4>2. fine' => file = mem
        BY <2>1, <2>2, <3>1, <4>1 DEF Newest
      <4> QED
        BY <2>1, <2>2, <2>3, <3>1, <4>2 DEF Newest, Savers
    <3>2. CASE pending # S!None
      BY <2>1, <2>2, <2>3, <3>2 DEF Newest, Savers
    <3> QED
      BY <3>1, <3>2
  <2> QED
    BY <2>1, <2>4, <2>5 DEF Promised
<1>5. CASE S!WindowCloses
  BY <1>5 DEF S!WindowCloses, S!history, OneWriter, Kept, Newest, Promised
<1>6. CASE S!ExitOpen
  <2>1. /\ ui = "closing" /\ snapshot # S!None /\ S!Open("exit", snapshot) /\ snapshot' = S!None
        /\ ~S!Saving /\ UNCHANGED <<ui, mem, jobs, base, durable, promised>>
    BY <1>6 DEF S!ExitOpen
  <2>2. writers = {} /\ jobs = {} /\ snapshot = mem /\ promised = S!None /\ base = S!None
    <3>1. base = S!None /\ jobs = {} /\ \A w \in writers : w.who # "saver"
      BY <2>1 DEF S!Saving, OneWriter
    <3>2. \A w \in writers : w.who # "cli" /\ w.who # "exit"
      BY <2>1, <3>1 DEF Hands
    <3>3. \A w \in writers : w.who \in {"saver", "exit", "cli"}
      OBVIOUS
    <3> QED
      BY <2>1, <3>1, <3>2, <3>3 DEF Kept, Promised
  <2>3. /\ file' = S!Torn /\ \A v, w \in writers' : v = w
        /\ \A w \in writers' : ~w.mixed /\ w.who = "exit" /\ w.store = mem
    BY <2>1, <2>2, OpenedAlone
  <2> QED
    BY <2>1, <2>2, <2>3 DEF OneWriter, Kept, Newest, Promised
<1>7. CASE S!UiEnds
  <2>1. ui # "off" /\ ui' = "off" /\ jobs' = {} /\ writers' = {w \in writers : w.who = "cli"}
        /\ UNCHANGED <<base, file, durable, promised>>
    BY <1>7 DEF S!UiEnds, S!history
  <2>2. writers' = {} /\ base = S!None
    BY <2>1 DEF OneWriter, Hands
  <2> QED
    BY <2>1, <2>2 DEF OneWriter, Kept, Newest, Promised
<1>8. ASSUME NEW st \in jobs, S!JobOpen(st) PROVE Clean'
  <2>1. jobs' = {} /\ UNCHANGED <<ui, mem, pending, inFlight, snapshot, base, durable, promised, fine>>
        /\ ui # "off" /\ ui # "saved" /\ promised = S!None /\ results = <<>>
    BY <1>8 DEF S!JobOpen, S!history, Hands, OneWriter, Promised
  <2>2. writers = {} /\ (ui = "open" => inFlight)
    <3>1. base = S!None /\ \A w \in writers : w.who # "exit" /\ w.who # "saver"
      BY <1>8, <2>1 DEF OneWriter, Hands, Savers
    <3>2. \A w \in writers : w.who # "cli"
      BY <3>1 DEF Hands
    <3>3. \A w \in writers : w.who \in {"saver", "exit", "cli"}
      OBVIOUS
    <3> QED
      BY <1>8, <3>1, <3>2, <3>3 DEF Hands
  <2>3. CASE S!Open("saver", st) /\ UNCHANGED results
    <3>1. /\ file' = S!Torn /\ \A v, w \in writers' : v = w
          /\ \A w \in writers' : ~w.mixed /\ w.who = "saver" /\ w.store = st
      BY <2>2, <2>3, OpenedAlone
    <3>2. st \subseteq mem /\ durable \subseteq st /\ (ui = "open" /\ pending = S!None => st = mem)
      BY <1>8 DEF Kept, Newest
    <3>3. OneWriter' /\ Kept'
      BY <2>1, <3>1, <3>2 DEF OneWriter, Kept
    <3>4. Newest'
      <4>1. results' # <<"ok">>
        BY <2>1, <2>3
      <4> QED
        BY <2>1, <2>2, <3>1, <3>2, <4>1 DEF Newest, Savers
    <3> QED
      BY <2>1, <3>3, <3>4 DEF Promised
  <2>4. CASE results' = Append(results, "err") /\ UNCHANGED <<file, writers>>
    <3>1. results' # <<"ok">>
      BY <2>1, <2>4
    <3> QED
      BY <2>1, <2>2, <2>4, <3>1 DEF OneWriter, Kept, Newest, Promised, Savers
  <2> QED
    BY <1>8, <2>3, <2>4 DEF S!JobOpen
<1>9. ASSUME NEW st \in jobs, S!JobLost(st) PROVE Clean'
  BY <1>9 DEF S!JobLost, S!history, OneWriter, Kept, Newest, Promised, Savers
<1>10. ASSUME NEW w \in writers, S!JobClose(w) PROVE Clean'
  <2>1. /\ w.who = "saver" /\ w \in Savers
        /\ UNCHANGED <<ui, mem, pending, inFlight, jobs, snapshot, base, fine, promised>>
    BY <1>10 DEF S!JobClose, Savers
  <2>2. writers = {w} /\ jobs = {} /\ results = <<>> /\ ui # "off" /\ ui # "saved"
        /\ base = S!None /\ promised = S!None /\ (ui = "open" => inFlight)
    BY <2>1 DEF OneWriter, Hands, Promised
  <2>3. w.store \subseteq mem /\ (ui = "open" /\ pending = S!None => w.store = mem)
    BY <2>1 DEF Kept, Newest
  <2>4. CASE S!Close(w) /\ results' = Append(results, "ok")
    <3>1. writers' = {} /\ file' = w.store /\ durable' = w.store
      BY <2>4, ClosedAlone
    <3>2. OneWriter' /\ Kept' /\ Promised'
      BY <2>1, <2>2, <2>3, <3>1 DEF OneWriter, Kept, Promised
    <3>3. Newest'
      BY <2>1, <2>2, <2>3, <3>1 DEF Newest, Savers
    <3> QED
      BY <3>2, <3>3
  <2>5. CASE writers' = writers \ {w} /\ results' = Append(results, "err") /\ UNCHANGED <<file, durable>>
    <3>1. results' # <<"ok">>
      BY <2>2, <2>5
    <3>2. writers' = {}
      BY <2>2, <2>5
    <3> QED
      BY <2>1, <2>2, <2>3, <2>5, <3>1, <3>2 DEF OneWriter, Kept, Newest, Promised, Savers
  <2> QED
    BY <1>10, <2>4, <2>5 DEF S!JobClose
<1>11. ASSUME NEW w \in writers, S!ExitClose(w) PROVE Clean'
  <2>1. w.who = "exit" /\ ui' = "saved" /\ UNCHANGED <<mem, jobs, base>>
    BY <1>11 DEF S!ExitClose
  <2>2. writers = {w} /\ jobs = {} /\ w.store = mem /\ base = S!None /\ promised = S!None
    BY <2>1 DEF OneWriter, Hands, Promised
  <2>3. CASE S!Close(w) /\ promised' = mem
    <3>1. writers' = {} /\ file' = mem /\ durable' = mem
      BY <2>2, <2>3, ClosedAlone
    <3> QED
      BY <2>1, <2>2, <2>3, <3>1 DEF OneWriter, Kept, Newest, Promised
  <2>4. CASE writers' = writers \ {w} /\ UNCHANGED <<file, durable, promised>>
    <3>1. writers' = {}
      BY <2>2, <2>4
    <3> QED
      BY <2>1, <2>2, <2>4, <3>1 DEF OneWriter, Kept, Newest, Promised
  <2> QED
    BY <1>11, <2>3, <2>4 DEF S!ExitClose
<1>12. CASE S!CliLoad
  <2>1. ui = "off" /\ base' = file /\ file # S!Torn
        /\ UNCHANGED <<ui, mem, jobs, snapshot, file, writers, durable, promised>>
    BY <1>12 DEF S!CliLoad, S!uiState
  <2> QED
    BY <2>1 DEF OneWriter, Kept, Newest, Promised
<1>13. CASE S!CliOpen
  <2> DEFINE st == base \cup {made'}
  <2>1. /\ base # S!None /\ (\A w \in writers : w.who # "cli") /\ S!Open("cli", st)
        /\ promised' = S!None /\ UNCHANGED <<ui, mem, jobs, snapshot, base, durable>>
    BY <1>13 DEF S!CliOpen, S!uiState
  <2>2. st \in AnyStore /\ durable \subseteq st
    BY <1>13, <2>1, MCFilesAssumption DEF S!CliOpen, AnyStore, Kept
  <2> HIDE DEF st
  <2>3. ui = "off" /\ writers = {} /\ jobs = {}
    BY <2>1 DEF OneWriter, Hands
  <2>4. /\ file' = S!Torn /\ \A v, w \in writers' : v = w
        /\ \A w \in writers' : ~w.mixed /\ w.who = "cli" /\ w.store = st
    BY <2>1, <2>2, <2>3, OpenedAlone
  <2> QED
    BY <2>1, <2>2, <2>3, <2>4 DEF OneWriter, Kept, Newest, Promised
<1>14. CASE S!CliEnds
  <2>1. base # S!None /\ base' = S!None /\ UNCHANGED <<ui, mem, jobs, snapshot, promised>>
    BY <1>14 DEF S!CliEnds, S!uiState
  <2>2. ui = "off" /\ jobs = {}
    BY <2>1 DEF OneWriter, Hands
  <2>3. CASE \E w \in writers : w.who = "cli" /\ S!Close(w)
    <3>1. PICK w \in writers : S!Close(w)
      BY <2>3
    <3>2. writers # {} /\ writers' = {} /\ file' = w.store /\ durable' = w.store
      BY <3>1, ClosedAlone
    <3> QED
      BY <2>1, <2>2, <3>2 DEF OneWriter, Kept, Newest, Promised
  <2>4. CASE writers' = {w \in writers : w.who # "cli"} /\ UNCHANGED <<file, durable>>
    <3>1. writers' = {}
      BY <2>2, <2>4 DEF Hands
    <3> QED
      BY <2>1, <2>2, <2>4, <3>1 DEF OneWriter, Kept, Newest, Promised
  <2> QED
    BY <1>14, <2>3, <2>4 DEF S!CliEnds
<1> QED
  BY <1>1, <1>2, <1>3, <1>4, <1>5, <1>6, <1>7, <1>8, <1>9, <1>10, <1>11, <1>12, <1>13, <1>14
  DEF S!Next

\* What excuses is not forgotten.
LEMMA ExcusesGrow == S!Next => excused \subseteq excused'
BY DEF S!Next, S!UiStart, S!Frame, S!Change, S!Poll, S!WindowCloses, S!ExitOpen, S!UiEnds,
   S!JobOpen, S!JobLost, S!JobClose, S!ExitClose, S!CliLoad, S!CliOpen, S!CliEnds, S!history

\* The invariant holds before the first session.
LEMMA StoreInit == S!Init => StoreInv
<1> SUFFICES ASSUME S!Init PROVE StoreInv
  OBVIOUS
<1>1. StoreTyped
  <2>1. <<>> \in Seq({"ok", "err"}) /\ {} \in SUBSET AnyStore /\ 0 \in 0..MaxChanges /\ {} \in AnyStore
    BY TornIsNoStore, MCFilesAssumption
  <2>2. writers \in SUBSET [who : {"saver", "exit", "cli"}, store : AnyStore, mixed : BOOLEAN]
    BY DEF S!Init
  <2> QED
    BY <2>1, <2>2 DEF S!Init, StoreTyped
<1> QED
  BY <1>1 DEF S!Init, StoreInv, Hands, Savers, Clean, OneWriter, Kept, Newest, Promised

\* Every step keeps the invariant.
LEMMA StoreStep == StoreInv /\ [S!Next]_storeVars => StoreInv'
<1>1. ASSUME StoreInv, S!Next PROVE StoreInv'
  <2>1. StoreTyped' /\ Hands'
    BY <1>1, StoreTypedStep, HandsStep DEF StoreInv
  <2> QED
    BY <1>1, <2>1, CleanStep, ExcusesGrow DEF StoreInv
<1>2. ASSUME StoreInv, UNCHANGED storeVars PROVE StoreInv'
  BY <1>2 DEF StoreInv, StoreTyped, Hands, Savers, Clean, OneWriter, Kept, Newest, Promised, storeVars
<1> QED
  BY <1>1, <1>2

\* The invariant contains both properties.
LEMMA StoreProperties == StoreInv => NewestWins /\ ExitSaves
<1> SUFFICES ASSUME StoreInv PROVE NewestWins /\ ExitSaves
  OBVIOUS
<1>1. excused = {} => Kept /\ Newest /\ Promised
  BY DEF StoreInv, Clean
<1> QED
  BY <1>1 DEF NewestWins, ExitSaves, S!NewestWins, S!SavedIsKept, S!ExitSaves, Kept, Newest, Promised

\* A step of the whole is a step of the store or leaves it alone.
LEMMA StoreMoves == MCNext => S!Next \/ UNCHANGED storeVars
BY DEF MCNext

\* In every behaviour: the newest store wins, and what was in a whole file stays, unless
\* an excuse of StoreSaver has been met (se5/mod.rs: Saver, commit).
THEOREM StoreIsNewest == MCSpec => []NewestWins
<1>1. MCInit => StoreInv
  BY StoreInit DEF MCInit
<1>2. StoreInv /\ [MCNext]_<<vars, storeVars, prepVars, part>> => StoreInv'
  BY StoreMoves, StoreStep
<1>3. StoreInv => NewestWins
  BY StoreProperties
<1> QED
  BY <1>1, <1>2, <1>3, PTL DEF MCSpec

\* In every behaviour: a save on exit that succeeded leaves the newest store, whatever the
\* background saver did before (se5/mod.rs: save_on_exit), with the same excuses.
THEOREM StoreOutlivesExit == MCSpec => []ExitSaves
<1>1. MCInit => StoreInv
  BY StoreInit DEF MCInit
<1>2. StoreInv /\ [MCNext]_<<vars, storeVars, prepVars, part>> => StoreInv'
  BY StoreMoves, StoreStep
<1>3. StoreInv => ExitSaves
  BY StoreProperties
<1> QED
  BY <1>1, <1>2, <1>3, PTL DEF MCSpec

-----------------------------------------------------------------------------
(* What a worker has open, and what the state of the whole is made of.      *)

Contents == (SUBSET Whole) \cup {Absent}

\* The parts of TypeOK that GameTyped leaves out: what is in a file are chunks of it, and the
\* name the inode a worker writes has is that of a file which is there.
Opened ==
    /\ dest \in [Files -> Contents]
    /\ temp \in [Files -> Contents]
    /\ offset \in [Threads -> 0..Chunks]
    /\ \A t \in Threads :
          /\ open[t] # "closed" <=> at[t] = "write"
          /\ open[t] = "temp" => temp[task[t]] # Absent
          /\ open[t] = "dest" => dest[task[t]] # Absent

\* A part of a file is not its absence.
LEMMA PartsAre ==
    /\ Absent \in Contents
    /\ \A s \in SUBSET Whole : s \in Contents /\ s # Absent
    /\ \A s \in Contents : s # Absent => s \in SUBSET Whole
BY DEF Whole, Absent, Contents

\* Steps that leave the disk, and what is open, alone.
LEMMA OpenedStays ==
    ASSUME GameTyped, GameTyped', Opened, dest' = dest, temp' = temp,
           \A t \in Threads : /\ offset'[t] = offset[t] \/ offset'[t] = 0
                              /\ open'[t] # "closed" <=> at'[t] = "write"
                              /\ \/ open'[t] = "closed"
                                 \/ open'[t] = open[t] /\ task'[t] = task[t]
    PROVE  Opened'
<1>1. offset' \in [Threads -> 0..Chunks]
  <2>1. offset' \in [Threads -> Nat] /\ 0 \in 0..Chunks
    BY GameFacts DEF GameTyped
  <2>2. \A t \in Threads : offset'[t] \in 0..Chunks
    BY <2>1 DEF Opened
  <2> QED
    BY <2>1, <2>2
<1>2. ASSUME NEW t \in Threads
      PROVE  /\ open'[t] = "temp" => temp'[task'[t]] # Absent
             /\ open'[t] = "dest" => dest'[task'[t]] # Absent
  BY DEF Opened
<1> QED
  BY <1>1, <1>2 DEF Opened

\* Every step keeps them.
LEMMA OpenedStep ==
    ASSUME GameTyped, GameTyped', Opened, Next
    PROVE  Opened'
<1> USE GameTypes, GameFacts
<1>1. ASSUME NEW i \in Installs, Begin(i) \/ Collect(i) \/ Join(i) PROVE Opened'
  <2>1. UNCHANGED <<dest, temp, task, open, offset>>
    BY <1>1 DEF Begin, Collect, Join, disk, worker
  <2>2. \A t \in Threads : at'[t] = "write" <=> at[t] = "write"
    <3>1. CASE at' = at
      BY <3>1
    <3>2. CASE /\ \A t \in Of(i) : at[t] = "idle"
               /\ at' = [t \in Threads |-> IF t \in Of(i) THEN "next" ELSE at[t]]
      BY <3>2
    <3>3. CASE /\ \A t \in Of(i) : at[t] \in {"ok", "err"}
               /\ at' = [t \in Threads |-> IF t \in Of(i) THEN "idle" ELSE at[t]]
      BY <3>3
    <3> QED
      BY <1>1, <3>1, <3>2, <3>3 DEF Begin, Collect, Join, worker
  <2> QED
    BY <2>1, <2>2, OpenedStays DEF Opened
<1>2. ASSUME NEW t \in Threads, Take(t) PROVE Opened'
  <2>1. UNCHANGED <<dest, temp, open, offset>> /\ at[t] = "next" /\ at'[t] # "write"
    BY <1>2 DEF Take, NextTask, disk
  <2>2. \A u \in Threads \ {t} : at'[u] = at[u] /\ task'[u] = task[u]
    BY <1>2 DEF Take, NextTask
  <2>3. open[t] = "closed"
    BY <2>1 DEF Opened
  <2> QED
    BY <2>1, <2>2, <2>3, OpenedStays DEF Opened
<1>3. ASSUME NEW t \in Threads, Fail(t) PROVE Opened'
  <2>1. UNCHANGED <<dest, temp>> /\ at'[t] = "err" /\ open'[t] = "closed" /\ offset'[t] = 0
    BY <1>3 DEF Fail, Drop, disk
  <2>2. \A u \in Threads \ {t} : at'[u] = at[u] /\ task'[u] = task[u]
                                 /\ open'[u] = open[u] /\ offset'[u] = offset[u]
    BY <1>3 DEF Fail, Drop
  <2>3. \A u \in Threads : /\ offset'[u] = offset[u] \/ offset'[u] = 0
                           /\ open'[u] # "closed" <=> at'[u] = "write"
                           /\ \/ open'[u] = "closed"
                              \/ open'[u] = open[u] /\ task'[u] = task[u]
    BY <2>1, <2>2 DEF Opened
  <2>4. dest' = dest /\ temp' = temp
    BY <2>1
  <2> QED
    BY <2>3, <2>4, OpenedStays
<1>4. CASE Crash
  <2>1. UNCHANGED <<dest, temp>> /\ \A t \in Threads : at'[t] = "idle" /\ open'[t] = "closed" /\ offset'[t] = 0
    BY <1>4 DEF Crash, disk
  <2>2. dest' = dest /\ temp' = temp
    BY <2>1
  <2>3. \A t \in Threads : /\ offset'[t] = offset[t] \/ offset'[t] = 0
                           /\ open'[t] # "closed" <=> at'[t] = "write"
                           /\ \/ open'[t] = "closed"
                              \/ open'[t] = open[t] /\ task'[t] = task[t]
    BY <2>1
  <2> QED
    BY <2>2, <2>3, OpenedStays
<1>5. ASSUME NEW t \in Threads, Get(t) PROVE Opened'
  <2>1. /\ dest' = dest /\ temp' = [temp EXCEPT ![task[t]] = {}] /\ task' = task /\ task[t] \in Files
        /\ at[t] = "get" /\ at' = [at EXCEPT ![t] = "write"] /\ open' = [open EXCEPT ![t] = "temp"]
        /\ offset' = [offset EXCEPT ![t] = 0]
    BY <1>5 DEF Get, Create
  <2>2. {} \in Contents /\ {} # Absent /\ 0 \in 0..Chunks
    BY PartsAre
  <2>3. temp' \in [Files -> Contents] /\ offset' \in [Threads -> 0..Chunks]
    BY <2>1, <2>2 DEF Opened
  <2>4. ASSUME NEW u \in Threads
        PROVE  /\ open'[u] # "closed" <=> at'[u] = "write"
               /\ open'[u] = "temp" => temp'[task'[u]] # Absent
               /\ open'[u] = "dest" => dest'[task'[u]] # Absent
    BY <2>1, <2>2 DEF Opened
  <2> QED
    BY <2>1, <2>3, <2>4 DEF Opened
<1>6. ASSUME NEW t \in Threads, Write(t) PROVE Opened'
  <2> DEFINE n == offset[t] + 1
             more == temp[task[t]] \cup {n}
             moreThere == dest[task[t]] \cup {n}
  <2>1. /\ at[t] = "write" /\ task[t] \in Files /\ UNCHANGED <<at, task, open>>
        /\ offset' = [offset EXCEPT ![t] = n] /\ n \in 1..Chunks
    BY <1>6 DEF Write, Opened
  <2>2. \/ open[t] = "temp" /\ temp' = [temp EXCEPT ![task[t]] = more] /\ dest' = dest
        \/ open[t] = "dest" /\ dest' = [dest EXCEPT ![task[t]] = moreThere] /\ temp' = temp
        \/ dest' = dest /\ temp' = temp
    BY <1>6, <2>1 DEF Write
  <2>3. n \in Whole /\ n \in 0..Chunks
    BY <2>1 DEF Whole
  <2> HIDE DEF n
  <2>4. /\ open[t] = "temp" => more \in SUBSET Whole
        /\ open[t] = "dest" => moreThere \in SUBSET Whole
    <3>1. dest[task[t]] \in Contents /\ temp[task[t]] \in Contents
      BY <2>1 DEF Opened
    <3>2. /\ open[t] = "temp" => temp[task[t]] # Absent
          /\ open[t] = "dest" => dest[task[t]] # Absent
      BY DEF Opened
    <3>3. /\ open[t] = "temp" => temp[task[t]] \in SUBSET Whole
          /\ open[t] = "dest" => dest[task[t]] \in SUBSET Whole
      BY <3>1, <3>2, PartsAre
    <3> QED
      BY <2>3, <3>3
  <2> HIDE DEF more, moreThere
  <2>5. offset' \in [Threads -> 0..Chunks]
    BY <2>1, <2>3 DEF Opened
  <2>6. CASE open[t] = "temp" /\ temp' = [temp EXCEPT ![task[t]] = more] /\ dest' = dest
    BY <2>1, <2>4, <2>5, <2>6, PartsAre DEF Opened
  <2>7. CASE open[t] = "dest" /\ dest' = [dest EXCEPT ![task[t]] = moreThere] /\ temp' = temp
    BY <2>1, <2>4, <2>5, <2>7, PartsAre DEF Opened
  <2>8. CASE dest' = dest /\ temp' = temp
    BY <2>1, <2>5, <2>8 DEF Opened
  <2> QED
    BY <2>2, <2>6, <2>7, <2>8
<1>7. ASSUME NEW t \in Threads, Rename(t) PROVE Opened'
  <2>1. /\ at[t] = "write" /\ task[t] \in Files /\ temp[task[t]] # Absent
        /\ dest' = [dest EXCEPT ![task[t]] = temp[task[t]]]
        /\ temp' = [temp EXCEPT ![task[t]] = Absent]
        /\ at' = [at EXCEPT ![t] = "next"] /\ task' = [task EXCEPT ![t] = NoFile]
        /\ offset' = [offset EXCEPT ![t] = 0]
    BY <1>7 DEF Rename, Drop
  <2>2. open' = [u \in Threads |-> IF u = t THEN "closed"
                                   ELSE IF u \notin Writing(task[t]) THEN open[u]
                                   ELSE IF open[u] = "temp" THEN "dest" ELSE "unlinked"]
    BY <1>7 DEF Rename
  <2>3. dest' \in [Files -> Contents] /\ temp' \in [Files -> Contents]
    BY <2>1, PartsAre DEF Opened
  <2>4. offset' \in [Threads -> 0..Chunks]
    <3>1. 0 \in 0..Chunks
      OBVIOUS
    <3> QED
      BY <2>1, <3>1 DEF Opened
  <2>5. ASSUME NEW u \in Threads \ {t}, u \in Writing(task[t])
        PROVE  /\ open'[u] # "closed" /\ at'[u] = "write"
               /\ open'[u] # "temp" /\ dest'[task'[u]] # Absent
    BY <2>1, <2>2, <2>5 DEF Writing
  <2>6. ASSUME NEW u \in Threads \ {t}, u \notin Writing(task[t])
        PROVE  /\ open'[u] # "closed" <=> at'[u] = "write"
               /\ open'[u] = "temp" => temp'[task'[u]] # Absent
               /\ open'[u] = "dest" => dest'[task'[u]] # Absent
    <3>1. open'[u] = open[u] /\ at'[u] = at[u] /\ task'[u] = task[u]
      BY <2>1, <2>2, <2>6
    <3>2. CASE at[u] = "write"
      <4>1. task[u] \in Files /\ task[u] # task[t]
        BY <2>6, <3>2 DEF Writing
      <4> QED
        BY <2>1, <3>1, <4>1 DEF Opened
    <3>3. CASE at[u] # "write"
      BY <3>1, <3>3 DEF Opened
    <3> QED
      BY <3>2, <3>3
  <2>7. open'[t] = "closed" /\ at'[t] # "write"
    BY <2>1, <2>2
  <2>8. ASSUME NEW u \in Threads
        PROVE  /\ open'[u] # "closed" <=> at'[u] = "write"
               /\ open'[u] = "temp" => temp'[task'[u]] # Absent
               /\ open'[u] = "dest" => dest'[task'[u]] # Absent
    <3>1. CASE u = t
      BY <2>7, <3>1
    <3>2. CASE u # t /\ u \in Writing(task[t])
      BY <2>5, <3>2
    <3>3. CASE u # t /\ u \notin Writing(task[t])
      BY <2>6, <3>3
    <3> QED
      BY <3>1, <3>2, <3>3
  <2> QED
    BY <2>3, <2>4, <2>8 DEF Opened
<1> QED
  BY <1>1, <1>2, <1>3, <1>4, <1>5, <1>6, <1>7 DEF Next

\* Every excuse is one of the three.
LEMMA ExcusesKnown == excused \subseteq S!Excuses /\ S!Next => excused' \subseteq S!Excuses
BY DEF S!Next, S!UiStart, S!Frame, S!Change, S!Poll, S!WindowCloses, S!ExitOpen, S!UiEnds,
   S!JobOpen, S!JobLost, S!JobClose, S!ExitClose, S!CliLoad, S!CliOpen, S!CliEnds, S!history,
   S!Excuses

\* A set with one element at most has the cardinality 0 or 1.
LEMMA OneAtMost ==
    ASSUME NEW X, \A x, y \in X : x = y
    PROVE  Cardinality(X) \in {0, 1} /\ (Cardinality(X) = 0 <=> X = {})
<1>1. CASE X = {}
  BY <1>1, FS_EmptySet
<1>2. ASSUME NEW x \in X PROVE X = {x}
  OBVIOUS
<1> QED
  BY <1>1, <1>2, FS_Singleton, FS_EmptySet

\* At most one background save is under way, and the flag covers it.
LEMMA HandsAreOne ==
    ASSUME StoreTyped, Hands
    PROVE  LET saves == Cardinality(jobs) + Len(results) + Cardinality(Savers)
           IN  saves <= 1 /\ (ui = "open" /\ saves = 1 => inFlight)
<1> USE StoreTypes
<1>1. \A s, t \in jobs : s = t
  BY DEF Hands
<1>2. \A v, w \in Savers : v = w
  BY DEF Hands, Savers
<1>3. Cardinality(jobs) \in {0, 1} /\ (Cardinality(jobs) = 0 <=> jobs = {})
  BY <1>1, OneAtMost
<1>4. Cardinality(Savers) \in {0, 1} /\ (Cardinality(Savers) = 0 <=> Savers = {})
  BY <1>2, OneAtMost
<1>5. Len(results) \in {0, 1} /\ (Len(results) = 0 <=> results = <<>>)
  BY DEF Hands
<1>6. /\ jobs # {} => Savers = {}
      /\ jobs # {} \/ Savers # {} => results = <<>>
      /\ ui = "open" /\ ~inFlight => jobs = {} /\ Savers = {} /\ results = <<>>
  BY DEF Hands
<1>l. Len(results) \in Nat
  OBVIOUS
<1> DEFINE saves == Cardinality(jobs) + Len(results) + Cardinality(Savers)
<1>7. saves <= 1
  <2>1. CASE jobs # {}
    BY <1>3, <1>4, <1>5, <1>6, <2>1
  <2>2. CASE jobs = {} /\ Savers # {}
    BY <1>3, <1>4, <1>5, <1>6, <2>2
  <2>3. CASE jobs = {} /\ Savers = {}
    <3>1. Cardinality(jobs) = 0 /\ Cardinality(Savers) = 0 /\ (Len(results) = 0 \/ Len(results) = 1)
      BY <1>3, <1>4, <1>5, <2>3
    <3>2. CASE Len(results) = 0
      BY <3>1, <3>2
    <3>3. CASE Len(results) = 1
      BY <3>1, <3>3
    <3> QED
      BY <3>1, <3>2, <3>3
  <2> QED
    BY <2>1, <2>2, <2>3
<1>8. ui = "open" /\ ~inFlight => saves = 0
  BY <1>3, <1>4, <1>5, <1>6
<1> HIDE DEF saves
<1>9. ui = "open" /\ saves = 1 => inFlight
  BY <1>8
<1> QED
  BY <1>7, <1>9 DEF saves

WholeInv == GameInv /\ Opened /\ StoreInv /\ excused \subseteq S!Excuses

\* In every behaviour: the inode a worker writes is still under the name it was opened by, or
\* the one a rename gave it, and at most one background save is under way
\* (installation: download_files_concurrent; se5/mod.rs: Saver).
THEOREM TypesHold == MCSpec => []FilesTypeOK
<1>1. MCInit => WholeInv
  <2> SUFFICES ASSUME Init, S!Init PROVE WholeInv
    BY DEF MCInit
  <2>1. 0 \in 0..Chunks
    BY GameFacts
  <2>2. Opened
    <3>1. \A t \in Threads : open[t] = "closed" /\ at[t] = "idle"
      BY DEF Init
    <3>2. dest \in [Files -> {Absent}] /\ temp \in [Files -> {Absent}] /\ offset \in [Threads -> {0}]
      BY DEF Init
    <3> QED
      BY <2>1, <3>1, <3>2, PartsAre DEF Opened
  <2>3. excused \subseteq S!Excuses
    BY DEF S!Init
  <2> QED
    BY <2>2, <2>3, GameInit, StoreInit DEF WholeInv
<1>2. WholeInv /\ [MCNext]_<<vars, storeVars, prepVars, part>> => WholeInv'
  <2> SUFFICES ASSUME WholeInv, [MCNext]_<<vars, storeVars, prepVars, part>> PROVE WholeInv'
    OBVIOUS
  <2>1. [Next]_vars /\ [S!Next]_storeVars
    BY DEF MCNext
  <2>2. GameInv' /\ StoreInv'
    BY <2>1, GameStep, StoreStep DEF WholeInv
  <2>3. Opened'
    <3>1. CASE Next
      BY <2>2, <3>1, OpenedStep DEF WholeInv, GameInv
    <3>2. CASE UNCHANGED vars
      BY <3>2 DEF WholeInv, Opened, vars
    <3> QED
      BY <2>1, <3>1, <3>2
  <2>4. excused' \subseteq S!Excuses
    <3>1. CASE UNCHANGED storeVars
      BY <3>1 DEF WholeInv, storeVars
    <3> QED
      BY <2>1, <3>1, ExcusesKnown DEF WholeInv
  <2> QED
    BY <2>2, <2>3, <2>4 DEF WholeInv
<1>3. WholeInv => FilesTypeOK
  <2> SUFFICES ASSUME WholeInv PROVE FilesTypeOK
    OBVIOUS
  <2>1. GameTyped /\ StoreTyped /\ Hands
    BY DEF WholeInv, GameInv, StoreInv
  <2>2. TypeOK
    BY <2>1 DEF WholeInv, GameTyped, Opened, Contents, TypeOK
  <2>3. LET saves == Cardinality(jobs) + Len(results) + Cardinality({w \in writers : w.who = "saver"})
        IN  saves <= 1 /\ (ui = "open" /\ saves = 1 => inFlight)
    BY <2>1, HandsAreOne DEF Savers
  <2>4. AnyStore = S!Stores
    BY DEF AnyStore, S!Stores, S!Changes
  <2>5. /\ ui \in {"off", "open", "closing", "saved"}
        /\ mem \in S!Stores /\ pending \in S!Stores \cup {S!None}
        /\ inFlight \in BOOLEAN
        /\ results \in Seq({"ok", "err"})
        /\ snapshot \in S!Stores \cup {S!None} /\ base \in S!Stores \cup {S!None}
        /\ file \in S!Stores \cup {S!Torn}
        /\ writers \subseteq [who : {"saver", "exit", "cli"}, store : S!Stores, mixed : BOOLEAN]
        /\ made \in 0..MaxChanges
        /\ excused \subseteq S!Excuses
    BY <2>1, <2>4 DEF WholeInv, StoreTyped
  <2>6. S!TypeOK
    <3> DEFINE saves == Cardinality(jobs) + Len(results) + Cardinality({w \in writers : w.who = "saver"})
    <3>1. saves <= 1 /\ (ui = "open" /\ saves = 1 => inFlight)
      BY <2>3
    <3>2. \A X : S!Cardinality(X) = Cardinality(X)
      BY DEF S!Cardinality, Cardinality
    <3> QED
      BY <2>5, <3>1, <3>2 DEF S!TypeOK
  <2> QED
    BY <2>2, <2>6 DEF FilesTypeOK
<1> QED
  BY <1>1, <1>2, <1>3, PTL DEF MCSpec

-----------------------------------------------------------------------------
(* The Java runtime, the modloader and the natives (LaunchPreparation).     *)

Fetching == {"clear", "fetch", "write", "promote", "empty", "unpack", "lookup"}
WithVersion == {"libs", "loader", "installer1", "installer2", "verify", "loaderlibs", "resolve",
                "natives0", "natives", "spawn", "wait"}
WithLibs == WithVersion \ {"libs"}
WithLoader == {"resolve", "natives0", "natives", "spawn", "wait"}
Wiping == {"wipe", "wipe2", "wipe3", "wipe4"}
WithJava == WithVersion \cup Wiping \cup {"core", "end"}
Stages == Fetching \cup WithJava \cup {"idle", "find"}

PrepTyped ==
    /\ loader \in {"vanilla", "fabric", "forge"} /\ tree \in SUBSET P!Pieces
    /\ stage \in [Tasks -> Stages] /\ todo \in [Tasks -> SUBSET (P!Pieces \cup P!Natives)]
    /\ inode \in [Tasks -> {"closed", "temp", "archive", "unlinked"}]
    /\ archive \in {"none", "torn", "whole"} /\ package \in {"none", "torn", "whole"}
    /\ natives \in SUBSET P!Natives
    /\ \A t \in Tasks : stage[t] = "write" => inode[t] # "closed"
    /\ \A t \in Tasks : stage[t] = "unpack" => todo[t] \subseteq P!Pieces
    /\ \A t \in Tasks : stage[t] = "natives" => todo[t] \subseteq P!Natives

\* One task at a time has the runtime in its hands; it is whole for who comes after.
Runtime ==
    /\ \A t, u \in Tasks : stage[t] \in Fetching /\ stage[u] \in Fetching => t = u
    /\ archive # "torn"
    /\ \A t \in Tasks :
         /\ stage[t] = "clear" => "java" \notin tree
         /\ stage[t] \in {"fetch", "write", "promote", "empty"} => tree = {}
         /\ stage[t] = "write" => inode[t] = "temp" 
         /\ stage[t] = "promote" => inode[t] = "temp" /\ package = "whole"
         /\ stage[t] \in {"empty", "unpack"} => archive = "whole"
         /\ stage[t] = "unpack" => tree = P!Pieces \ todo[t] /\ todo[t] # {}
         /\ stage[t] \in WithJava \cup {"lookup"} => tree = P!Pieces
         /\ stage[t] \notin {"write", "promote"} => inode[t] = "closed"
    /\ ("java" \in tree => tree = P!Pieces) \/ \E t \in Tasks : stage[t] = "unpack"

\* What a game has for certain, and what only if no installer was given up half-way.
Has == IF trouble = {} THEN P!Needed ELSE P!Needed \ {"loaderlibs"}

Games ==
    /\ trouble = {} /\ loader = "forge" /\ "profile" \in files /\ "loaderlibs" \notin files =>
         \E t \in Tasks : stage[t] \in P!Installers
    /\ \A t \in Tasks :
         /\ stage[t] \in {"wipe2", "wipe3", "wipe4"} =>
              playing = {} /\ "profile" \notin files /\ \A u \in Tasks \ {t} : stage[u] = "idle"
         /\ stage[t] \in WithVersion => "version" \in files
         /\ stage[t] \in WithLibs => "libs" \in files
         /\ stage[t] = "loaderlibs" => loader = "fabric" /\ "profile" \in files
         /\ stage[t] \in {"installer1", "installer2", "verify"} => loader = "forge"
         /\ stage[t] \in WithLoader => Has \subseteq files
         /\ stage[t] = "natives" => P!Natives \subseteq natives \cup todo[t]
         /\ stage[t] \in {"spawn", "wait"} => natives = P!Natives
    /\ playing # {} => Has \subseteq files /\ natives = P!Natives /\ tree = P!Pieces

PrepInv ==
    /\ PrepTyped
    /\ trouble \cap {"cut", "overlap", "purge"} = {} => Runtime
    /\ trouble \subseteq {"half", "beside"} => Games

\* A task can be in one place only, and is somewhere.
LEMMA PrepTypedStep ==
    ASSUME PrepTyped, P!Next
    PROVE  PrepTyped'
<1> USE DEF PrepTyped, Stages, Fetching, WithJava, WithVersion, Wiping, P!Step, P!Goto, P!Leave, P!vars, P!java, P!task, P!Pieces, P!Natives
<1>1. ASSUME NEW t \in Tasks, P!Begin(t) PROVE PrepTyped'
  BY <1>1 DEF P!Begin, P!Launches, P!Wiped
<1>2. ASSUME NEW t \in Tasks, P!Find(t) PROVE PrepTyped'
  BY <1>2 DEF P!Find, P!Overlap, P!JavaPlaces
<1>3. ASSUME NEW t \in Tasks, P!Clear(t) PROVE PrepTyped'
  BY <1>3 DEF P!Clear
<1>4. ASSUME NEW t \in Tasks, P!Fetch(t) PROVE PrepTyped'
  BY <1>4 DEF P!Fetch, P!Create
<1>5. ASSUME NEW t \in Tasks, P!Write(t) PROVE PrepTyped'
  BY <1>5 DEF P!Write
<1>6. ASSUME NEW t \in Tasks, P!Promote(t) PROVE PrepTyped'
  BY <1>6 DEF P!Promote
<1>7. ASSUME NEW t \in Tasks, P!Empty(t) PROVE PrepTyped'
  BY <1>7 DEF P!Empty
<1>8. ASSUME NEW t \in Tasks, P!Unpack(t) PROVE PrepTyped'
  <2>1. PICK p \in todo[t] : tree' = tree \cup {p} /\ todo' = [todo EXCEPT ![t] = @ \ {p}]
    BY <1>8 DEF P!Unpack
  <2>2. p \in P!Pieces \cup P!Natives /\ tree' \in SUBSET P!Pieces
    BY <1>8, <2>1 DEF P!Unpack
  <2>3. todo' \in [Tasks -> SUBSET (P!Pieces \cup P!Natives)]
    BY <2>1
  <2>4. stage' \in [Tasks -> Stages]
    BY <1>8 DEF P!Unpack
  <2> QED
    BY <1>8, <2>2, <2>3, <2>4 DEF P!Unpack
<1>9. ASSUME NEW t \in Tasks, P!JavaFails(t) PROVE PrepTyped'
  BY <1>9 DEF P!JavaFails
<1>10. ASSUME NEW t \in Tasks, P!Lookup(t) PROVE PrepTyped'
  BY <1>10 DEF P!Lookup
<1>11. ASSUME NEW t \in Tasks, P!Wipe(t) PROVE PrepTyped'
  BY <1>11 DEF P!Wipe, P!Wiped, P!After
<1>12. ASSUME NEW t \in Tasks, P!Core(t) PROVE PrepTyped'
  BY <1>12 DEF P!Core
<1>13. ASSUME NEW t \in Tasks, P!Libs(t) PROVE PrepTyped'
  BY <1>13 DEF P!Libs
<1>14. ASSUME NEW t \in Tasks, P!Loader(t) PROVE PrepTyped'
  BY <1>14 DEF P!Loader, P!Installed, P!Done, P!Beside, P!Installers
<1>15. ASSUME NEW t \in Tasks, P!Installer(t) PROVE PrepTyped'
  BY <1>15 DEF P!Installer, P!Installers, P!Half
<1>28. ASSUME NEW t \in Tasks, P!InstallerWrites(t) PROVE PrepTyped'
  BY <1>28 DEF P!InstallerWrites, P!Installers
<1>16. ASSUME NEW t \in Tasks, P!Verify(t) PROVE PrepTyped'
  BY <1>16 DEF P!Verify, P!Done, P!Beside, P!Installers
<1>17. ASSUME NEW t \in Tasks, P!LoaderLibs(t) PROVE PrepTyped'
  BY <1>17 DEF P!LoaderLibs, P!Done
<1>18. ASSUME NEW t \in Tasks, P!FilesFail(t) PROVE PrepTyped'
  BY <1>18 DEF P!FilesFail, P!Half, P!Installers
<1>19. ASSUME NEW t \in Tasks, P!End(t) PROVE PrepTyped'
  BY <1>19 DEF P!End
<1>20. ASSUME NEW t \in Tasks, P!Resolve(t) PROVE PrepTyped'
  BY <1>20 DEF P!Resolve
<1>21. ASSUME NEW t \in Tasks, P!EmptyNatives(t) PROVE PrepTyped'
  BY <1>21 DEF P!EmptyNatives
<1>22. ASSUME NEW t \in Tasks, P!UnpackNative(t) PROVE PrepTyped'
  <2>1. CASE todo[t] = {}
    BY <1>22, <2>1 DEF P!UnpackNative
  <2>2. CASE todo[t] # {}
    <3>1. PICK n \in todo[t] : natives' = natives \cup {n} /\ todo' = [todo EXCEPT ![t] = @ \ {n}]
      BY <1>22, <2>2 DEF P!UnpackNative
    <3>2. natives' \in SUBSET P!Natives
      BY <1>22, <2>2, <3>1 DEF P!UnpackNative
    <3>3. todo' \in [Tasks -> SUBSET (P!Pieces \cup P!Natives)]
      BY <3>1
    <3> QED
      BY <1>22, <2>2, <3>2, <3>3 DEF P!UnpackNative
  <2> QED
    BY <2>1, <2>2
<1>23. ASSUME NEW t \in Tasks, P!Spawn(t) PROVE PrepTyped'
  BY <1>23 DEF P!Spawn
<1>24. ASSUME NEW t \in Tasks, P!Register(t) PROVE PrepTyped'
  BY <1>24 DEF P!Register
<1>25. ASSUME NEW t \in Tasks, P!Stop(t) PROVE PrepTyped'
  BY <1>25 DEF P!Stop, P!Half, P!Installers
<1>26. ASSUME NEW a \in Accounts, P!GameEnds(a) PROVE PrepTyped'
  BY <1>26 DEF P!GameEnds
<1>27. CASE P!Purge
  BY <1>27 DEF P!Purge
<1> QED
  BY <1>1, <1>2, <1>3, <1>4, <1>5, <1>6, <1>7, <1>8, <1>9, <1>10, <1>11, <1>12, <1>13, <1>14, <1>15, <1>16, <1>17, <1>18, <1>19, <1>20, <1>21, <1>22, <1>23, <1>24, <1>25, <1>26, <1>27, <1>28 DEF P!Next

\* What has been met stays met.
LEMMA PrepExcuses ==
    ASSUME P!Next
    PROVE  trouble \subseteq trouble'
<1> USE DEF P!Step, P!Goto, P!Leave
<1>1. ASSUME NEW t \in Tasks, P!Begin(t) PROVE trouble \subseteq trouble'
  BY <1>1 DEF P!Begin, P!Launches, P!Wiped
<1>2. ASSUME NEW t \in Tasks, P!Find(t) PROVE trouble \subseteq trouble'
  BY <1>2 DEF P!Find, P!Overlap, P!JavaPlaces
<1>3. ASSUME NEW t \in Tasks, P!Clear(t) PROVE trouble \subseteq trouble'
  BY <1>3 DEF P!Clear
<1>4. ASSUME NEW t \in Tasks, P!Fetch(t) PROVE trouble \subseteq trouble'
  BY <1>4 DEF P!Fetch, P!Create
<1>5. ASSUME NEW t \in Tasks, P!Write(t) PROVE trouble \subseteq trouble'
  BY <1>5 DEF P!Write
<1>6. ASSUME NEW t \in Tasks, P!Promote(t) PROVE trouble \subseteq trouble'
  BY <1>6 DEF P!Promote
<1>7. ASSUME NEW t \in Tasks, P!Empty(t) PROVE trouble \subseteq trouble'
  BY <1>7 DEF P!Empty
<1>8. ASSUME NEW t \in Tasks, P!Unpack(t) PROVE trouble \subseteq trouble'
  BY <1>8 DEF P!Unpack
<1>9. ASSUME NEW t \in Tasks, P!JavaFails(t) PROVE trouble \subseteq trouble'
  BY <1>9 DEF P!JavaFails
<1>10. ASSUME NEW t \in Tasks, P!Lookup(t) PROVE trouble \subseteq trouble'
  BY <1>10 DEF P!Lookup
<1>11. ASSUME NEW t \in Tasks, P!Wipe(t) PROVE trouble \subseteq trouble'
  BY <1>11 DEF P!Wipe, P!Wiped, P!After
<1>12. ASSUME NEW t \in Tasks, P!Core(t) PROVE trouble \subseteq trouble'
  BY <1>12 DEF P!Core
<1>13. ASSUME NEW t \in Tasks, P!Libs(t) PROVE trouble \subseteq trouble'
  BY <1>13 DEF P!Libs
<1>14. ASSUME NEW t \in Tasks, P!Loader(t) PROVE trouble \subseteq trouble'
  BY <1>14 DEF P!Loader, P!Installed, P!Done, P!Beside, P!Installers
<1>15. ASSUME NEW t \in Tasks, P!Installer(t) PROVE trouble \subseteq trouble'
  BY <1>15 DEF P!Installer, P!Installers, P!Half
<1>28. ASSUME NEW t \in Tasks, P!InstallerWrites(t) PROVE trouble \subseteq trouble'
  BY <1>28 DEF P!InstallerWrites, P!Installers
<1>16. ASSUME NEW t \in Tasks, P!Verify(t) PROVE trouble \subseteq trouble'
  BY <1>16 DEF P!Verify, P!Done, P!Beside, P!Installers
<1>17. ASSUME NEW t \in Tasks, P!LoaderLibs(t) PROVE trouble \subseteq trouble'
  BY <1>17 DEF P!LoaderLibs, P!Done
<1>18. ASSUME NEW t \in Tasks, P!FilesFail(t) PROVE trouble \subseteq trouble'
  BY <1>18 DEF P!FilesFail, P!Half, P!Installers
<1>19. ASSUME NEW t \in Tasks, P!End(t) PROVE trouble \subseteq trouble'
  BY <1>19 DEF P!End
<1>20. ASSUME NEW t \in Tasks, P!Resolve(t) PROVE trouble \subseteq trouble'
  BY <1>20 DEF P!Resolve
<1>21. ASSUME NEW t \in Tasks, P!EmptyNatives(t) PROVE trouble \subseteq trouble'
  BY <1>21 DEF P!EmptyNatives
<1>22. ASSUME NEW t \in Tasks, P!UnpackNative(t) PROVE trouble \subseteq trouble'
  BY <1>22 DEF P!UnpackNative
<1>23. ASSUME NEW t \in Tasks, P!Spawn(t) PROVE trouble \subseteq trouble'
  BY <1>23 DEF P!Spawn
<1>24. ASSUME NEW t \in Tasks, P!Register(t) PROVE trouble \subseteq trouble'
  BY <1>24 DEF P!Register
<1>25. ASSUME NEW t \in Tasks, P!Stop(t) PROVE trouble \subseteq trouble'
  BY <1>25 DEF P!Stop, P!Half, P!Installers
<1>26. ASSUME NEW a \in Accounts, P!GameEnds(a) PROVE trouble \subseteq trouble'
  BY <1>26 DEF P!GameEnds
<1>27. CASE P!Purge
  BY <1>27 DEF P!Purge
<1> QED
  BY <1>1, <1>2, <1>3, <1>4, <1>5, <1>6, <1>7, <1>8, <1>9, <1>10, <1>11, <1>12, <1>13, <1>14, <1>15, <1>16, <1>17, <1>18, <1>19, <1>20, <1>21, <1>22, <1>23, <1>24, <1>25, <1>26, <1>27, <1>28 DEF P!Next

\* A Java runtime that would be taken as it is stays whole, or is being replaced.
LEMMA RuntimeStep ==
    ASSUME PrepTyped, PrepTyped', Runtime, P!Next, trouble' \cap {"cut", "overlap", "purge"} = {}
    PROVE  Runtime'
<1> USE DEF PrepTyped, Runtime, Stages, Fetching, WithJava, WithVersion, Wiping, P!Step, P!Goto, P!Leave, P!vars, P!java, P!task, P!Pieces, P!Natives
<1>1. ASSUME NEW t \in Tasks, P!Begin(t) PROVE Runtime'
  BY <1>1 DEF P!Begin, P!Launches, P!Wiped
<1>2. ASSUME NEW t \in Tasks, P!Find(t) PROVE Runtime'
  BY <1>2 DEF P!Find, P!Overlap, P!JavaPlaces
<1>3. ASSUME NEW t \in Tasks, P!Clear(t) PROVE Runtime'
  <2>1. CASE archive = "none"
    BY <1>3, <2>1 DEF P!Clear
  <2>2. CASE archive = "whole"
    BY <1>3, <2>2 DEF P!Clear
  <2> QED
    BY <2>1, <2>2
<1>4. ASSUME NEW t \in Tasks, P!Fetch(t) PROVE Runtime'
  BY <1>4 DEF P!Fetch, P!Create
<1>5. ASSUME NEW t \in Tasks, P!Write(t) PROVE Runtime'
  <2>1. inode[t] = "temp" /\ package' = "whole" /\ archive' = archive
    BY <1>5 DEF P!Write
  <2> QED
    BY <1>5, <2>1 DEF P!Write
<1>6. ASSUME NEW t \in Tasks, P!Promote(t) PROVE Runtime'
  BY <1>6 DEF P!Promote
<1>7. ASSUME NEW t \in Tasks, P!Empty(t) PROVE Runtime'
  BY <1>7 DEF P!Empty
<1>8. ASSUME NEW t \in Tasks, P!Unpack(t) PROVE Runtime'
  BY <1>8 DEF P!Unpack
<1>9. ASSUME NEW t \in Tasks, P!JavaFails(t) PROVE Runtime'
  BY <1>9 DEF P!JavaFails
<1>10. ASSUME NEW t \in Tasks, P!Lookup(t) PROVE Runtime'
  BY <1>10 DEF P!Lookup
<1>11. ASSUME NEW t \in Tasks, P!Wipe(t) PROVE Runtime'
  BY <1>11 DEF P!Wipe, P!Wiped, P!After, P!Others
<1>12. ASSUME NEW t \in Tasks, P!Core(t) PROVE Runtime'
  BY <1>12 DEF P!Core
<1>13. ASSUME NEW t \in Tasks, P!Libs(t) PROVE Runtime'
  BY <1>13 DEF P!Libs
<1>14. ASSUME NEW t \in Tasks, P!Loader(t) PROVE Runtime'
  BY <1>14 DEF P!Loader, P!Installed, P!Done, P!Beside, P!Installers
<1>15. ASSUME NEW t \in Tasks, P!Installer(t) PROVE Runtime'
  BY <1>15 DEF P!Installer, P!Installers, P!Half
<1>28. ASSUME NEW t \in Tasks, P!InstallerWrites(t) PROVE Runtime'
  BY <1>28 DEF P!InstallerWrites, P!Installers
<1>16. ASSUME NEW t \in Tasks, P!Verify(t) PROVE Runtime'
  BY <1>16 DEF P!Verify, P!Done, P!Beside, P!Installers
<1>17. ASSUME NEW t \in Tasks, P!LoaderLibs(t) PROVE Runtime'
  BY <1>17 DEF P!LoaderLibs, P!Done
<1>18. ASSUME NEW t \in Tasks, P!FilesFail(t) PROVE Runtime'
  BY <1>18 DEF P!FilesFail, P!Half, P!Installers
<1>19. ASSUME NEW t \in Tasks, P!End(t) PROVE Runtime'
  BY <1>19 DEF P!End
<1>20. ASSUME NEW t \in Tasks, P!Resolve(t) PROVE Runtime'
  BY <1>20 DEF P!Resolve
<1>21. ASSUME NEW t \in Tasks, P!EmptyNatives(t) PROVE Runtime'
  BY <1>21 DEF P!EmptyNatives, P!Others
<1>22. ASSUME NEW t \in Tasks, P!UnpackNative(t) PROVE Runtime'
  BY <1>22 DEF P!UnpackNative
<1>23. ASSUME NEW t \in Tasks, P!Spawn(t) PROVE Runtime'
  BY <1>23 DEF P!Spawn
<1>24. ASSUME NEW t \in Tasks, P!Register(t) PROVE Runtime'
  BY <1>24 DEF P!Register
<1>25. ASSUME NEW t \in Tasks, P!Stop(t) PROVE Runtime'
  BY <1>25 DEF P!Stop, P!Half, P!Installers
<1>26. ASSUME NEW a \in Accounts, P!GameEnds(a) PROVE Runtime'
  BY <1>26 DEF P!GameEnds
<1>27. CASE P!Purge
  BY <1>27 DEF P!Purge
<1> QED
  BY <1>1, <1>2, <1>3, <1>4, <1>5, <1>6, <1>7, <1>8, <1>9, <1>10, <1>11, <1>12, <1>13, <1>14, <1>15, <1>16, <1>17, <1>18, <1>19, <1>20, <1>21, <1>22, <1>23, <1>24, <1>25, <1>26, <1>27, <1>28 DEF P!Next

\* Who is past a stage of the preparation has what that stage fetches.
LEMMA GamesStep ==
    ASSUME PrepTyped, PrepTyped', Runtime, Games, P!Next, trouble \subseteq trouble',
           trouble' \subseteq {"half", "beside"}
    PROVE  Games'
<1> USE DEF PrepTyped, Runtime, Games, Stages, Fetching, WithJava, WithVersion, WithLibs, WithLoader, Wiping, P!Step, P!Goto, P!Leave, P!vars, P!java, P!task, P!Pieces, P!Natives, P!Needed, P!LoaderFiles, P!Installers, Has
<1>1. ASSUME NEW t \in Tasks, P!Begin(t) PROVE Games'
  BY <1>1 DEF P!Begin, P!Launches, P!Wiped
<1>2. ASSUME NEW t \in Tasks, P!Find(t) PROVE Games'
  BY <1>2 DEF P!Find, P!Overlap, P!JavaPlaces
<1>3. ASSUME NEW t \in Tasks, P!Clear(t) PROVE Games'
  BY <1>3 DEF P!Clear
<1>4. ASSUME NEW t \in Tasks, P!Fetch(t) PROVE Games'
  BY <1>4 DEF P!Fetch, P!Create
<1>5. ASSUME NEW t \in Tasks, P!Write(t) PROVE Games'
  BY <1>5 DEF P!Write
<1>6. ASSUME NEW t \in Tasks, P!Promote(t) PROVE Games'
  BY <1>6 DEF P!Promote
<1>7. ASSUME NEW t \in Tasks, P!Empty(t) PROVE Games'
  BY <1>7 DEF P!Empty
<1>8. ASSUME NEW t \in Tasks, P!Unpack(t) PROVE Games'
  BY <1>8 DEF P!Unpack
<1>9. ASSUME NEW t \in Tasks, P!JavaFails(t) PROVE Games'
  BY <1>9 DEF P!JavaFails
<1>10. ASSUME NEW t \in Tasks, P!Lookup(t) PROVE Games'
  BY <1>10 DEF P!Lookup
<1>11. ASSUME NEW t \in Tasks, P!Wipe(t) PROVE Games'
  BY <1>11 DEF P!Wipe, P!Wiped, P!After, P!Others
<1>12. ASSUME NEW t \in Tasks, P!Core(t) PROVE Games'
  BY <1>12 DEF P!Core
<1>13. ASSUME NEW t \in Tasks, P!Libs(t) PROVE Games'
  BY <1>13 DEF P!Libs
<1>14. ASSUME NEW t \in Tasks, P!Loader(t) PROVE Games'
  BY <1>14 DEF P!Loader, P!Installed, P!Done, P!Beside, P!Installers
<1>15. ASSUME NEW t \in Tasks, P!Installer(t) PROVE Games'
  BY <1>15 DEF P!Installer, P!Installers, P!Half
<1>28. ASSUME NEW t \in Tasks, P!InstallerWrites(t) PROVE Games'
  BY <1>28 DEF P!InstallerWrites, P!Installers
<1>16. ASSUME NEW t \in Tasks, P!Verify(t) PROVE Games'
  BY <1>16 DEF P!Verify, P!Done, P!Beside, P!Installers
<1>17. ASSUME NEW t \in Tasks, P!LoaderLibs(t) PROVE Games'
  BY <1>17 DEF P!LoaderLibs, P!Done
<1>18. ASSUME NEW t \in Tasks, P!FilesFail(t) PROVE Games'
  BY <1>18 DEF P!FilesFail, P!Half, P!Installers
<1>19. ASSUME NEW t \in Tasks, P!End(t) PROVE Games'
  BY <1>19 DEF P!End
<1>20. ASSUME NEW t \in Tasks, P!Resolve(t) PROVE Games'
  BY <1>20 DEF P!Resolve
<1>21. ASSUME NEW t \in Tasks, P!EmptyNatives(t) PROVE Games'
  BY <1>21 DEF P!EmptyNatives, P!Others
<1>22. ASSUME NEW t \in Tasks, P!UnpackNative(t) PROVE Games'
  <2>1. CASE todo[t] = {}
    <3>1. stage[t] = "natives" /\ stage' = [stage EXCEPT ![t] = "spawn"]
          /\ UNCHANGED <<loader, tree, files, playing, trouble, natives, todo>>
      BY <1>22, <2>1 DEF P!UnpackNative
    <3>2. natives = P!Natives
      <4>1. P!Natives \subseteq natives \cup todo[t] /\ natives \subseteq P!Natives
        BY <3>1
      <4> QED
        BY ONLY <2>1, <4>1
    <3> QED
      BY <3>1, <3>2
  <2>2. CASE todo[t] # {}
    <3>1. PICK n \in todo[t] : natives' = natives \cup {n} /\ todo' = [todo EXCEPT ![t] = @ \ {n}]
      BY <1>22, <2>2 DEF P!UnpackNative
    <3>2. stage' = stage /\ UNCHANGED <<loader, tree, files, playing, trouble>> /\ stage[t] = "natives"
      BY <1>22, <2>2 DEF P!UnpackNative
    <3>3. \A u \in Tasks : u # t /\ stage[u] = "natives" => todo'[u] = todo[u]
      BY <3>1
    <3>4. natives \subseteq natives' /\ natives \cup todo[t] = natives' \cup todo'[t] /\ natives' \subseteq P!Natives
      BY <3>1, <3>2
    <3>5. natives = P!Natives => natives' = P!Natives
      BY <3>4
    <3> QED
      BY <3>2, <3>3, <3>4, <3>5
  <2> QED
    BY <2>1, <2>2
<1>23. ASSUME NEW t \in Tasks, P!Spawn(t) PROVE Games'
  BY <1>23 DEF P!Spawn
<1>24. ASSUME NEW t \in Tasks, P!Register(t) PROVE Games'
  BY <1>24 DEF P!Register
<1>25. ASSUME NEW t \in Tasks, P!Stop(t) PROVE Games'
  BY <1>25 DEF P!Stop, P!Half, P!Installers
<1>26. ASSUME NEW a \in Accounts, P!GameEnds(a) PROVE Games'
  BY <1>26 DEF P!GameEnds
<1>27. CASE P!Purge
  BY <1>27 DEF P!Purge
<1> QED
  BY <1>1, <1>2, <1>3, <1>4, <1>5, <1>6, <1>7, <1>8, <1>9, <1>10, <1>11, <1>12, <1>13, <1>14, <1>15, <1>16, <1>17, <1>18, <1>19, <1>20, <1>21, <1>22, <1>23, <1>24, <1>25, <1>26, <1>27, <1>28 DEF P!Next

\* The invariant holds before anything is prepared.
LEMMA PrepInit == P!Init => PrepInv
<1> SUFFICES ASSUME P!Init PROVE PrepInv
  OBVIOUS
<1>1. PrepTyped
  BY DEF P!Init, PrepTyped, Stages
<1>2. Runtime
  BY DEF P!Init, Runtime, Fetching, WithJava, WithVersion, Wiping
<1>3. Games
  BY DEF P!Init, Games, WithVersion, WithLibs, WithLoader
<1> QED
  BY <1>1, <1>2, <1>3 DEF PrepInv

\* Every step keeps the invariant.
LEMMA PrepStep == PrepInv /\ [P!Next]_prepVars => PrepInv'
<1>1. ASSUME PrepInv, P!Next PROVE PrepInv'
  <2>1. PrepTyped' /\ trouble \subseteq trouble'
    BY <1>1, PrepTypedStep, PrepExcuses DEF PrepInv
  <2>2. ASSUME trouble' \cap {"cut", "overlap", "purge"} = {} PROVE Runtime'
    <3>1. Runtime
      BY <1>1, <2>1, <2>2 DEF PrepInv
    <3> QED
      BY <1>1, <2>1, <2>2, <3>1, RuntimeStep DEF PrepInv
  <2>3. ASSUME trouble' \subseteq {"half", "beside"} PROVE Games'
    <3>1. Runtime /\ Games
      BY <1>1, <2>1, <2>3 DEF PrepInv
    <3> QED
      BY <1>1, <2>1, <2>3, <3>1, GamesStep DEF PrepInv
  <2> QED
    BY <2>1, <2>2, <2>3 DEF PrepInv
<1>2. ASSUME PrepInv, UNCHANGED prepVars PROVE PrepInv'
  BY <1>2 DEF PrepInv, PrepTyped, Runtime, Games, Has, P!Needed, P!Installers, prepVars
<1> QED
  BY <1>1, <1>2

\* The invariant contains the property.
LEMMA PrepProperties == PrepInv => UsedIsWhole
<1> SUFFICES ASSUME PrepInv PROVE P!RuntimeIsWhole /\ P!GameIsWhole
  BY DEF UsedIsWhole
<1>1. P!RuntimeIsWhole
  BY DEF PrepInv, Runtime, P!RuntimeIsWhole
<1>2. P!GameIsWhole
  BY DEF PrepInv, Runtime, Games, Has, WithJava, WithVersion, WithLoader, P!GameIsWhole
<1> QED
  BY <1>1, <1>2

\* In every behaviour, for any number of tasks, accounts, starts and failures: a Java runtime
\* that would be taken as it is has all its files, and a game that starts or plays has its
\* runtime, its natives and the files of its version and loader (ensure_openjdk_runtime,
\* ensure_game_files, launch_instance), with LaunchPreparation's excuses.
THEOREM PreparedIsWhole == MCSpec => []UsedIsWhole
<1>1. MCInit => PrepInv
  BY PrepInit DEF MCInit
<1>2. MCNext => P!Next \/ UNCHANGED prepVars
  BY DEF MCNext
<1>3. PrepInv /\ [MCNext]_<<vars, storeVars, prepVars, part>> => PrepInv'
  BY <1>2, PrepStep
<1> QED
  BY <1>1, <1>3, PrepProperties, PTL DEF MCSpec
=============================================================================
