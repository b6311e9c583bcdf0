---------------------------- MODULE MCLaunch_proofs ----------------------------
(***************************************************************************)
(* Safety of the process registry for every set of launches, instances and *)
(* accounts and every backlog cap, of the lists of versions for every set   *)
(* of games, loaders and workers, and of the screens: a move, the gallery,  *)
(* the log, the home screen and Discover.                                   *)
(*                                                                         *)
(* For the registry, the inductive invariant adds to the checked properties *)
(* that it holds only registered children under their own key, that only    *)
(* such children are ever reported, and that the exclusion already holds    *)
(* of launches that are still inside their window.  For the lists, it says  *)
(* what the file and every worker's hands hold: lists of one day, with the  *)
(* gaps that a failed server has left, that forget nothing once told while   *)
(* no two workers have met.  For the screens, it says what each answer under *)
(* way is an answer to.                                                      *)
(***************************************************************************)
EXTENDS MCLaunch, FiniteSetTheorems, SequenceTheorems, WellFoundedInduction, TLAPS

\* The registry files a child under the key of its own launch, and only after
\* the launch has registered it.
RegistrySound ==
    \A i \in Instances : \A p \in registry[i] :
        request[p].inst = i /\ phase[p] = "registered"

\* A child takes part in the reports only after its registration.
ReportedWereRegistered ==
    \A p \in finished \cup delivered \cup unreported \cup stopped :
        phase[p] \in {"registered", "orphaned"}

\* A launch contends from its admission to the death of its child.
Contends(p) ==
    \/ phase[p] = "preparing"
    \/ phase[p] \in {"spawned", "registered"} /\ Running(p)

ContendersOverlap ==
    \A p, q \in Launches :
        Contends(p) /\ Contends(q) /\ Conflict(p, q) => q \in overlap[p]

IInv ==
    /\ TypeOK
    /\ RegistrySound
    /\ RunningIsTracked
    /\ ReportedWereRegistered
    /\ ReportedAtMostOnce
    /\ ContendersOverlap

-----------------------------------------------------------------------------
\* What the prune does to each child: a running one stays where it is, any
\* other leaves the registry, and only registered children gain a report.
LEMMA PruneEffect ==
    ASSUME TypeOK, Prune
    PROVE  /\ registry' \in [Instances -> SUBSET Launches]
           /\ finished' \in SUBSET Launches
           /\ unreported' \in SUBSET Launches
           /\ Cardinality(finished') <= MaxBacklog
           /\ \A i \in Instances : registry'[i] \subseteq registry[i]
           /\ \A i \in Instances : \A p \in registry[i] :
                 Running(p) <=> p \in registry'[i]
           /\ finished \subseteq finished'
           /\ unreported \subseteq unreported'
           /\ (finished' \ finished) \subseteq {p \in Registered : ~Running(p)}
           /\ (unreported' \ unreported) \subseteq {p \in Registered : ~Running(p)}
           /\ (finished' \ finished) \cap (unreported' \ unreported) = {}
           /\ delivered' = delivered
           /\ stopped' = stopped
<1> DEFINE gone == {p \in Registered : child[p] = "exited"}
           lost == {p \in Registered : child[p] = "lost"}
<1>1. PICK kept \in SUBSET gone :
          /\ Pushed(gone, kept)
          /\ finished' = finished \cup kept
          /\ unreported' = unreported \cup lost \cup (gone \ kept)
  BY DEF Prune
<1>2. Registered \subseteq Launches
  BY DEF Registered, TypeOK
<1>3. Cardinality(finished') <= MaxBacklog
  BY <1>1, RegistryAssumption DEF Pushed, Fits
<1>4. registry' = [i \in Instances |-> {p \in registry[i] : Running(p)}]
  BY DEF Prune
<1>5. /\ registry' \in [Instances -> SUBSET Launches]
      /\ \A i \in Instances : registry'[i] \subseteq registry[i]
      /\ \A i \in Instances : \A p \in registry[i] :
            Running(p) <=> p \in registry'[i]
  BY <1>4 DEF TypeOK
<1>6. /\ finished' \in SUBSET Launches
      /\ unreported' \in SUBSET Launches
      /\ finished \subseteq finished'
      /\ unreported \subseteq unreported'
      /\ (finished' \ finished) \subseteq {p \in Registered : ~Running(p)}
      /\ (unreported' \ unreported) \subseteq {p \in Registered : ~Running(p)}
      /\ (finished' \ finished) \cap (unreported' \ unreported) = {}
  BY <1>1, <1>2 DEF TypeOK, Running
<1> QED
  BY <1>3, <1>5, <1>6 DEF Prune

\* An empty backlog is within its cap.
LEMMA EmptyFits == Cardinality({}) <= MaxBacklog
BY FS_EmptySet, RegistryAssumption

\* The invariant holds before the first launch.
LEMMA InitIInv == Init => IInv
<1> SUFFICES ASSUME Init PROVE IInv
  OBVIOUS
<1>1. TypeOK
  BY EmptyFits
     DEF Init, TypeOK, Phases, ChildStates
<1>2. RegistrySound /\ RunningIsTracked /\ ReportedWereRegistered
  BY DEF Init, RegistrySound, RunningIsTracked, ReportedWereRegistered, Running
<1>3. ReportedAtMostOnce /\ ContendersOverlap
  BY DEF Init, ReportedAtMostOnce, Registered, ContendersOverlap, Contends
<1> QED
  BY <1>1, <1>2, <1>3 DEF IInv

-----------------------------------------------------------------------------
\* Every step keeps the types.
LEMMA TypeOKStep == TypeOK /\ [Next]_vars => TypeOK'
<1> SUFFICES ASSUME TypeOK, [Next]_vars PROVE TypeOK'
  OBVIOUS
<1> USE DEF TypeOK
<1>1. ASSUME NEW p \in Launches, Admit(p) PROVE TypeOK'
  BY <1>1, PruneEffect DEF Admit, EnterWindow, InWindow, Phases
<1>2. ASSUME NEW p \in Launches, Reject(p) PROVE TypeOK'
  BY <1>2, PruneEffect DEF Reject, Phases
<1>3. ASSUME NEW p \in Launches, PrepareFail(p) \/ ExitedImmediately(p)
      PROVE TypeOK'
  BY <1>3 DEF PrepareFail, ExitedImmediately, reports, Phases
<1>4. ASSUME NEW p \in Launches, Spawn(p) PROVE TypeOK'
  BY <1>4 DEF Spawn, reports, Phases, ChildStates
<1>5. ASSUME NEW p \in Launches, Register(p) PROVE TypeOK'
  BY <1>5 DEF Register, reports, Phases
<1>6. ASSUME NEW p \in Launches, Exit(p) PROVE TypeOK'
  BY <1>6 DEF Exit, reports, ChildStates
<1>7. ASSUME NEW i \in Instances, NEW victims \in SUBSET registry[i],
             Stop(i, victims)
      PROVE TypeOK'
  BY <1>7 DEF Stop, ChildStates
<1>8. ASSUME NEW i \in Instances, StopInstance(i) PROVE TypeOK'
  BY <1>7, <1>8 DEF StopInstance
<1>9. ASSUME NEW i \in Instances, NEW a \in Accounts, StopForAccount(i, a)
      PROVE TypeOK'
  BY <1>7, <1>9 DEF StopForAccount
<1>10. CASE Query \/ TakePrune
  BY <1>10, PruneEffect DEF Query, TakePrune
<1>11. CASE TakeDrain
  BY <1>11, EmptyFits DEF TakeDrain
<1>12. CASE Restart
  BY <1>12, EmptyFits DEF Restart, Phases
<1>13. CASE UNCHANGED vars
  BY <1>13 DEF vars
<1> QED
  BY <1>1, <1>2, <1>3, <1>4, <1>5, <1>6, <1>8, <1>9, <1>10, <1>11, <1>12, <1>13
     DEF Next

\* The registry's types: what the code's own declarations promise.
THEOREM TypeCorrect == Spec => []TypeOK
<1>1. Init => TypeOK
  BY InitIInv DEF IInv
<1> QED
  BY <1>1, TypeOKStep, PTL DEF Spec

-----------------------------------------------------------------------------
\* Every operation that prunes keeps the registry sound, tracks the running
\* children, and reports a child at most once.
LEMMA PruneKeeps ==
    ASSUME IInv, TypeOK', Prune, UNCHANGED <<request, child>>,
           \A p \in Launches : phase[p] # "idle" => phase'[p] = phase[p]
    PROVE  RegistrySound' /\ RunningIsTracked' /\ ReportedWereRegistered'
           /\ ReportedAtMostOnce'
<1> USE DEF IInv
<1>1. RegistrySound'
  BY PruneEffect DEF RegistrySound, TypeOK
<1>2. RunningIsTracked'
  BY PruneEffect DEF RunningIsTracked, RegistrySound, TypeOK, Running, Requests
<1>3. \A p \in Registered : phase[p] = "registered"
  BY DEF Registered, RegistrySound
<1>4. ReportedWereRegistered'
  BY <1>3, PruneEffect DEF ReportedWereRegistered, TypeOK
<1>5. Registered' \subseteq {p \in Registered : Running(p)}
  BY PruneEffect DEF Registered
<1>6. ReportedAtMostOnce'
  BY <1>5, PruneEffect DEF ReportedAtMostOnce
<1> QED
  BY <1>1, <1>2, <1>4, <1>6

\* A stop removes children of one instance only, and leaves nothing running
\* that it removed.
LEMMA StopKeeps ==
    ASSUME IInv, TypeOK', NEW i \in Instances,
           NEW victims \in SUBSET registry[i], Stop(i, victims)
    PROVE  IInv'
<1> USE DEF IInv
<1> \A p \in victims : phase[p] = "registered" /\ request[p].inst = i
  BY DEF RegistrySound
<1>1. RegistrySound'
  BY DEF RegistrySound, Stop, TypeOK
<1>2. RunningIsTracked'
  BY DEF RunningIsTracked, Stop, TypeOK, Running, Requests
<1>3. ReportedWereRegistered'
  BY DEF ReportedWereRegistered, Stop, TypeOK
<1>4. ReportedAtMostOnce'
  <2>1. victims \subseteq Registered
    BY DEF Registered, TypeOK
  <2>2. Registered' \subseteq Registered \ victims
    BY DEF Registered, Stop, TypeOK, RegistrySound
  <2> QED
    BY <2>1, <2>2 DEF ReportedAtMostOnce, Stop
<1>5. ContendersOverlap'
  BY DEF ContendersOverlap, Contends, Conflict, Stop, TypeOK, Running
<1> QED
  BY <1>1, <1>2, <1>3, <1>4, <1>5

\* An admitted launch either overlaps a contender or would have been refused.
LEMMA AdmitKeepsOverlap ==
    ASSUME IInv, NEW p \in Launches, Admit(p)
    PROVE  ContendersOverlap'
<1> USE DEF IInv
<1>1. SUFFICES ASSUME NEW q \in Launches, NEW r \in Launches,
                      Contends(q)', Contends(r)', Conflict(q, r)'
               PROVE  r \in overlap'[q]
  BY DEF ContendersOverlap
<1>2. Conflict(q, r)
  BY <1>1 DEF Admit, Conflict
<1>3. \A s \in Launches \ {p} : Contends(s)' => Contends(s)
  BY DEF Admit, Contends, Running, TypeOK
<1>4. \A s \in Launches \ {p} : Contends(s) /\ Conflict(p, s) => s \in InWindow
  <2> SUFFICES ASSUME NEW s \in Launches \ {p}, Contends(s), Conflict(p, s),
                      s \notin InWindow
               PROVE  FALSE
    OBVIOUS
  <2>1. phase[s] = "registered" /\ Running(s)
    BY DEF InWindow, Contends
  <2>2. s \in registry[request[s].inst]
    BY <2>1 DEF RunningIsTracked
  <2>3. request[s].inst \in Instances /\ request[p].inst \in Instances
    BY DEF TypeOK, Requests
  <2>4. Blocks(p, s)
    BY <2>1, <2>2, <2>3 DEF Blocks, Conflict
  <2> QED
    BY <2>4 DEF Admit, LaunchAllowed
<1>5. CASE q # p /\ r # p
  BY <1>1, <1>2, <1>3, <1>5 DEF ContendersOverlap, Admit, EnterWindow, TypeOK
<1>6. CASE q = p /\ r # p
  BY <1>1, <1>2, <1>3, <1>4, <1>6 DEF Admit, EnterWindow, TypeOK
<1>7. CASE q # p /\ r = p
  <2>1. Conflict(p, q)
    BY <1>2, <1>7 DEF Conflict
  <2>2. q \in InWindow
    BY <1>1, <1>3, <1>4, <1>7, <2>1
  <2> QED
    BY <1>7, <2>2 DEF Admit, EnterWindow, TypeOK
<1> QED
  BY <1>2, <1>5, <1>6, <1>7 DEF Conflict

\* Every step keeps the invariant.
LEMMA IInvStep == IInv /\ [Next]_vars => IInv'
<1> SUFFICES ASSUME IInv, [Next]_vars PROVE IInv'
  OBVIOUS
<1> USE DEF IInv
<1>0. TypeOK'
  BY TypeOKStep
<1>1. ASSUME NEW p \in Launches, Admit(p) PROVE IInv'
  BY <1>0, <1>1, PruneKeeps, AdmitKeepsOverlap DEF Admit, TypeOK
<1>2. ASSUME NEW p \in Launches, Reject(p) PROVE IInv'
  <2>1. RegistrySound' /\ RunningIsTracked' /\ ReportedWereRegistered'
        /\ ReportedAtMostOnce'
    BY <1>0, <1>2, PruneKeeps DEF Reject, TypeOK
  <2>2. ContendersOverlap'
    BY <1>2 DEF ContendersOverlap, Contends, Conflict, Reject, TypeOK, Running
  <2> QED
    BY <1>0, <2>1, <2>2
<1>3. ASSUME NEW p \in Launches, PrepareFail(p) \/ Spawn(p) \/ ExitedImmediately(p)
      PROVE IInv'
  <2> USE <1>3 DEF PrepareFail, Spawn, ExitedImmediately, reports, TypeOK
  <2>1. phase[p] \in {"preparing", "spawned"}
    OBVIOUS
  <2>2. RegistrySound'
    BY <2>1 DEF RegistrySound
  <2>3. RunningIsTracked'
    BY <2>1 DEF RunningIsTracked, RegistrySound, Running, Requests
  <2>4. ReportedWereRegistered'
    BY <2>1 DEF ReportedWereRegistered
  <2>5. ReportedAtMostOnce'
    BY DEF ReportedAtMostOnce, Registered
  <2>6. ContendersOverlap'
    BY <2>1 DEF ContendersOverlap, Contends, Conflict, Running
  <2> QED
    BY <1>0, <2>2, <2>3, <2>4, <2>5, <2>6
<1>4. ASSUME NEW p \in Launches, Register(p) PROVE IInv'
  <2> USE <1>4 DEF Register, reports, TypeOK
  <2>1. RegistrySound'
    BY DEF RegistrySound, Requests
  <2>2. RunningIsTracked'
    BY DEF RunningIsTracked, Running, Requests
  <2>3. ReportedWereRegistered'
    BY DEF ReportedWereRegistered
  <2>4. Registered' \subseteq Registered \cup {p}
    BY DEF Registered, Requests
  <2>5. p \notin finished \cup delivered \cup unreported \cup stopped
    BY DEF ReportedWereRegistered
  <2>6. ReportedAtMostOnce'
    BY <2>4, <2>5 DEF ReportedAtMostOnce
  <2>7. ContendersOverlap'
    BY DEF ContendersOverlap, Contends, Conflict, Running
  <2> QED
    BY <1>0, <2>1, <2>2, <2>3, <2>6, <2>7
<1>5. ASSUME NEW p \in Launches, Exit(p) PROVE IInv'
  <2> USE <1>5 DEF Exit, reports, TypeOK
  <2>1. RegistrySound' /\ ReportedWereRegistered'
    BY DEF RegistrySound, ReportedWereRegistered
  <2>2. RunningIsTracked'
    BY DEF RunningIsTracked, Running, Requests
  <2>3. ReportedAtMostOnce'
    BY DEF ReportedAtMostOnce, Registered
  <2>4. ContendersOverlap'
    BY DEF ContendersOverlap, Contends, Conflict, Running
  <2> QED
    BY <1>0, <2>1, <2>2, <2>3, <2>4
<1>6. ASSUME NEW i \in Instances, StopInstance(i) PROVE IInv'
  BY <1>0, <1>6, StopKeeps DEF StopInstance
<1>7. ASSUME NEW i \in Instances, NEW a \in Accounts, StopForAccount(i, a)
      PROVE IInv'
  BY <1>0, <1>7, StopKeeps DEF StopForAccount
<1>8. CASE Query \/ TakePrune
  <2>1. RegistrySound' /\ RunningIsTracked' /\ ReportedWereRegistered'
        /\ ReportedAtMostOnce'
    BY <1>0, <1>8, PruneKeeps DEF Query, TakePrune
  <2>2. ContendersOverlap'
    BY <1>8 DEF ContendersOverlap, Contends, Conflict, Query, TakePrune, Running
  <2> QED
    BY <1>0, <2>1, <2>2
<1>9. CASE TakeDrain
  <2> USE <1>9 DEF TakeDrain
  <2>1. RegistrySound' /\ ReportedWereRegistered' /\ RunningIsTracked'
    BY DEF RegistrySound, ReportedWereRegistered, RunningIsTracked, Running
  <2>2. ReportedAtMostOnce'
    BY DEF ReportedAtMostOnce, Registered
  <2>3. ContendersOverlap'
    BY DEF ContendersOverlap, Contends, Conflict, Running
  <2> QED
    BY <1>0, <2>1, <2>2, <2>3
<1>10. CASE Restart
  <2> USE <1>10 DEF Restart, TypeOK
  <2>1. RegistrySound'
    BY DEF RegistrySound
  <2>2. RunningIsTracked'
    BY DEF RunningIsTracked, RegistrySound, Running, Requests
  <2>3. ReportedWereRegistered'
    BY DEF ReportedWereRegistered
  <2>4. ReportedAtMostOnce'
    BY DEF ReportedAtMostOnce, Registered
  <2>5. ContendersOverlap'
    BY DEF ContendersOverlap, Contends
  <2> QED
    BY <1>0, <2>1, <2>2, <2>3, <2>4, <2>5
<1>11. CASE UNCHANGED vars
  BY <1>11 DEF vars, TypeOK, RegistrySound, RunningIsTracked, ReportedWereRegistered,
        ReportedAtMostOnce, Registered, ContendersOverlap, Contends, Conflict, Running
<1> QED
  BY <1>1, <1>2, <1>3, <1>4, <1>5, <1>6, <1>7, <1>8, <1>9, <1>10, <1>11 DEF Next

\* The invariant: who plays is in the registry, and no report is made twice.
LEMMA Inductive == Spec => []IInv
<1> QED
  BY InitIInv, IInvStep, PTL DEF Spec

\* A game the launcher started in this session is never lost by the registry.
THEOREM NoGameIsLost == Spec => []RunningIsTracked
<1>1. IInv => RunningIsTracked
  BY DEF IInv
<1> QED
  BY <1>1, Inductive, PTL

\* Two conflicting games run together only when their launches overlapped
\* between the admission check and the registration.
THEOREM AdmissionExcludes == Spec => []ExclusiveUnlessOverlapping
<1>1. IInv => ExclusiveUnlessOverlapping
  BY DEF IInv, ContendersOverlap, Contends, ExclusiveUnlessOverlapping, Playing
<1> QED
  BY <1>1, Inductive, PTL

\* No exit is reported twice, and no stopped game is reported at all.
THEOREM ReportsAreUnique == Spec => []ReportedAtMostOnce
<1>1. IInv => ReportedAtMostOnce
  BY DEF IInv
<1> QED
  BY <1>1, Inductive, PTL

-----------------------------------------------------------------------------
(* The lists of versions (VersionCatalogs).                                 *)

Lists == [Games \cup Loaders -> Nat]
Writing == {"create", "write"}
CatalogPlaces == {"idle", "fetch"} \cup Writing
Topic == Games \cup Loaders \cup {""}
CatalogWork == [at : CatalogPlaces, topic : Topic, cached : Lists, lists : Lists]
CatalogAnswer == [topic : Topic, day : Nat, asked : Nat, failed : BOOLEAN, error : BOOLEAN]

CatalogTyped ==
    /\ today \in Nat \ {0} /\ cache \in V!Caches
    /\ file \in [whole : BOOLEAN, at : Nat, lists : Lists]
    /\ work \in [Clients -> CatalogWork]
    /\ answer \in CatalogAnswer /\ answer.asked <= today
    /\ answer.asked # 0 \/ answer.error => answer.topic \in V!Topics(cache)
    /\ known \in SUBSET V!Topics(cache) /\ shared \in BOOLEAN
    /\ lastFailure \in [Loaders -> Nat]
    /\ \A l \in Loaders : lastFailure[l] <= today
    /\ \A w \in Clients : work[w].at # "idle" => work[w].topic \in V!Topics(cache)

\* A loader's server failed once, so the catalog may lack it.
Excused(t) == cache = V!Catalog /\ lastFailure[t] # 0

\* What lists say of the topics of the cache is of one day, or nothing; and in a catalog,
\* nothing only of a loader whose server failed on that day or since.
OfOneDay(lists, day) ==
    /\ cache \notin PerGame => \A t \in V!Topics(cache) : lists[t] \in {day, V!Unknown}
    /\ cache = V!Catalog => \A l \in Loaders : lists[l] = V!Unknown => lastFailure[l] # 0 /\ lastFailure[l] >= day

DaysHold ==
    /\ OfOneDay(file.lists, file.at) \/ (~file.whole /\ file.lists = V!Nothing)
    /\ file.at <= today
    /\ \A w \in Clients : work[w].at \in Writing => OfOneDay(work[w].lists, today)

\* While nobody has met another at the file, what was once in it is in it, or in the hands
\* of the one worker who has emptied it, or is about to.
Remembers(lists) == \A t \in known : lists[t] # V!Unknown \/ Excused(t)

KnownHeld ==
    /\ \A v, w \in Clients : work[v].at # "idle" /\ work[w].at # "idle" => v = w
    /\ (\A w \in Clients : work[w].at # "write") => known = {} \/ (file.whole /\ Remembers(file.lists))
    /\ \A w \in Clients : work[w].at = "fetch" => Remembers(work[w].cached)
    /\ \A w \in Clients : work[w].at \in Writing => Remembers(work[w].lists)

CatalogInv == CatalogTyped /\ DaysHold /\ (~shared => KnownHeld) /\ V!CatalogsAreSound

LEMMA CatalogStart == V!Init => CatalogInv
<1> SUFFICES ASSUME V!Init PROVE CatalogInv
  OBVIOUS
<1>1. V!Nothing \in Lists
  BY DEF V!Nothing, Lists, V!Unknown
<1>2. V!Idle \in CatalogWork /\ V!Idle.at = "idle" /\ V!NoAnswer \in CatalogAnswer
      /\ V!NoAnswer.asked = 0 /\ V!NoAnswer.day = V!Unknown /\ ~V!NoAnswer.error
  BY <1>1 DEF V!Idle, CatalogWork, CatalogPlaces, Topic, V!NoAnswer, CatalogAnswer, V!Unknown
<1>3. /\ today = 1 /\ known = {} /\ shared = FALSE /\ cache \in V!Caches
      /\ file = [whole |-> FALSE, at |-> 0, lists |-> V!Nothing] /\ answer = V!NoAnswer
      /\ work = [w \in Clients |-> V!Idle] /\ lastFailure = [l \in Loaders |-> 0]
  BY DEF V!Init
<1>4. CatalogTyped
  <2>1. today \in Nat \ {0} /\ known \in SUBSET V!Topics(cache) /\ shared \in BOOLEAN
    <3>1. 1 \in Nat \ {0} /\ {} \in SUBSET V!Topics(cache) /\ FALSE \in BOOLEAN
      OBVIOUS
    <3> QED
      BY <1>3, <3>1
  <2>2. file \in [whole : BOOLEAN, at : Nat, lists : Lists]
    BY <1>1, <1>3
  <2>3. work \in [Clients -> CatalogWork] /\ \A w \in Clients : work[w].at = "idle"
    BY <1>2, <1>3
  <2>4. answer \in CatalogAnswer /\ answer.asked <= today /\ answer.asked = 0 /\ ~answer.error
    BY <1>2, <1>3
  <2>5. lastFailure \in [Loaders -> Nat] /\ \A l \in Loaders : lastFailure[l] <= today
    BY <1>3
  <2> QED
    BY <1>3, <2>1, <2>2, <2>3, <2>4, <2>5 DEF CatalogTyped
<1>5. DaysHold
  BY <1>1, <1>2, <1>3 DEF DaysHold, Writing
<1>6. KnownHeld
  BY <1>2, <1>3 DEF KnownHeld, Writing
<1>7. V!CatalogsAreSound
  BY <1>2, <1>3 DEF V!CatalogsAreSound, V!ListsAreYoung, V!KnownStaysKnown, V!LoadersComeBack
<1> QED
  BY <1>4, <1>5, <1>6, <1>7 DEF CatalogInv

\* What an answer must say to be right.
LEMMA AnswerIsSound ==
    ASSUME CatalogInv, NEW topic \in V!Topics(cache), NEW day \in Nat, NEW failed \in BOOLEAN,
           V!Answer(topic, day, failed), UNCHANGED <<today, cache, lastFailure>>,
           day # V!Unknown /\ ~failed /\ cache \notin PerGame => today - day <= 1,
           failed /\ day = V!Unknown /\ topic \in known /\ ~shared => Excused(topic),
           cache = V!Catalog /\ day = V!Unknown /\ ~failed
             => lastFailure[topic] # 0 /\ today - lastFailure[topic] <= 1
    PROVE  /\ V!CatalogsAreSound' /\ answer' \in CatalogAnswer /\ answer'.asked <= today'
           /\ answer'.topic \in V!Topics(cache')
<1> DEFINE error == failed /\ day = V!Unknown /\ topic \in known /\ ~shared
<1>1. today \in Nat /\ topic \in Topic /\ error \in BOOLEAN
  BY DEF CatalogInv, CatalogTyped, V!Topics, Topic
<1>2. answer' = [topic |-> topic, day |-> day, asked |-> today, failed |-> failed, error |-> error]
  BY DEF V!Answer
<1>3. error => Excused(topic)
  OBVIOUS
<1> HIDE DEF error
<1>4. /\ answer'.topic = topic /\ answer'.day = day /\ answer'.asked = today
      /\ answer'.failed = failed /\ answer'.error = error
  BY <1>2
<1>5. answer' \in CatalogAnswer /\ answer'.asked <= today'
  BY <1>1, <1>2, <1>4 DEF CatalogAnswer
<1>6. V!ListsAreYoung' /\ V!LoadersComeBack' /\ answer'.topic \in V!Topics(cache')
  BY <1>4 DEF V!ListsAreYoung, V!LoadersComeBack, V!TTL
<1>7. V!KnownStaysKnown'
  BY <1>3, <1>4 DEF V!KnownStaysKnown, Excused
<1> QED
  BY <1>5, <1>6, <1>7 DEF V!CatalogsAreSound

\* A worker goes to another place, or rests.
LEMMA WorkGoes ==
    ASSUME CatalogInv, NEW w \in Clients, NEW job \in CatalogWork, work' = [work EXCEPT ![w] = job],
           job.at # "idle" => job.topic \in V!Topics(cache), UNCHANGED cache
    PROVE  /\ work' \in [Clients -> CatalogWork] /\ work'[w] = job
           /\ \A v \in Clients \ {w} : work'[v] = work[v]
           /\ \A v \in Clients : work'[v].at # "idle" => work'[v].topic \in V!Topics(cache')
BY DEF CatalogInv, CatalogTyped

LEMMA AskKeeps ==
    ASSUME CatalogInv, NEW w \in Clients, NEW topic \in V!Topics(cache), NEW force \in BOOLEAN,
           V!Ask(w, topic, force)
    PROVE  CatalogInv'
<1>1. /\ work[w].at = "idle" /\ UNCHANGED <<today, cache, file, errors, known, lastFailure>>
      /\ CatalogTyped /\ DaysHold
      /\ shared' = (shared \/ \E v \in Clients \ {w} : work[v].at # "idle")
  BY DEF V!Ask, CatalogInv
<1>2. shared' \in BOOLEAN /\ (~shared' => ~shared /\ KnownHeld /\ \A v \in Clients \ {w} : work[v].at = "idle")
  BY <1>1 DEF CatalogInv
<1>3. /\ file.lists \in Lists /\ file.at \in Nat /\ topic \in Games \cup Loaders /\ today \in Nat
      /\ V!Nothing \in Lists
  BY <1>1 DEF CatalogTyped, V!Topics, V!Nothing, Lists, V!Unknown
<1>4. CASE file.whole /\ ~V!Expired /\ V!Answer(topic, file.lists[topic], FALSE) /\ UNCHANGED work
  <2>1. OfOneDay(file.lists, file.at) /\ today - file.at <= 1
    BY <1>1, <1>3, <1>4 DEF DaysHold, V!Expired, V!TTL
  <2>2. file.lists[topic] \in Nat
    BY <1>3 DEF Lists
  <2>3. /\ V!CatalogsAreSound' /\ answer' \in CatalogAnswer /\ answer'.asked <= today'
        /\ answer'.topic \in V!Topics(cache')
    <3>1. file.lists[topic] # V!Unknown /\ cache \notin PerGame => today - file.lists[topic] <= 1
      BY <2>1 DEF OfOneDay
    <3>2. cache = V!Catalog /\ file.lists[topic] = V!Unknown
             => lastFailure[topic] # 0 /\ today - lastFailure[topic] <= 1
      BY <1>1, <1>3, <2>1 DEF OfOneDay, V!Topics, CatalogTyped
    <3> QED
      BY <1>1, <1>4, <2>2, <3>1, <3>2, AnswerIsSound
  <2>4. CatalogTyped'
    BY <1>1, <1>2, <1>4, <2>3 DEF CatalogTyped
  <2>5. DaysHold' /\ (~shared' => KnownHeld')
    BY <1>1, <1>2, <1>4 DEF DaysHold, KnownHeld, OfOneDay, Remembers, Excused
  <2> QED
    BY <2>3, <2>4, <2>5 DEF CatalogInv
<1>5. CASE /\ work' = [work EXCEPT ![w] = [at |-> "fetch", topic |-> topic, lists |-> V!Nothing,
                                           cached |-> IF file.whole THEN file.lists ELSE V!Nothing]]
           /\ UNCHANGED answer
  <2> DEFINE cached == IF file.whole THEN file.lists ELSE V!Nothing
             job == [at |-> "fetch", topic |-> topic, lists |-> V!Nothing, cached |-> cached]
  <2>1. job \in CatalogWork /\ job.at = "fetch" /\ job.topic = topic /\ job.cached = cached
    BY <1>3 DEF CatalogWork, CatalogPlaces, Topic
  <2>2. work' = [work EXCEPT ![w] = job]
    BY <1>5
  <2> HIDE DEF job
  <2>3. /\ work' \in [Clients -> CatalogWork] /\ work'[w] = job
        /\ \A v \in Clients \ {w} : work'[v] = work[v]
        /\ \A v \in Clients : work'[v].at # "idle" => work'[v].topic \in V!Topics(cache')
    BY <1>1, <2>1, <2>2, WorkGoes
  <2>4. CatalogTyped'
    BY <1>1, <1>2, <1>5, <2>3 DEF CatalogTyped
  <2>5. DaysHold'
    BY <1>1, <2>1, <2>3 DEF DaysHold, OfOneDay, Writing
  <2>6. ASSUME ~shared' PROVE KnownHeld'
    <3>1. KnownHeld /\ \A v \in Clients : work[v].at = "idle"
      BY <1>1, <1>2, <2>6
    <3>2. known = {} \/ (file.whole /\ Remembers(file.lists))
      BY <3>1 DEF KnownHeld
    <3>3. Remembers(cached)
      BY <3>2 DEF Remembers
    <3> HIDE DEF cached
    <3> QED
      BY <1>1, <2>1, <2>3, <3>1, <3>2, <3>3 DEF KnownHeld, Remembers, Excused, Writing
  <2>7. V!CatalogsAreSound'
    BY <1>1, <1>5 DEF CatalogInv, V!CatalogsAreSound, V!ListsAreYoung, V!KnownStaysKnown, V!LoadersComeBack
  <2> QED
    BY <2>4, <2>5, <2>6, <2>7 DEF CatalogInv
<1> QED
  BY <1>4, <1>5 DEF V!Ask

\* What every act of a worker that has asked starts from.
LEMMA AtWork ==
    ASSUME CatalogInv, NEW w \in Clients, work[w].at # "idle"
    PROVE  /\ CatalogTyped /\ DaysHold /\ work[w].topic \in V!Topics(cache) /\ work[w].topic \in Games \cup Loaders
           /\ work[w] \in CatalogWork /\ work[w].cached \in Lists /\ work[w].lists \in Lists /\ today \in Nat \ {0}
           /\ ~shared => KnownHeld /\ \A v \in Clients \ {w} : work[v].at = "idle"
<1>1. CatalogTyped /\ DaysHold /\ work[w] \in CatalogWork /\ work[w].topic \in V!Topics(cache)
  BY DEF CatalogInv, CatalogTyped
<1>2. work[w].cached \in Lists /\ work[w].lists \in Lists /\ today \in Nat \ {0}
  BY <1>1 DEF CatalogWork, CatalogTyped
<1>3. work[w].topic \in Games \cup Loaders
  BY <1>1 DEF V!Topics
<1>4. ~shared => KnownHeld /\ \A v \in Clients \ {w} : work[v].at = "idle"
  BY DEF CatalogInv, KnownHeld
<1> QED
  BY <1>1, <1>2, <1>3, <1>4

\* A worker that has fetched lists of today, which forget nothing, goes on to write them.
LEMMA FetchedKeeps ==
    ASSUME CatalogInv, NEW w \in Clients, work[w].at = "fetch", NEW lists \in Lists, V!Fetched(w, lists),
           lastFailure' \in [Loaders -> Nat],
           \A l \in Loaders : lastFailure'[l] = lastFailure[l] \/ lastFailure'[l] = today,
           OfOneDay(lists, today)', ~shared => Remembers(lists)'
    PROVE  CatalogInv'
<1>1. /\ CatalogTyped /\ DaysHold /\ work[w].topic \in V!Topics(cache) /\ work[w] \in CatalogWork
      /\ today \in Nat \ {0} /\ (~shared => KnownHeld /\ \A v \in Clients \ {w} : work[v].at = "idle")
  BY AtWork
<1>2. UNCHANGED <<today, cache, file, answer, known, shared>>
  BY DEF V!Fetched
<1>3. PICK job : job = [[work[w] EXCEPT !.at = "create"] EXCEPT !.lists = lists]
  OBVIOUS
<1>4. job \in CatalogWork /\ job.at = "create" /\ job.topic = work[w].topic /\ job.lists = lists
  BY <1>1, <1>3 DEF CatalogWork, CatalogPlaces, Writing
<1>5. work' = [work EXCEPT ![w] = job]
  BY <1>1, <1>3 DEF V!Fetched, CatalogWork
<1>6. /\ work' \in [Clients -> CatalogWork] /\ work'[w] = job
      /\ \A v \in Clients \ {w} : work'[v] = work[v]
      /\ \A v \in Clients : work'[v].at # "idle" => work'[v].topic \in V!Topics(cache')
  BY <1>1, <1>2, <1>4, <1>5, WorkGoes
<1>7. \A l \in Loaders : lastFailure'[l] >= lastFailure[l] /\ lastFailure'[l] <= today
  BY <1>1 DEF CatalogTyped
<1>8. CatalogTyped'
  BY <1>1, <1>2, <1>6, <1>7 DEF CatalogTyped
<1>9. DaysHold'
  <2>1. ASSUME NEW x, NEW day \in Nat, OfOneDay(x, day) PROVE OfOneDay(x, day)'
    <3>1. \A l \in Loaders : lastFailure[l] \in Nat /\ lastFailure'[l] \in Nat
      BY <1>1 DEF CatalogTyped
    <3> QED
      BY <1>2, <1>7, <2>1, <3>1 DEF OfOneDay
  <2>2. file.at \in Nat
    BY <1>1 DEF CatalogTyped
  <2>3. OfOneDay(file.lists, file.at)' \/ (~file'.whole /\ file'.lists = V!Nothing)
    <3>1. OfOneDay(file.lists, file.at) => OfOneDay(file.lists, file.at)'
      BY <1>2, <2>1, <2>2 DEF OfOneDay
    <3> QED
      BY <1>1, <1>2, <3>1 DEF DaysHold
  <2>4. ASSUME NEW v \in Clients, work'[v].at \in Writing PROVE OfOneDay(work[v].lists, today)'
    <3>1. CASE v = w
      BY <1>4, <1>6, <3>1 DEF OfOneDay
    <3>2. CASE v # w
      <4>1. OfOneDay(work[v].lists, today)
        BY <1>1, <1>6, <2>4, <3>2 DEF DaysHold
      <4> QED
        BY <1>1, <1>2, <1>6, <2>1, <3>2, <4>1 DEF OfOneDay
    <3> QED
      BY <3>1, <3>2
  <2> QED
    BY <1>1, <1>2, <2>3, <2>4 DEF DaysHold
<1>10. ASSUME ~shared' PROVE KnownHeld'
  <2>1. KnownHeld /\ \A v \in Clients \ {w} : work[v].at = "idle"
    BY <1>1, <1>2, <1>10
  <2>2. known = {} \/ (file.whole /\ Remembers(file.lists))
    BY <2>1 DEF KnownHeld
  <2>3. \A t \in known : Excused(t) => Excused(t)'
    <3>1. \A t \in known : cache = V!Catalog => t \in Loaders
      BY <1>1 DEF CatalogTyped, V!Topics
    <3>2. \A l \in Loaders : lastFailure[l] \in Nat
      BY <1>1 DEF CatalogTyped
    <3> QED
      BY <1>1, <1>2, <3>1, <3>2 DEF Excused
  <2>4. known' = {} \/ (file'.whole /\ Remembers(file.lists)')
    BY <1>2, <2>2, <2>3 DEF Remembers
  <2>5. Remembers(lists)'
    BY <1>2, <1>10
  <2>6. \A v \in Clients : work'[v].at # "idle" => v = w
    BY <1>6, <2>1
  <2>7. \A v \in Clients : work'[v].at # "fetch"
    BY <1>4, <1>6, <2>6
  <2>8. ASSUME NEW v \in Clients, work'[v].at \in Writing PROVE Remembers(work[v].lists)'
    <3>1. v = w
      BY <2>6, <2>8 DEF Writing
    <3> QED
      BY <1>4, <1>6, <2>5, <3>1 DEF Remembers
  <2> QED
    BY <2>4, <2>6, <2>7, <2>8 DEF KnownHeld
<1>11. V!CatalogsAreSound'
  <2>1. /\ answer' = answer /\ cache' = cache /\ answer.asked \in Nat /\ answer.asked <= today
        /\ answer.asked # 0 \/ answer.error => answer.topic \in V!Topics(cache)
    BY <1>1, <1>2 DEF CatalogTyped, CatalogAnswer
  <2>2. V!ListsAreYoung /\ V!KnownStaysKnown /\ V!LoadersComeBack
    BY DEF CatalogInv, V!CatalogsAreSound
  <2>3. ASSUME answer.topic \in Loaders, lastFailure[answer.topic] # 0
        PROVE  /\ lastFailure'[answer.topic] # 0
               /\ answer.asked - lastFailure[answer.topic] <= 1 => answer.asked - lastFailure'[answer.topic] <= 1
    <3>1. lastFailure[answer.topic] \in Nat /\ lastFailure'[answer.topic] \in Nat
      BY <1>1, <2>3 DEF CatalogTyped
    <3> QED
      BY <1>1, <2>1, <2>3, <3>1
  <2>4. V!ListsAreYoung'
    BY <1>2, <2>1, <2>2 DEF V!ListsAreYoung
  <2>5. V!KnownStaysKnown'
    BY <2>1, <2>2, <2>3 DEF V!KnownStaysKnown, V!Topics
  <2>6. V!LoadersComeBack'
    BY <2>1, <2>2, <2>3 DEF V!LoadersComeBack, V!Topics, V!TTL
  <2> QED
    BY <2>4, <2>5, <2>6 DEF V!CatalogsAreSound
<1> QED
  BY <1>8, <1>9, <1>10, <1>11 DEF CatalogInv

LEMMA FetchLoaderKeeps ==
    ASSUME CatalogInv, NEW w \in Clients, V!FetchLoader(w) PROVE CatalogInv'
<1>0. PICK lists :
          lists = [t \in Games \cup Loaders |->
                      IF t = work[w].topic \/ (t \in Games /\ cache \notin PerGame)
                      THEN today ELSE work[w].cached[t]]
  OBVIOUS
<1>1. work[w].at = "fetch" /\ cache # V!Catalog /\ V!Fetched(w, lists) /\ UNCHANGED <<errors, lastFailure>>
  BY <1>0 DEF V!FetchLoader
<1>2. /\ CatalogTyped /\ work[w].cached \in Lists /\ today \in Nat \ {0}
      /\ (~shared => KnownHeld /\ \A v \in Clients \ {w} : work[v].at = "idle")
  BY <1>1, AtWork
<1>3. UNCHANGED <<today, cache, known>>
  BY <1>1 DEF V!Fetched
<1>4. lists \in Lists
  BY <1>0, <1>2 DEF Lists
<1>5. \A t \in Games : lists[t] = IF t = work[w].topic \/ cache \notin PerGame THEN today ELSE work[w].cached[t]
  BY <1>0
<1>6. OfOneDay(lists, today)'
  BY <1>1, <1>3, <1>5 DEF OfOneDay, V!Topics
<1>7. ASSUME ~shared PROVE Remembers(lists)'
  <2>1. Remembers(work[w].cached)
    BY <1>1, <1>2, <1>7 DEF KnownHeld
  <2>2. known \subseteq Games
    BY <1>1, <1>2 DEF CatalogTyped, V!Topics
  <2> QED
    BY <1>1, <1>2, <1>3, <1>5, <2>1, <2>2 DEF Remembers, Excused, V!Unknown
<1> QED
  BY <1>1, <1>2, <1>4, <1>6, <1>7, FetchedKeeps DEF CatalogTyped

LEMMA FetchCatalogKeeps ==
    ASSUME CatalogInv, NEW w \in Clients, V!FetchCatalog(w) PROVE CatalogInv'
<1>1. PICK failing \in SUBSET Loaders :
          /\ V!Fetched(w, [t \in Games \cup Loaders |-> IF t \in Loaders \ failing THEN today ELSE V!Unknown])
          /\ lastFailure' = [l \in Loaders |-> IF l \in failing THEN today ELSE lastFailure[l]]
  BY DEF V!FetchCatalog
<1>0. PICK lists : lists = [t \in Games \cup Loaders |-> IF t \in Loaders \ failing THEN today ELSE V!Unknown]
  OBVIOUS
<1>2. work[w].at = "fetch" /\ cache = V!Catalog /\ V!Fetched(w, lists)
  BY <1>0, <1>1 DEF V!FetchCatalog
<1>3. CatalogTyped /\ today \in Nat \ {0}
  BY <1>2, AtWork
<1>4. UNCHANGED <<today, cache, known>>
  BY <1>1 DEF V!Fetched
<1>5. lists \in Lists
  BY <1>0, <1>3 DEF Lists, V!Unknown
<1>6. \A l \in Loaders : lists[l] = IF l \in failing THEN V!Unknown ELSE today
  BY <1>0
<1>7. /\ lastFailure' \in [Loaders -> Nat]
      /\ \A l \in Loaders : lastFailure'[l] = IF l \in failing THEN today ELSE lastFailure[l]
  BY <1>1, <1>3 DEF CatalogTyped
<1>8. OfOneDay(lists, today)'
  BY <1>2, <1>3, <1>4, <1>6, <1>7 DEF OfOneDay, V!Topics, V!Unknown
<1>9. Remembers(lists)'
  <2>1. known \subseteq Loaders
    BY <1>2, <1>3 DEF CatalogTyped, V!Topics
  <2> QED
    BY <1>2, <1>3, <1>4, <1>6, <1>7, <2>1 DEF Remembers, Excused, V!Unknown
<1> QED
  BY <1>2, <1>5, <1>7, <1>8, <1>9, FetchedKeeps

\* A worker that was answered, or died, is idle again.
LEMMA IdleIsWork ==
    CatalogInv => V!Idle \in CatalogWork /\ V!Idle.at = "idle"
<1>1. V!Nothing \in Lists
  BY DEF V!Nothing, Lists, V!Unknown
<1> QED
  BY <1>1 DEF V!Idle, CatalogWork, CatalogPlaces, Topic

LEMMA FetchFailsKeeps ==
    ASSUME CatalogInv, NEW w \in Clients, V!FetchFails(w) PROVE CatalogInv'
<1>1. /\ work[w].at = "fetch" /\ work' = [work EXCEPT ![w] = V!Idle]
      /\ V!Answer(work[w].topic, work[w].cached[work[w].topic], TRUE)
      /\ UNCHANGED <<today, cache, file, known, shared, lastFailure>>
  BY DEF V!FetchFails
<1>2. /\ CatalogTyped /\ DaysHold /\ work[w].topic \in V!Topics(cache) /\ work[w].topic \in Games \cup Loaders
      /\ work[w].cached \in Lists
      /\ (~shared => KnownHeld /\ \A v \in Clients \ {w} : work[v].at = "idle")
  BY <1>1, AtWork
<1>3. work[w].cached[work[w].topic] \in Nat
  BY <1>2 DEF Lists
<1>4. ASSUME work[w].cached[work[w].topic] = V!Unknown, work[w].topic \in known, ~shared
      PROVE  Excused(work[w].topic)
  <2>1. Remembers(work[w].cached)
    BY <1>1, <1>2, <1>4 DEF KnownHeld
  <2> QED
    BY <1>4, <2>1 DEF Remembers
<1>5. /\ V!CatalogsAreSound' /\ answer' \in CatalogAnswer /\ answer'.asked <= today'
      /\ answer'.topic \in V!Topics(cache')
  BY <1>1, <1>2, <1>3, <1>4, AnswerIsSound
<1>6. /\ work' \in [Clients -> CatalogWork] /\ work'[w].at = "idle"
      /\ \A v \in Clients \ {w} : work'[v] = work[v]
      /\ \A v \in Clients : work'[v].at # "idle" => work'[v].topic \in V!Topics(cache')
  BY <1>1, IdleIsWork, WorkGoes
<1>7. CatalogTyped'
  BY <1>1, <1>2, <1>5, <1>6 DEF CatalogTyped
<1>8. DaysHold'
  BY <1>1, <1>2, <1>6 DEF DaysHold, OfOneDay, Writing
<1>9. ASSUME ~shared' PROVE KnownHeld'
  <2>1. KnownHeld /\ \A v \in Clients : work[v].at # "write" /\ work'[v].at = "idle"
    BY <1>1, <1>2, <1>6, <1>9
  <2>2. known = {} \/ (file.whole /\ Remembers(file.lists))
    BY <2>1 DEF KnownHeld
  <2>3. known' = {} \/ (file'.whole /\ Remembers(file.lists)')
    BY <1>1, <2>2 DEF Remembers, Excused
  <2> QED
    BY <2>1, <2>3 DEF KnownHeld, Writing
<1> QED
  BY <1>5, <1>7, <1>8, <1>9 DEF CatalogInv

LEMMA CreateKeeps ==
    ASSUME CatalogInv, NEW w \in Clients, V!Create(w) PROVE CatalogInv'
<1>1. /\ work[w].at = "create" /\ work' = [work EXCEPT ![w].at = "write"]
      /\ file' = [file EXCEPT !.whole = FALSE]
      /\ UNCHANGED <<today, cache, answer, errors, known, shared, lastFailure>>
  BY DEF V!Create
<1>2. /\ CatalogTyped /\ DaysHold /\ work[w].topic \in V!Topics(cache) /\ work[w] \in CatalogWork
      /\ (~shared => KnownHeld /\ \A v \in Clients \ {w} : work[v].at = "idle")
  BY <1>1, AtWork
<1>3. PICK job : job = [work[w] EXCEPT !.at = "write"]
  OBVIOUS
<1>4. job \in CatalogWork /\ job.at = "write" /\ job.topic = work[w].topic /\ job.lists = work[w].lists
  BY <1>2, <1>3 DEF CatalogWork, CatalogPlaces, Writing
<1>5. work' = [work EXCEPT ![w] = job]
  BY <1>1, <1>3
<1>6. /\ work' \in [Clients -> CatalogWork] /\ work'[w] = job
      /\ \A v \in Clients \ {w} : work'[v] = work[v]
      /\ \A v \in Clients : work'[v].at # "idle" => work'[v].topic \in V!Topics(cache')
  BY <1>1, <1>2, <1>4, <1>5, WorkGoes
<1>7. /\ file' \in [whole : BOOLEAN, at : Nat, lists : Lists] /\ file'.at = file.at /\ file'.lists = file.lists
      /\ ~file'.whole
  BY <1>1, <1>2 DEF CatalogTyped
<1>8. CatalogTyped'
  BY <1>1, <1>2, <1>6, <1>7 DEF CatalogTyped
<1>9. DaysHold'
  <2>1. (OfOneDay(file.lists, file.at) \/ file.lists = V!Nothing) /\ file.at <= today
    BY <1>2 DEF DaysHold
  <2>2. OfOneDay(file.lists, file.at)' \/ (~file'.whole /\ file'.lists = V!Nothing)
    BY <1>1, <1>7, <2>1 DEF OfOneDay
  <2>3. \A v \in Clients : work'[v].at \in Writing =>
            work[v].at \in Writing /\ work'[v].lists = work[v].lists
    BY <1>1, <1>4, <1>6 DEF Writing
  <2>4. \A v \in Clients : work'[v].at \in Writing => OfOneDay(work[v].lists, today)'
    BY <1>1, <1>2, <2>3 DEF DaysHold, OfOneDay
  <2> QED
    BY <1>1, <1>7, <2>1, <2>2, <2>4 DEF DaysHold
<1>10. ASSUME ~shared' PROVE KnownHeld'
  <2>1. KnownHeld /\ \A v \in Clients : work'[v].at # "idle" => v = w
    BY <1>1, <1>2, <1>6, <1>10
  <2>2. Remembers(work[w].lists)
    BY <1>1, <2>1 DEF KnownHeld, Writing
  <2>3. \A v \in Clients : work'[v].at \in Writing => Remembers(work[v].lists)'
    BY <1>1, <1>4, <1>6, <2>1, <2>2 DEF Remembers, Excused, Writing
  <2>4. \A v \in Clients : work'[v].at # "fetch"
    BY <1>4, <2>1, <1>6
  <2> QED
    BY <1>4, <1>6, <2>1, <2>3, <2>4 DEF KnownHeld
<1>11. V!CatalogsAreSound'
  BY <1>1 DEF CatalogInv, V!CatalogsAreSound, V!ListsAreYoung, V!KnownStaysKnown, V!LoadersComeBack
<1> QED
  BY <1>8, <1>9, <1>10, <1>11 DEF CatalogInv

LEMMA WriteKeeps ==
    ASSUME CatalogInv, NEW w \in Clients, V!Write(w) PROVE CatalogInv'
<1> DEFINE clash == \E v \in Clients \ {w} : work[v].at = "write"
<1>1. PICK whole \in (IF clash THEN BOOLEAN ELSE {TRUE}) :
          file' = [whole |-> whole, at |-> today, lists |-> work[w].lists]
  BY DEF V!Write
<1>2. /\ work[w].at = "write" /\ work' = [work EXCEPT ![w] = V!Idle]
      /\ known' = known \cup {t \in V!Topics(cache) : work[w].lists[t] # V!Unknown}
      /\ V!Answer(work[w].topic, work[w].lists[work[w].topic], FALSE)
      /\ UNCHANGED <<today, cache, errors, shared, lastFailure>>
  BY DEF V!Write
<1>3. /\ CatalogTyped /\ DaysHold /\ work[w].topic \in V!Topics(cache) /\ work[w].topic \in Games \cup Loaders
      /\ work[w].lists \in Lists /\ today \in Nat \ {0}
      /\ (~shared => KnownHeld /\ \A v \in Clients \ {w} : work[v].at = "idle")
  BY <1>2, AtWork
<1>4. whole \in BOOLEAN /\ (~shared => whole)
  BY <1>1, <1>3
<1>5. /\ file'.whole = whole /\ file'.at = today /\ file'.lists = work[w].lists
      /\ file' \in [whole : BOOLEAN, at : Nat, lists : Lists]
  BY <1>1, <1>3, <1>4
<1>6. OfOneDay(work[w].lists, today)
  BY <1>2, <1>3 DEF DaysHold, Writing
<1>7. /\ V!CatalogsAreSound' /\ answer' \in CatalogAnswer /\ answer'.asked <= today'
      /\ answer'.topic \in V!Topics(cache')
  <2>1. work[w].lists[work[w].topic] \in Nat
    BY <1>3 DEF Lists
  <2>2. work[w].lists[work[w].topic] # V!Unknown /\ cache \notin PerGame
          => today - work[w].lists[work[w].topic] <= 1
    BY <1>3, <1>6 DEF OfOneDay
  <2>3. cache = V!Catalog /\ work[w].lists[work[w].topic] = V!Unknown
          => lastFailure[work[w].topic] # 0 /\ today - lastFailure[work[w].topic] <= 1
    BY <1>3, <1>6 DEF OfOneDay, V!Topics, CatalogTyped
  <2> QED
    BY <1>2, <1>3, <2>1, <2>2, <2>3, AnswerIsSound
<1>8. /\ work' \in [Clients -> CatalogWork] /\ work'[w].at = "idle"
      /\ \A v \in Clients \ {w} : work'[v] = work[v]
      /\ \A v \in Clients : work'[v].at # "idle" => work'[v].topic \in V!Topics(cache')
  BY <1>2, IdleIsWork, WorkGoes
<1>9. CatalogTyped'
  <2>1. known' \in SUBSET V!Topics(cache')
    BY <1>2, <1>3 DEF CatalogTyped
  <2> QED
    BY <1>2, <1>3, <1>5, <1>7, <1>8, <2>1 DEF CatalogTyped
<1>10. DaysHold'
  <2>1. OfOneDay(file.lists, file.at)'
    BY <1>2, <1>5, <1>6 DEF OfOneDay
  <2>2. \A v \in Clients : work'[v].at \in Writing => OfOneDay(work[v].lists, today)'
    BY <1>2, <1>3, <1>8 DEF DaysHold, OfOneDay, Writing
  <2> QED
    BY <1>2, <1>3, <1>5, <2>1, <2>2 DEF DaysHold
<1>11. ASSUME ~shared' PROVE KnownHeld'
  <2>1. KnownHeld /\ whole /\ \A v \in Clients : work'[v].at = "idle"
    BY <1>2, <1>3, <1>4, <1>8, <1>11
  <2>2. Remembers(work[w].lists)
    BY <1>2, <2>1 DEF KnownHeld, Writing
  <2>3. Remembers(file.lists)'
    BY <1>2, <1>5, <2>2 DEF Remembers, Excused
  <2> QED
    BY <1>5, <2>1, <2>3 DEF KnownHeld, Writing
<1> QED
  BY <1>7, <1>9, <1>10, <1>11 DEF CatalogInv

\* The launcher dies, or a day passes, while nothing is told.
LEMMA NobodyAnswers ==
    ASSUME answer' = V!NoAnswer
    PROVE  /\ V!CatalogsAreSound' /\ answer' \in CatalogAnswer /\ answer'.asked = 0 /\ ~answer'.error
<1>1. /\ V!NoAnswer \in CatalogAnswer /\ V!NoAnswer.asked = 0 /\ V!NoAnswer.day = V!Unknown /\ ~V!NoAnswer.error
  BY DEF Topic, V!NoAnswer, CatalogAnswer, V!Unknown
<1> QED
  BY <1>1 DEF V!CatalogsAreSound, V!ListsAreYoung, V!KnownStaysKnown, V!LoadersComeBack

LEMMA CatalogCrashKeeps ==
    ASSUME CatalogInv, V!Crash PROVE CatalogInv'
<1>1. /\ shared' = (shared \/ \E w \in Clients : work[w].at = "write")
      /\ work' = [w \in Clients |-> V!Idle] /\ answer' = V!NoAnswer
      /\ UNCHANGED <<today, cache, file, known, lastFailure>>
  BY DEF V!Crash
<1>2. CatalogTyped /\ DaysHold /\ today \in Nat
  BY DEF CatalogInv, CatalogTyped
<1>3. work' \in [Clients -> CatalogWork] /\ \A v \in Clients : work'[v].at = "idle"
  BY <1>1, IdleIsWork
<1>4. V!CatalogsAreSound' /\ answer' \in CatalogAnswer /\ answer'.asked = 0 /\ ~answer'.error
  BY <1>1, NobodyAnswers
<1>5. CatalogTyped'
  BY <1>1, <1>2, <1>3, <1>4 DEF CatalogTyped
<1>6. DaysHold'
  BY <1>1, <1>2, <1>3 DEF DaysHold, OfOneDay, Writing
<1>7. ASSUME ~shared' PROVE KnownHeld'
  <2>1. known = {} \/ (file.whole /\ Remembers(file.lists))
    BY <1>1, <1>7 DEF CatalogInv, KnownHeld
  <2>2. known' = {} \/ (file'.whole /\ Remembers(file.lists)')
    BY <1>1, <2>1 DEF Remembers, Excused
  <2> QED
    BY <1>3, <2>2 DEF KnownHeld, Writing
<1> QED
  BY <1>4, <1>5, <1>6, <1>7 DEF CatalogInv

LEMMA NextDayKeeps ==
    ASSUME CatalogInv, V!NextDay PROVE CatalogInv'
<1>1. /\ today' = today + 1 /\ answer' = V!NoAnswer /\ \A w \in Clients : work[w].at = "idle"
      /\ UNCHANGED <<cache, file, work, known, shared, lastFailure>>
  BY DEF V!NextDay
<1>2. CatalogTyped /\ DaysHold /\ today \in Nat /\ today' \in Nat \ {0} /\ file.at \in Nat
  BY <1>1 DEF CatalogInv, CatalogTyped
<1>3. V!CatalogsAreSound' /\ answer' \in CatalogAnswer /\ answer'.asked = 0 /\ ~answer'.error
  BY <1>1, NobodyAnswers
<1>4. CatalogTyped'
  <2>1. \A l \in Loaders : lastFailure'[l] <= today'
    BY <1>1, <1>2 DEF CatalogTyped
  <2> QED
    BY <1>1, <1>2, <1>3, <2>1 DEF CatalogTyped
<1>5. DaysHold'
  BY <1>1, <1>2 DEF DaysHold, OfOneDay, Writing
<1>6. ASSUME ~shared' PROVE KnownHeld'
  BY <1>1, <1>6 DEF CatalogInv, KnownHeld, Remembers, Excused, Writing
<1> QED
  BY <1>3, <1>4, <1>5, <1>6 DEF CatalogInv

LEMMA CatalogStep == CatalogInv /\ [V!Next]_catalogVars => CatalogInv'
<1> SUFFICES ASSUME CatalogInv, [V!Next]_catalogVars PROVE CatalogInv'
  OBVIOUS
<1>1. ASSUME UNCHANGED catalogVars PROVE CatalogInv'
  BY <1>1 DEF catalogVars, CatalogInv, CatalogTyped, DaysHold, OfOneDay, KnownHeld, Remembers, Excused,
              V!CatalogsAreSound, V!ListsAreYoung, V!KnownStaysKnown, V!LoadersComeBack
<1>2. ASSUME NEW w \in Clients, NEW topic \in V!Topics(cache), NEW force \in BOOLEAN, V!Ask(w, topic, force)
      PROVE  CatalogInv'
  BY <1>2, AskKeeps
<1>3. ASSUME NEW w \in Clients, V!FetchLoader(w) \/ V!FetchCatalog(w) \/ V!FetchFails(w) \/ V!Create(w) \/ V!Write(w)
      PROVE  CatalogInv'
  BY <1>3, FetchLoaderKeeps, FetchCatalogKeeps, FetchFailsKeeps, CreateKeeps, WriteKeeps
<1> QED
  BY <1>1, <1>2, <1>3, CatalogCrashKeeps, NextDayKeeps DEF V!Next

\* Whatever else a behaviour is about leaves the lists alone.
LEMMA OnlyCatalogs == [MCNext]_allVars => [V!Next]_catalogVars
<1> SUFFICES ASSUME [MCNext]_allVars PROVE V!Next \/ UNCHANGED catalogVars
  OBVIOUS
<1>1. CASE UNCHANGED allVars
  BY <1>1 DEF allVars, launchVars
<1>2. CASE MCNext
  BY <1>2 DEF MCNext, Registry, Pace, launchVars
<1> QED
  BY <1>1, <1>2

(* A list of versions that is told is at most a day old unless a server failed or a loader  *)
(* is asked game by game; what a file has told is told again when servers fail, unless two   *)
(* workers or a crash met at the file; and a loader that was left out of the catalog because *)
(* its server failed is missing for a day.                                                   *)
THEOREM CatalogsStaySound == MCSpec => []CatalogsAreSound
<1>1. MCInit => CatalogInv
  BY CatalogStart DEF MCInit
<1>2. CatalogInv /\ [MCNext]_allVars => CatalogInv'
  BY CatalogStep, OnlyCatalogs
<1>3. CatalogInv => CatalogsAreSound
  BY DEF CatalogInv, CatalogsAreSound
<1>4. MCSpec => MCInit /\ [][MCNext]_allVars
  BY PTL DEF MCSpec
<1> QED
  BY <1>1, <1>2, <1>3, <1>4, PTL

-----------------------------------------------------------------------------
(* The move of an instance (MoveInstance).                                  *)

MovePhases == {"idle", "asked", "copying", "complete", "failed"}
MovesTyped ==
    /\ home \in Roots /\ folders \in [Roots -> [Contents -> Nat \cup {None, Torn}]]
    /\ saved \in [Contents -> Nat] /\ raced \in SUBSET Contents
    /\ writer \in Roots \cup {None}
    /\ moving \in [phase : MovePhases, from : Roots \cup {None}, to : Roots \cup {None},
                   waiting : SUBSET Contents, copying : SUBSET Contents, failed : SUBSET Contents]

\* A move in flight is of the record's folder; what nothing raced is not copied onto itself.
FromHome ==
    moving.phase # "idle" => /\ moving.from = home /\ moving.to \in Roots
                             /\ Contents \subseteq raced \/ moving.to # home

\* Only a move that copies has files left to copy, and one that is complete has failed at none.
LeftToCopy ==
    /\ moving.phase # "copying" => moving.waiting = {} /\ moving.copying = {}
    /\ moving.phase \in {"asked", "complete"} => moving.failed = {}

\* What was scanned and is neither left to copy nor failed is in the new folder as last saved.
CopiedIsSaved ==
    moving.phase \in {"copying", "complete"} =>
        \A f \in Contents \ (raced \cup moving.waiting \cup moving.copying \cup moving.failed) :
            folders[moving.to][f] = saved[f]

MovesInv == MovesTyped /\ FromHome /\ LeftToCopy /\ CopiedIsSaved /\ M!MovesAreWhole

LEMMA MovesStart == M!Init => MovesInv
<1> SUFFICES ASSUME M!Init PROVE MovesInv
  OBVIOUS
<1>1. home \in Roots
  BY LaunchAssumption DEF M!Init
<1>2. moving = M!Idle /\ raced = {} /\ writer = None /\ saved = [f \in Contents |-> 0]
      /\ folders = [p \in Roots |-> [f \in Contents |-> IF p = home THEN 0 ELSE None]]
  BY DEF M!Init
<1>3. MovesTyped
  BY <1>1, <1>2 DEF MovesTyped, M!Idle, MovePhases
<1>4. FromHome /\ LeftToCopy /\ CopiedIsSaved
  BY <1>2 DEF FromHome, LeftToCopy, CopiedIsSaved, M!Idle
<1>5. M!MovesAreWhole
  BY <1>1, <1>2 DEF M!MovesAreWhole
<1> QED
  BY <1>3, <1>4, <1>5 DEF MovesInv

\* Putting a file somewhere touches that file, there.
LEMMA PutEffect ==
    ASSUME MovesTyped, NEW p \in Roots, NEW f \in Contents, NEW c \in Nat \cup {None, Torn}, M!Put(p, f, c)
    PROVE  /\ folders' \in [Roots -> [Contents -> Nat \cup {None, Torn}]]
           /\ folders'[p][f] = c
           /\ \A q \in Roots, g \in Contents : q # p \/ g # f => folders'[q][g] = folders[q][g]
BY DEF MovesTyped, M!Put

LEMMA MovesStep == MovesInv /\ [M!Next]_moveVars => MovesInv'
<1> SUFFICES ASSUME MovesInv, [M!Next]_moveVars PROVE MovesInv'
  OBVIOUS
<1> USE DEF MovesInv
<1>0. ASSUME UNCHANGED moveVars PROVE MovesInv'
  BY <1>0 DEF moveVars, MovesTyped, FromHome, LeftToCopy, CopiedIsSaved, M!MovesAreWhole
<1>1. ASSUME NEW to \in Roots, M!Start(to) PROVE MovesInv'
  <2>1. \A f \in Contents : folders[to][f] = None
    BY <1>1 DEF M!Start, M!IsEmpty
  <2>2. /\ moving' = [M!Idle EXCEPT !.phase = "asked", !.from = home, !.to = to]
        /\ UNCHANGED <<home, folders, saved, writer, raced>>
    BY <1>1 DEF M!Start
  <2>3. Contents \subseteq raced \/ to # home
    BY <2>1, NoneAssumption DEF M!MovesAreWhole, MovesTyped
  <2> QED
    BY <2>2, <2>3 DEF MovesTyped, FromHome, LeftToCopy, CopiedIsSaved, M!MovesAreWhole, M!Idle, MovePhases
<1>2. ASSUME M!CannotStart PROVE MovesInv'
  BY <1>2 DEF M!CannotStart, MovesTyped, FromHome, LeftToCopy, CopiedIsSaved, M!MovesAreWhole, MovePhases
<1>3. ASSUME NEW u \in SUBSET Contents, M!Scan(u) PROVE MovesInv'
  <2> DEFINE there == {f \in Contents \ u : folders[moving.from][f] # None}
  <2>1. /\ moving.phase = "asked" /\ raced' = raced \cup u
        /\ moving' = [moving EXCEPT !.phase = IF there = {} THEN "complete" ELSE "copying", !.waiting = there]
        /\ UNCHANGED <<home, folders, saved, writer>>
    BY <1>3 DEF M!Scan
  <2>2. \A f \in Contents \ raced' : f \in there
    BY <2>1, NoneAssumption DEF M!MovesAreWhole, MovesTyped, FromHome
  <2>3. MovesTyped' /\ FromHome' /\ M!MovesAreWhole'
    BY <2>1 DEF MovesTyped, FromHome, M!MovesAreWhole, MovePhases
  <2>4. CASE there = {}
    <3>1. Contents \ raced' = {} /\ moving'.phase = "complete" /\ moving'.waiting = {} /\ moving'.copying = moving.copying
          /\ moving'.failed = moving.failed
      BY <2>1, <2>2, <2>4 DEF MovesTyped
    <3> QED
      BY <2>1, <2>3, <2>4, <3>1 DEF LeftToCopy, CopiedIsSaved
  <2>5. CASE there # {}
    <3>1. moving'.phase = "copying" /\ moving'.waiting = there
      BY <2>1, <2>5 DEF MovesTyped
    <3> QED
      BY <2>2, <2>3, <3>1 DEF LeftToCopy, CopiedIsSaved
  <2> QED
    BY <2>4, <2>5
<1>4. ASSUME NEW f \in Contents, M!BeginCopy(f) PROVE MovesInv'
  <2>1. /\ f \in moving.waiting /\ M!Put(moving.to, f, Torn)
        /\ moving' = [moving EXCEPT !.waiting = @ \ {f}, !.copying = @ \cup {f}]
        /\ UNCHANGED <<home, saved, writer, raced>>
    BY <1>4 DEF M!BeginCopy
  <2>2. moving.phase = "copying" /\ moving.to \in Roots
    BY <2>1 DEF LeftToCopy, FromHome
  <2>3. /\ folders' \in [Roots -> [Contents -> Nat \cup {None, Torn}]]
        /\ \A q \in Roots, g \in Contents : q # moving.to \/ g # f => folders'[q][g] = folders[q][g]
    BY <2>1, <2>2, PutEffect
  <2>4. MovesTyped' /\ FromHome' /\ LeftToCopy'
    BY <2>1, <2>2, <2>3 DEF MovesTyped, FromHome, LeftToCopy, MovePhases
  <2>5. CopiedIsSaved'
    BY <2>1, <2>2, <2>3 DEF CopiedIsSaved, MovesTyped
  <2>6. M!MovesAreWhole'
    BY <2>1, <2>2, <2>3 DEF M!MovesAreWhole, FromHome, MovesTyped
  <2> QED
    BY <2>4, <2>5, <2>6
<1>5. ASSUME NEW f \in Contents, M!EndCopy(f) PROVE MovesInv'
  <2>1. /\ f \in moving.copying /\ M!Put(moving.to, f, folders[moving.from][f])
        /\ moving' = [moving EXCEPT !.copying = @ \ {f}]
        /\ UNCHANGED <<home, saved, writer, raced>>
    BY <1>5 DEF M!EndCopy
  <2>2. moving.phase = "copying" /\ moving.to \in Roots /\ moving.from = home
    BY <2>1 DEF LeftToCopy, FromHome
  <2>3. /\ folders' \in [Roots -> [Contents -> Nat \cup {None, Torn}]]
        /\ folders'[moving.to][f] = folders[home][f]
        /\ \A q \in Roots, g \in Contents : q # moving.to \/ g # f => folders'[q][g] = folders[q][g]
    <3>1. folders[moving.from][f] \in Nat \cup {None, Torn}
      BY <2>2 DEF MovesTyped
    <3> QED
      BY <2>1, <2>2, <3>1, PutEffect
  <2>4. MovesTyped' /\ FromHome' /\ LeftToCopy'
    BY <2>1, <2>2, <2>3 DEF MovesTyped, FromHome, LeftToCopy, MovePhases
  <2>5. CopiedIsSaved'
    BY <2>1, <2>2, <2>3 DEF CopiedIsSaved, MovesTyped, M!MovesAreWhole
  <2>6. M!MovesAreWhole'
    BY <2>1, <2>2, <2>3 DEF M!MovesAreWhole, FromHome, MovesTyped
  <2> QED
    BY <2>4, <2>5, <2>6
<1>6. ASSUME NEW f \in Contents, M!FailCopy(f) PROVE MovesInv'
  <2>1. /\ f \in moving.waiting \cup moving.copying
        /\ moving' = [moving EXCEPT !.waiting = @ \ {f}, !.copying = @ \ {f}, !.failed = @ \cup {f}]
        /\ UNCHANGED <<home, folders, saved, writer, raced>>
    BY <1>6 DEF M!FailCopy
  <2>2. moving.phase = "copying"
    BY <2>1 DEF LeftToCopy
  <2> QED
    BY <2>1, <2>2 DEF MovesTyped, FromHome, LeftToCopy, CopiedIsSaved, M!MovesAreWhole, MovePhases
<1>7. ASSUME NEW f \in Contents, M!Save(f) PROVE MovesInv'
  <2>1. /\ writer # None /\ saved' = [saved EXCEPT ![f] = @ + 1] /\ M!Put(writer, f, saved[f] + 1)
        /\ raced' = IF writer = home /\ moving.phase = "idle" THEN raced ELSE raced \cup {f}
        /\ UNCHANGED <<home, moving, writer>>
    BY <1>7 DEF M!Save
  <2>2. /\ writer \in Roots /\ saved[f] + 1 \in Nat /\ saved' \in [Contents -> Nat] /\ saved'[f] = saved[f] + 1
        /\ \A g \in Contents : g # f => saved'[g] = saved[g]
    BY <2>1 DEF MovesTyped
  <2>3. /\ folders' \in [Roots -> [Contents -> Nat \cup {None, Torn}]]
        /\ folders'[writer][f] = saved[f] + 1
        /\ \A q \in Roots, g \in Contents : q # writer \/ g # f => folders'[q][g] = folders[q][g]
    BY <2>1, <2>2, PutEffect
  <2>4. MovesTyped' /\ FromHome' /\ LeftToCopy'
    BY <2>1, <2>2, <2>3 DEF MovesTyped, FromHome, LeftToCopy
  <2>5. CopiedIsSaved'
    <3>1. CASE moving.phase = "idle"
      BY <2>1, <3>1 DEF CopiedIsSaved
    <3>2. CASE moving.phase # "idle"
      <4>1. raced' = raced \cup {f} /\ moving.to \in Roots
        BY <2>1, <3>2 DEF FromHome
      <4> QED
        BY <2>1, <2>2, <2>3, <4>1 DEF CopiedIsSaved
    <3> QED
      BY <3>1, <3>2
  <2>6. M!MovesAreWhole'
    <3>1. CASE writer = home
      BY <2>1, <2>2, <2>3, <3>1 DEF M!MovesAreWhole, MovesTyped
    <3>2. CASE writer # home
      BY <2>1, <2>2, <2>3, <3>2 DEF M!MovesAreWhole, MovesTyped
    <3> QED
      BY <3>1, <3>2
  <2> QED
    BY <2>4, <2>5, <2>6
<1>8. ASSUME M!Collect PROVE MovesInv'
  <2>1. /\ moving.phase = "copying" /\ moving.waiting = {} /\ moving.copying = {}
        /\ moving' = [moving EXCEPT !.phase = M!Outcome]
        /\ UNCHANGED <<home, folders, saved, writer, raced>>
    BY <1>8 DEF M!Collect
  <2>2. M!Outcome \in {"complete", "failed"} /\ (M!Outcome = "complete" => moving.failed = {})
    BY DEF M!Outcome
  <2>3. /\ moving'.phase = M!Outcome /\ moving'.waiting = {} /\ moving'.copying = {} /\ moving'.failed = moving.failed
        /\ moving'.from = moving.from /\ moving'.to = moving.to
    BY <2>1 DEF MovesTyped
  <2>4. MovesTyped'
    BY <2>1, <2>2 DEF MovesTyped, MovePhases
  <2> QED
    BY <2>1, <2>2, <2>3, <2>4 DEF FromHome, LeftToCopy, CopiedIsSaved, M!MovesAreWhole
<1>9. ASSUME M!Poll PROVE MovesInv'
  <2>1. /\ moving.phase \in {"complete", "failed"} /\ moving' = M!Idle
        /\ home' = IF moving.phase = "complete" THEN moving.to ELSE home
        /\ UNCHANGED <<folders, saved, writer, raced>>
    BY <1>9 DEF M!Poll
  <2>2. MovesTyped' /\ FromHome' /\ LeftToCopy' /\ CopiedIsSaved'
    BY <2>1 DEF MovesTyped, FromHome, LeftToCopy, CopiedIsSaved, M!Idle, MovePhases
  <2>3. M!MovesAreWhole'
    <3>1. CASE moving.phase = "complete"
      BY <2>1, <3>1 DEF M!MovesAreWhole, CopiedIsSaved, LeftToCopy
    <3>2. CASE moving.phase = "failed"
      BY <2>1, <3>2 DEF M!MovesAreWhole
    <3> QED
      BY <2>1, <3>1, <3>2
  <2> QED
    BY <2>2, <2>3
<1>10. ASSUME M!ShownLongEnough \/ M!Dismiss \/ M!StartGame \/ M!StopGame PROVE MovesInv'
  <2>1. UNCHANGED <<home, folders, saved, moving, raced>> /\ writer' \in {writer, None, home}
    BY <1>10 DEF M!ShownLongEnough, M!Dismiss, M!StartGame, M!StopGame
  <2> QED
    BY <2>1 DEF MovesTyped, FromHome, LeftToCopy, CopiedIsSaved, M!MovesAreWhole
<1> QED
  BY <1>0, <1>1, <1>2, <1>3, <1>4, <1>5, <1>6, <1>7, <1>8, <1>9, <1>10 DEF M!Next

-----------------------------------------------------------------------------
(* Searching for packs, and a pack's page (Discover).                        *)

SearchTyped ==
    /\ query \in Queries /\ found_page \in Nat /\ found_page >= 1
    /\ searching \in [query : Queries, page : Nat] \cup {None}
    /\ searching # None => searching.page >= 1

PagesOf(q, last) == {S!Request(q, p) : p \in 1 .. last}

\* A search in flight is of what the fields say, and for a first page or for the one that
\* follows what is shown.
OneSearch ==
    (searching # None /\ ~mixed) =>
        /\ searching.query = query
        /\ searching.page # 1 => searching.page = found_page + 1 /\ found = PagesOf(query, found_page)

SearchInv == SearchTyped /\ OneSearch /\ S!ResultsAreOfOneSearch

LEMMA SearchStart == S!SearchInit => SearchInv
<1> SUFFICES ASSUME S!SearchInit PROVE SearchInv
  OBVIOUS
<1>1. query \in Queries /\ found = {} /\ found_page = 1 /\ searching = None /\ mixed = FALSE
  BY DEF S!SearchInit
<1> QED
  BY <1>1 DEF SearchInv, SearchTyped, OneSearch, S!ResultsAreOfOneSearch

LEMMA PagesGrow ==
    ASSUME NEW q, NEW n \in Nat, n >= 1
    PROVE  PagesOf(q, n) \cup {S!Request(q, n + 1)} = PagesOf(q, n + 1)
<1>1. 1 .. n + 1 = (1 .. n) \cup {n + 1}
  OBVIOUS
<1> QED
  BY <1>1 DEF PagesOf

LEMMA FirstPage == ASSUME NEW q PROVE PagesOf(q, 1) = {S!Request(q, 1)}
<1>1. 1 .. 1 = {1}
  OBVIOUS
<1> QED
  BY <1>1 DEF PagesOf

LEMMA SearchStep == SearchInv /\ [S!SearchNext]_searchVars => SearchInv'
<1> SUFFICES ASSUME SearchInv, [S!SearchNext]_searchVars PROVE SearchInv'
  OBVIOUS
<1> USE DEF SearchInv
<1>0. ASSUME UNCHANGED <<query, found, found_page, searching, mixed>> PROVE SearchInv'
  BY <1>0 DEF SearchTyped, OneSearch, S!ResultsAreOfOneSearch
<1>1. ASSUME S!Search PROVE SearchInv'
  <2>1. PICK q \in Queries : /\ query' = q /\ S!RequestSearch(q, TRUE)
                             /\ mixed' = (searching # None /\ (mixed \/ searching.query # q))
    BY <1>1 DEF S!Search
  <2>2. CASE searching # None
    <3>1. UNCHANGED <<found, found_page, searching>>
      BY <2>1, <2>2 DEF S!RequestSearch
    <3>2. ~mixed' => ~mixed /\ query' = query
      BY <2>1, <2>2 DEF OneSearch, SearchTyped
    <3> QED
      BY <2>1, <2>2, <3>1, <3>2 DEF SearchTyped, OneSearch, S!ResultsAreOfOneSearch
  <2>3. CASE searching = None
    <3>0. PICK r : r = S!Request(q, 1)
      OBVIOUS
    <3>1. r = [query |-> q, page |-> 1] /\ r \in [query : Queries, page : Nat] /\ r.query = q /\ r.page = 1
      BY <3>0 DEF S!Request
    <3>9. r = S!CurrentRequest(q, TRUE)
      BY <3>0 DEF S!CurrentRequest
    <3>2. CASE \E k \in stored : k.of = r
      <4>1. found' = {r} /\ found_page' = 1 /\ searching' = None
        <5>1. S!ShowReplaced(r) /\ UNCHANGED searching
          BY <2>1, <2>3, <3>9, <3>2 DEF S!RequestSearch, S!Show
        <5> QED
          BY <2>3, <3>1, <5>1 DEF S!ShowReplaced
      <4>2. found' = PagesOf(query', found_page')
        BY <2>1, <3>0, <4>1, FirstPage
      <4> QED
        BY <2>1, <4>1, <4>2 DEF SearchTyped, OneSearch, S!ResultsAreOfOneSearch, PagesOf
    <3>3. CASE ~\E k \in stored : k.of = r
      <4>1. searching' = r /\ found_page' = 1
        BY <2>1, <2>3, <3>3, <3>9 DEF S!RequestSearch
      <4>2. searching' \in [query : Queries, page : Nat] /\ searching'.query = query' /\ searching'.page = 1
            /\ searching' # None
        <5>1. query' = q
          BY <2>1
        <5> QED
          BY <3>1, <4>1, <5>1, NoneAssumption
      <4>3. mixed' = FALSE
        BY <2>1, <2>3
      <4> QED
        BY <2>1, <4>1, <4>2, <4>3 DEF SearchTyped, OneSearch, S!ResultsAreOfOneSearch
    <3> QED
      BY <3>2, <3>3
  <2> QED
    BY <2>2, <2>3
<1>2. ASSUME S!Type PROVE SearchInv'
  <2>1. query' \in Queries /\ mixed' = TRUE /\ UNCHANGED <<found, found_page, searching>>
    BY <1>2 DEF S!Type
  <2> QED
    BY <2>1 DEF SearchTyped, OneSearch, S!ResultsAreOfOneSearch
<1>3. ASSUME S!LoadMore PROVE SearchInv'
  <2>1. found # {} /\ searching = None /\ S!RequestSearch(query, FALSE) /\ UNCHANGED <<query, mixed>>
    BY <1>3 DEF S!LoadMore
  <2>0. PICK r : r = S!Request(query, found_page + 1)
    OBVIOUS
  <2>2. /\ r = S!CurrentRequest(query, FALSE)
        /\ r = S!Request(query, found_page + 1) /\ r.page = found_page + 1 /\ r.query = query
        /\ r \in [query : Queries, page : Nat]
    BY <2>0 DEF S!CurrentRequest, S!Request, SearchTyped
  <2>6. r.page = found_page + 1 /\ r.query = query /\ r \in [query : Queries, page : Nat] /\ r # None
    BY <2>2, NoneAssumption
  <2>3. ~mixed => found = PagesOf(query, found_page)
    BY <2>1 DEF S!ResultsAreOfOneSearch, PagesOf
  <2>4. CASE \E k \in stored : k.of = r
    <3>1. found' = found \cup {r} /\ searching' = None
          /\ found_page' = IF r.page > found_page THEN r.page ELSE found_page
      <4>1. S!ShowAppended(r) /\ UNCHANGED searching
        BY <2>1, <2>2, <2>4 DEF S!RequestSearch, S!Show
      <4> QED
        BY <2>1, <4>1 DEF S!ShowAppended
    <3>2. found_page' = found_page + 1
      BY <2>2, <3>1 DEF SearchTyped
    <3>3. ~mixed' => found' = PagesOf(query', found_page')
      BY <2>1, <2>2, <2>3, <3>1, <3>2, PagesGrow DEF SearchTyped
    <3> QED
      BY <2>1, <3>1, <3>2, <3>3 DEF SearchTyped, OneSearch, S!ResultsAreOfOneSearch, PagesOf
  <2>5. CASE ~\E k \in stored : k.of = r
    <3>1. searching' = r /\ found' = found /\ found_page' = found_page
      BY <2>1, <2>2, <2>5 DEF S!RequestSearch
    <3>2. searching' \in [query : Queries, page : Nat] /\ searching' # None
      BY <2>2, <3>1, NoneAssumption DEF SearchTyped
    <3> QED
      BY <2>1, <2>3, <2>6, <3>1, <3>2 DEF SearchTyped, OneSearch, S!ResultsAreOfOneSearch
  <2> QED
    BY <2>4, <2>5
<1>4. ASSUME S!PollSearch PROVE SearchInv'
  <2>1. /\ searching # None /\ searching' = None /\ UNCHANGED <<query, mixed>>
        /\ IF searching.page <= 1 THEN S!ShowReplaced(searching) ELSE S!ShowAppended(searching)
    BY <1>4 DEF S!PollSearch, S!Show
  <2>2. /\ searching \in [query : Queries, page : Nat] /\ searching.page >= 1 /\ searching.page \in Nat
        /\ searching = S!Request(searching.query, searching.page)
    BY <2>1 DEF SearchTyped, S!Request
  <2>3. CASE searching.page <= 1
    <3>1. searching.page = 1 /\ found' = {searching} /\ found_page' = 1
      BY <2>1, <2>2, <2>3 DEF S!ShowReplaced
    <3>2. ~mixed' => found' = PagesOf(query', found_page')
      BY <2>1, <2>2, <3>1, FirstPage DEF OneSearch
    <3> QED
      BY <2>1, <3>1, <3>2 DEF SearchTyped, OneSearch, S!ResultsAreOfOneSearch, PagesOf
  <2>4. CASE ~(searching.page <= 1)
    <3>1. found' = found \cup {searching} /\ found_page' = IF searching.page > found_page THEN searching.page ELSE found_page
      BY <2>1, <2>4 DEF S!ShowAppended
    <3>2. found_page' \in Nat /\ found_page' >= 1
      BY <2>2, <3>1 DEF SearchTyped
    <3>3. ASSUME ~mixed' PROVE found' = PagesOf(query', found_page')
      <4>1. searching.query = query /\ searching.page = found_page + 1 /\ found = PagesOf(query, found_page)
        BY <2>1, <2>2, <2>4, <3>3 DEF OneSearch
      <4>2. found_page' = found_page + 1 /\ searching = S!Request(query, found_page + 1)
        BY <2>2, <3>1, <4>1 DEF SearchTyped
      <4> QED
        BY <2>1, <3>1, <4>1, <4>2, PagesGrow DEF SearchTyped
    <3> QED
      BY <2>1, <3>2, <3>3 DEF SearchTyped, OneSearch, S!ResultsAreOfOneSearch, PagesOf
  <2> QED
    BY <2>3, <2>4
<1>5. CASE UNCHANGED searchVars
  BY <1>0, <1>5 DEF searchVars
<1> QED
  BY <1>1, <1>2, <1>3, <1>4, <1>5 DEF S!SearchNext

-----------------------------------------------------------------------------
Fetch == [n : Nat, serial : Nat, pack : Packs, side : {"modrinth", "curseforge"}]
DetailTyped ==
    /\ detail \in [opened : Packs \cup {None}, side : S!Sides, versions : Fetch \cup {None}, serial : Nat,
                   listing : BOOLEAN]
    /\ fetches \in SUBSET Fetch /\ fetched \in Nat

\* A fetch that counts carries no number above the page's, and one with the page's number
\* is of its pack and its provider.
FetchesAreCounted ==
    /\ \A f \in fetches \ renumbered : f.serial <= detail.serial
    /\ \A f \in fetches \ (renumbered \cup crossed) :
          f.serial = detail.serial => f.pack = detail.opened /\ f.side = detail.side

DetailInv == DetailTyped /\ FetchesAreCounted /\ S!VersionsAreThePacks

LEMMA DetailStart == S!DetailInit => DetailInv
BY DEF S!DetailInit, DetailInv, DetailTyped, FetchesAreCounted, S!VersionsAreThePacks, S!Sides

LEMMA DetailStep == DetailInv /\ [S!DetailNext]_searchVars => DetailInv'
<1> SUFFICES ASSUME DetailInv, [S!DetailNext]_searchVars PROVE DetailInv'
  OBVIOUS
<1> USE DEF DetailInv
<1>0. ASSUME UNCHANGED <<detail, fetches, fetched, renumbered, crossed>> PROVE DetailInv'
  BY <1>0 DEF DetailTyped, FetchesAreCounted, S!VersionsAreThePacks
<1>1. ASSUME S!OpenDetail PROVE DetailInv'
  <2>1. PICK p \in Packs :
          IF p = detail.opened THEN UNCHANGED S!detailVars
          ELSE /\ detail' = [opened |-> p, side |-> "modrinth", versions |-> None, serial |-> 0, listing |-> FALSE]
               /\ renumbered' = renumbered \cup fetches
               /\ UNCHANGED <<fetches, fetched, crossed>>
    BY <1>1 DEF S!OpenDetail
  <2>2. CASE p = detail.opened
    BY <1>0, <2>1, <2>2 DEF S!detailVars
  <2>3. CASE p # detail.opened
    <3>1. /\ detail' = [opened |-> p, side |-> "modrinth", versions |-> None, serial |-> 0, listing |-> FALSE]
          /\ renumbered' = renumbered \cup fetches /\ UNCHANGED <<fetches, fetched, crossed>>
      BY <2>1, <2>3
    <3>2. detail' \in [opened : Packs \cup {None}, side : S!Sides, versions : Fetch \cup {None}, serial : Nat,
                       listing : BOOLEAN] /\ detail'.versions = None
      BY <3>1 DEF S!Sides
    <3> QED
      BY <3>1, <3>2 DEF DetailTyped, FetchesAreCounted, S!VersionsAreThePacks
  <2> QED
    BY <2>2, <2>3
<1>2. ASSUME S!SelectSource PROVE DetailInv'
  <2>1. PICK other \in S!Sides \ {detail.side} :
          detail' = [detail EXCEPT !.side = other, !.versions = None, !.listing = FALSE]
    BY <1>2 DEF S!SelectSource
  <2>2. crossed' = {f \in fetches : f.serial = detail.serial} /\ UNCHANGED <<fetches, fetched, renumbered>>
    BY <1>2 DEF S!SelectSource
  <2>3. DetailTyped' /\ detail'.serial = detail.serial /\ detail'.versions = None
    BY <2>1, <2>2 DEF DetailTyped, S!Sides
  <2> QED
    BY <2>2, <2>3 DEF FetchesAreCounted, S!VersionsAreThePacks
<1>3. ASSUME S!DetailTick PROVE DetailInv'
  <2>1. detail.opened # None /\ renumbered' = renumbered
    BY <1>3 DEF S!DetailTick
  <2>2. PICK arrived \in SUBSET fetches, empty \in BOOLEAN :
          /\ S!Cardinality(arrived) <= 1
          /\ LET polled == IF arrived = {} THEN detail
                           ELSE S!Answered(detail, CHOOSE f \in arrived : TRUE, empty)
                 asks == ~polled.listing /\ polled.versions = None
             IN IF ~asks THEN detail' = polled /\ fetches' = fetches \ arrived /\ UNCHANGED <<fetched, crossed>>
                ELSE /\ fetched < MaxFetches /\ fetched' = fetched + 1 /\ crossed' = {}
                     /\ detail' = [polled EXCEPT !.listing = TRUE, !.serial = @ + 1]
                     /\ fetches' = (fetches \ arrived) \cup
                            {[n |-> fetched + 1, serial |-> polled.serial + 1, pack |-> polled.opened,
                              side |-> polled.side]}
    BY <1>3 DEF S!DetailTick
  <2>3. PICK d : d = IF arrived = {} THEN detail ELSE S!Answered(detail, CHOOSE f \in arrived : TRUE, empty)
    OBVIOUS
  <2>4. \/ d = detail
        \/ \E f \in fetches : f.serial = detail.serial
                              /\ d = [detail EXCEPT !.listing = FALSE, !.versions = IF empty THEN None ELSE f]
    BY <2>3 DEF S!Answered, S!Stale
  <2>5. /\ d \in [opened : Packs \cup {None}, side : S!Sides, versions : Fetch \cup {None}, serial : Nat,
                  listing : BOOLEAN]
        /\ d.serial = detail.serial /\ d.opened = detail.opened /\ d.side = detail.side
        /\ d.versions \in {None, detail.versions} \cup {f \in fetches : f.serial = detail.serial}
    <3>1. CASE d = detail
      BY <3>1 DEF DetailTyped
    <3>2. ASSUME NEW f \in fetches, f.serial = detail.serial,
                 d = [detail EXCEPT !.listing = FALSE, !.versions = IF empty THEN None ELSE f]
          PROVE  /\ d \in [opened : Packs \cup {None}, side : S!Sides, versions : Fetch \cup {None}, serial : Nat,
                           listing : BOOLEAN]
                 /\ d.serial = detail.serial /\ d.opened = detail.opened /\ d.side = detail.side
                 /\ d.versions \in {None, detail.versions} \cup {g \in fetches : g.serial = detail.serial}
      <4>1. PICK v : v = IF empty THEN None ELSE f
        OBVIOUS
      <4>2. v \in Fetch \cup {None} /\ v \in {None} \cup {g \in fetches : g.serial = detail.serial}
        BY <3>2, <4>1 DEF DetailTyped
      <4>3. d = [detail EXCEPT !.listing = FALSE, !.versions = v]
        BY <3>2, <4>1
      <4> QED
        BY <4>2, <4>3 DEF DetailTyped
    <3> QED
      BY <2>4, <3>1, <3>2
  <2>6. CASE ~(~d.listing /\ d.versions = None)
    <3>1. detail' = d /\ fetches' = fetches \ arrived /\ UNCHANGED <<fetched, crossed>>
      BY <2>2, <2>3, <2>6
    <3> QED
      BY <2>1, <2>5, <3>1 DEF DetailTyped, FetchesAreCounted, S!VersionsAreThePacks
  <2>7. CASE ~d.listing /\ d.versions = None
    <3>1. PICK new : new = [n |-> fetched + 1, serial |-> d.serial + 1, pack |-> d.opened, side |-> d.side]
      OBVIOUS
    <3>2. /\ fetched' = fetched + 1 /\ crossed' = {}
          /\ detail' = [d EXCEPT !.listing = TRUE, !.serial = @ + 1]
          /\ fetches' = (fetches \ arrived) \cup {new}
      BY <2>2, <2>3, <2>7, <3>1
    <3>3. /\ new \in Fetch /\ new.serial = detail.serial + 1 /\ new.pack = detail.opened /\ new.side = detail.side
      BY <2>1, <2>5, <3>1 DEF Fetch, DetailTyped, S!Sides
    <3>0. d.versions = None
      BY <2>7
    <3>4. /\ detail'.serial = detail.serial + 1 /\ detail'.opened = detail.opened /\ detail'.side = detail.side
          /\ detail'.versions = None
          /\ detail' \in [opened : Packs \cup {None}, side : S!Sides, versions : Fetch \cup {None}, serial : Nat,
                          listing : BOOLEAN]
      <4>1. d.serial + 1 \in Nat
        BY <2>5
      <4>2. detail' = [opened |-> d.opened, side |-> d.side, versions |-> d.versions, serial |-> d.serial + 1,
                       listing |-> TRUE]
        BY <2>5, <3>2
      <4> QED
        BY <2>5, <3>0, <4>1, <4>2
    <3>5. DetailTyped'
      BY <3>2, <3>3, <3>4 DEF DetailTyped
    <3>6. \A f \in fetches \ renumbered : f.serial # detail.serial + 1
      BY DEF FetchesAreCounted, DetailTyped, Fetch
    <3>7. FetchesAreCounted'
      <4>1. ASSUME NEW f \in fetches' \ renumbered' PROVE f.serial <= detail'.serial
        BY <2>1, <3>2, <3>3, <3>4 DEF FetchesAreCounted, DetailTyped, Fetch
      <4>2. ASSUME NEW f \in fetches' \ renumbered', f.serial = detail'.serial
            PROVE  f.pack = detail'.opened /\ f.side = detail'.side
        BY <2>1, <3>2, <3>3, <3>4, <3>6, <4>2
      <4> QED
        BY <4>1, <4>2 DEF FetchesAreCounted
    <3> QED
      BY <3>4, <3>5, <3>7 DEF S!VersionsAreThePacks
  <2> QED
    BY <2>6, <2>7
<1>4. CASE UNCHANGED searchVars
  BY <1>0, <1>4 DEF searchVars
<1> QED
  BY <1>1, <1>2, <1>3, <1>4 DEF S!DetailNext

-----------------------------------------------------------------------------
(* The home screen (HomeScreen).                                             *)

\* Entries as collapse makes them: what stands under a key has that key, and no two have one.
Grouped(es) ==
    /\ \A e \in es : e.key[1] \in Things
    /\ \A e \in es : \A t \in e.targets : t = <<t[1], t[2]>> /\ H!GroupKey(t[1], t[2]) = e.key
    /\ \A d, e \in es : d.key = e.key => d = e
Starred(e, stars) == e.favorite = (\E t \in e.targets : t \in stars)

ScansHold ==
    /\ scan_number \in Nat
    /\ \A s \in scanning :
         /\ s = [number |-> s.number, homes |-> s.homes, stars |-> s.stars, done |-> s.done, found |-> s.found]
         /\ s.number \in Nat /\ s.number <= scan_number
         /\ Grouped(s.found) /\ \A e \in s.found : Starred(e, s.stars)
    /\ Grouped(entries)

\* Unless a scan was or is still asked for, the latest asked for the favourites there are, and
\* once it was read they are what is shown.
StarsFollow ==
    (~flag /\ ~unseen) =>
        /\ \A s \in scanning : s.number = scan_number => s.stars = favorites
        /\ ~waiting => \A e \in entries : Starred(e, favorites)

Read == {answered[i] : i \in DOMAIN answered}

\* A question and its answer are one of their address, which counts as being asked.
QuestionsHold ==
    /\ numbers \in [Things -> Nat] /\ answered \in Seq(Things \X Nat) /\ pings \in SUBSET (Things \X Nat)
    /\ \A p \in pings \cup Read : p[2] <= numbers[p[1]]
    /\ pings \cap Read = {}
    /\ \A p \in pings \cup Read : p[1] \notin again => p[1] \in flying
    /\ \A p, q \in pings \cup Read : p[1] = q[1] /\ p[1] \notin again => p = q
    /\ DOMAIN snapshots \subseteq H!Listed(entries)

HomeInv == ScansHold /\ StarsFollow /\ QuestionsHold

LEMMA HomeStart == H!Init => HomeInv
<1> SUFFICES ASSUME H!Init PROVE HomeInv
  OBVIOUS
<1>1. scanning = {} /\ scan_number = 0 /\ entries = {}
  BY DEF H!Init
<1>2. pings = {} /\ answered = <<>> /\ snapshots = [a \in {} |-> 0] /\ numbers = [a \in Things |-> 0]
  BY DEF H!Init
<1>3. ScansHold
  BY <1>1 DEF ScansHold, Grouped
<1>4. StarsFollow
  BY <1>1 DEF StarsFollow
<1>5. Read = {} /\ DOMAIN snapshots = {}
  BY <1>2 DEF Read
<1>6. QuestionsHold
  BY <1>2, <1>5 DEF QuestionsHold
<1> QED
  BY <1>3, <1>4, <1>6 DEF HomeInv

LEMMA CollapseGroups ==
    ASSUME NEW homes, NEW targets \in SUBSET (homes \X Things), NEW stars
    PROVE  Grouped(H!Collapse(targets, stars)) /\ \A e \in H!Collapse(targets, stars) : Starred(e, stars)
<1> DEFINE key(t) == H!GroupKey(t[1], t[2])
           of(k) == [key |-> k, targets |-> {t \in targets : key(t) = k},
                     favorite |-> \E t \in targets : key(t) = k /\ t \in stars]
<1>1. H!Collapse(targets, stars) = {of(k) : k \in {key(t) : t \in targets}}
  BY DEF H!Collapse
<1>2. \A t \in targets : t = <<t[1], t[2]>> /\ t[2] \in Things /\ key(t)[1] = t[2]
  BY DEF H!GroupKey
<1>3. \A k : of(k).key = k /\ of(k).targets = {t \in targets : key(t) = k}
             /\ of(k).favorite = (\E t \in targets : key(t) = k /\ t \in stars)
  OBVIOUS
<1> HIDE DEF of
<1>4. Grouped(H!Collapse(targets, stars))
  BY <1>1, <1>2, <1>3 DEF Grouped
<1>5. ASSUME NEW t \in targets PROVE Starred(of(key(t)), stars)
  <2>1. (\E u \in targets : key(u) = key(t) /\ u \in stars) <=> (\E u \in of(key(t)).targets : u \in stars)
    BY <1>3
  <2> QED
    BY <2>1, <1>3 DEF Starred
<1> QED
  BY <1>1, <1>4, <1>5

\* What the checked properties say follows.
LEMMA HomeInvIsRight == HomeInv => H!HomeIsRight
<1> SUFFICES ASSUME HomeInv PROVE H!HomeIsRight
  OBVIOUS
<1>1. H!OneEntryEach
  <2>1. ASSUME NEW e \in entries, NEW t \in e.targets, NEW u \in e.targets
        PROVE  t[2] = u[2] /\ (tab = "worlds" /\ t # u => t[2] \in joint)
    <3>1. t = <<t[1], t[2]>> /\ u = <<u[1], u[2]>> /\ H!GroupKey(t[1], t[2]) = H!GroupKey(u[1], u[2])
      BY DEF HomeInv, ScansHold, Grouped
    <3> QED
      BY <3>1 DEF H!GroupKey
  <2>2. ASSUME NEW d \in entries, NEW e \in entries, d # e PROVE d.targets \cap e.targets = {}
    BY <2>2 DEF HomeInv, ScansHold, Grouped
  <2> QED
    BY <2>1, <2>2 DEF H!OneEntryEach
<1>2. H!StarsAreTheStores
  BY DEF HomeInv, StarsFollow, Starred, H!StarsAreTheStores
<1>3. H!OneQuestionEach
  <2>1. H!Range(answered) = Read
    BY DEF H!Range, Read
  <2>2. ASSUME NEW a \in Things \ again
        PROVE  H!Cardinality({p \in pings : p[1] = a} \cup {p \in H!Range(answered) : p[1] = a}) <= 1
    <3>1. PICK Q : Q = {p \in pings : p[1] = a} \cup {p \in H!Range(answered) : p[1] = a}
      OBVIOUS
    <3>2. \A p, q \in Q : p = q
      BY <2>1, <3>1 DEF HomeInv, QuestionsHold
    <3>3. Q = {} \/ \E p : Q = {p}
      BY <3>2
    <3>4. Cardinality(Q) <= 1
      <4>1. CASE Q = {}
        BY <4>1, FS_EmptySet
      <4>2. ASSUME NEW p, Q = {p} PROVE Cardinality(Q) <= 1
        BY <4>2, FS_Singleton
      <4> QED
        BY <3>3, <4>1, <4>2
    <3>5. H!Cardinality(Q) = Cardinality(Q)
      BY DEF H!Cardinality, Cardinality
    <3> QED
      BY <3>1, <3>4, <3>5
  <2> QED
    BY <2>2 DEF H!OneQuestionEach, HomeInv, QuestionsHold
<1> QED
  BY <1>1, <1>2, <1>3 DEF H!HomeIsRight

LEMMA HomeUnchanged == HomeInv /\ UNCHANGED homeVars => HomeInv'
<1> SUFFICES ASSUME HomeInv, UNCHANGED homeVars PROVE HomeInv'
  OBVIOUS
<1>1. UNCHANGED <<tab, joint, favorites, scanning, scan_number, waiting, flag, entries, unseen, flying, pings, answered,
                  snapshots, again, numbers>>
  BY DEF homeVars
<1>2. ScansHold'
  BY <1>1 DEF HomeInv, ScansHold, Grouped, H!GroupKey, Starred
<1>3. StarsFollow'
  BY <1>1 DEF HomeInv, StarsFollow, Starred
<1>4. QuestionsHold'
  BY <1>1 DEF HomeInv, QuestionsHold, Read, H!Listed
<1> QED
  BY <1>2, <1>3, <1>4 DEF HomeInv

\* Only the games', the user's and the store's state changes.
LEMMA OutsideKeeps ==
    ASSUME HomeInv, H!Rewrite \/ H!DeleteInstance PROVE HomeInv'
<1>1. UNCHANGED <<tab, joint, favorites, scanning, scan_number, waiting, flag, entries, unseen, flying, pings, answered,
                  snapshots, again, numbers>>
  BY DEF H!Rewrite, H!DeleteInstance, H!scanVars, H!pingVars
<1>2. ScansHold'
  BY <1>1 DEF HomeInv, ScansHold, Grouped, H!GroupKey, Starred
<1>3. StarsFollow'
  BY <1>1 DEF HomeInv, StarsFollow, Starred
<1>4. QuestionsHold'
  BY <1>1 DEF HomeInv, QuestionsHold, Read, H!Listed
<1> QED
  BY <1>2, <1>3, <1>4 DEF HomeInv

LEMMA ToggleKeeps ==
    ASSUME HomeInv, NEW e \in entries, H!Toggle(e) PROVE HomeInv'
<1>1. flag' = TRUE /\ UNCHANGED <<tab, joint, scanning, scan_number, waiting, entries, unseen, flying, pings, answered,
                                  snapshots, again, numbers>>
  BY DEF H!Toggle, H!pingVars
<1>2. ScansHold'
  BY <1>1 DEF HomeInv, ScansHold, Grouped, H!GroupKey, Starred
<1>3. StarsFollow'
  BY <1>1 DEF StarsFollow
<1>4. QuestionsHold'
  BY <1>1 DEF HomeInv, QuestionsHold, Read, H!Listed
<1> QED
  BY <1>2, <1>3, <1>4 DEF HomeInv

LEMMA RunScanKeeps ==
    ASSUME HomeInv, NEW s \in scanning, H!RunScan(s) PROVE HomeInv'
<1>1. PICK targets : targets = {t \in s.homes \X Things : t[2] \in onDisk[t[1]]}
  OBVIOUS
<1>2. PICK c : c = H!Collapse(targets, s.stars)
  OBVIOUS
<1>3. /\ scanning' = (scanning \ {s}) \cup {[s EXCEPT !.done = TRUE, !.found = c]}
      /\ UNCHANGED <<tab, joint, favorites, scan_number, waiting, flag, entries, unseen, flying, pings, answered,
                     snapshots, again, numbers>>
  BY <1>1, <1>2 DEF H!RunScan, H!storeVars, H!pingVars
<1>4. Grouped(c) /\ \A e \in c : Starred(e, s.stars)
  <2>1. targets \in SUBSET (s.homes \X Things)
    BY <1>1
  <2> QED
    BY <1>2, <2>1, CollapseGroups
<1>5. PICK r : r = [s EXCEPT !.done = TRUE, !.found = c]
  OBVIOUS
<1>6. /\ r = [number |-> r.number, homes |-> r.homes, stars |-> r.stars, done |-> r.done, found |-> r.found]
      /\ r.number = s.number /\ r.stars = s.stars /\ r.found = c
  <2>1. s = [number |-> s.number, homes |-> s.homes, stars |-> s.stars, done |-> s.done, found |-> s.found]
    BY DEF HomeInv, ScansHold
  <2>2. r = [number |-> s.number, homes |-> s.homes, stars |-> s.stars, done |-> TRUE, found |-> c]
    BY <1>5, <2>1
  <2> QED
    BY <2>2
<1>7. scanning' = (scanning \ {s}) \cup {r} /\ \A es : Grouped(es)' <=> Grouped(es)
  BY <1>3, <1>5 DEF Grouped, H!GroupKey
<1>8. ScansHold'
  <2>1. ASSUME NEW z \in scanning'
        PROVE  /\ z = [number |-> z.number, homes |-> z.homes, stars |-> z.stars, done |-> z.done, found |-> z.found]
               /\ z.number \in Nat /\ z.number <= scan_number'
               /\ Grouped(z.found) /\ \A e \in z.found : Starred(e, z.stars)
    <3>1. CASE z \in scanning
      BY <1>3, <3>1 DEF HomeInv, ScansHold
    <3>2. CASE z = r
      BY <1>3, <1>4, <1>6, <3>2 DEF HomeInv, ScansHold
    <3> QED
      BY <1>7, <3>1, <3>2
  <2>2. \A es : Grouped(es) => /\ \A e \in es : e.key[1] \in Things
                               /\ \A e \in es : \A t \in e.targets : t = <<t[1], t[2]>> /\ H!GroupKey(t[1], t[2])' = e.key
                               /\ \A d, e \in es : d.key = e.key => d = e
    BY <1>3 DEF Grouped, H!GroupKey
  <2>3. scan_number' \in Nat /\ Grouped(entries) /\ entries' = entries
    BY <1>3 DEF HomeInv, ScansHold
  <2>4. \A es : Grouped(es) => Grouped(es)'
    BY <2>2 DEF Grouped
  <2> QED
    BY <2>1, <2>3, <2>4 DEF ScansHold, Starred
<1>9. StarsFollow'
  BY <1>3, <1>6, <1>7 DEF HomeInv, StarsFollow, Starred
<1>10. QuestionsHold'
  BY <1>3 DEF HomeInv, QuestionsHold, Read, H!Listed
<1> QED
  BY <1>8, <1>9, <1>10 DEF HomeInv

LEMMA AnswerKeeps ==
    ASSUME HomeInv, NEW p \in pings, H!Answer(p) PROVE HomeInv'
<1>1. /\ pings' = pings \ {p} /\ answered' = Append(answered, p)
      /\ UNCHANGED <<tab, joint, favorites, scanning, scan_number, waiting, flag, entries, unseen, flying, snapshots,
                     again, numbers>>
  BY DEF H!Answer, H!storeVars, H!scanVars
<1>2. ScansHold'
  BY <1>1 DEF HomeInv, ScansHold, Grouped, H!GroupKey, Starred
<1>3. StarsFollow'
  BY <1>1 DEF HomeInv, StarsFollow, Starred
<1>4. answered' \in Seq(Things \X Nat) /\ Read' = Read \cup {p}
  <2>1. p \in Things \X Nat /\ answered \in Seq(Things \X Nat)
    BY DEF HomeInv, QuestionsHold
  <2>2. /\ answered' \in Seq(Things \X Nat) /\ Len(answered') = Len(answered) + 1
        /\ \A i \in 1 .. Len(answered) : answered'[i] = answered[i]
        /\ answered'[Len(answered) + 1] = p
    BY <1>1, <2>1
  <2>3. DOMAIN answered = 1 .. Len(answered) /\ DOMAIN answered' = 1 .. Len(answered) + 1 /\ Len(answered) \in Nat
    BY <2>1, <2>2
  <2>4. Read' \subseteq Read \cup {p}
    BY <2>2, <2>3 DEF Read
  <2>5. Read \subseteq Read' /\ p \in Read'
    BY <2>2, <2>3 DEF Read
  <2> QED
    BY <2>2, <2>4, <2>5
<1>5. QuestionsHold'
  BY <1>1, <1>4 DEF HomeInv, QuestionsHold, H!Listed
<1> QED
  BY <1>2, <1>3, <1>5 DEF HomeInv

\* What a frame reads, and asks.
TickFacts(latest, here, stirred, still, starts, stale, kept, now) ==
    /\ latest = {s \in scanning : s.done /\ s.number = scan_number}
    /\ latest = {} => here = entries
    /\ latest # {} => \E s \in latest : here = s.found
    /\ still <=> waiting /\ latest = {}
    /\ starts <=> (stirred \/ flag) /\ ~still
    /\ entries' = here /\ (flag' <=> flag /\ stirred)
    /\ unseen' <=> (unseen \/ (flag /\ ~stirred)) /\ ~starts
    /\ waiting' <=> still \/ starts
    /\ ~starts => scanning' = scanning \ {s \in scanning : s.done} /\ scan_number' = scan_number
    /\ starts => scanning' = (scanning \ {s \in scanning : s.done})
                                \cup {[number |-> scan_number + 1, homes |-> installed, stars |-> favorites,
                                       done |-> FALSE, found |-> {}]}
                 /\ scan_number' = scan_number + 1
    /\ answered' = <<>> /\ DOMAIN snapshots' \subseteq H!Listed(here)
    /\ again' = again \cup (flying \ H!Listed(here))
    /\ kept = (flying \ {p[1] : p \in Read}) \cap H!Listed(here)
    /\ stale \subseteq H!Listed(here) /\ now \subseteq stale \ kept
    /\ flying' = kept \cup now
    /\ numbers' = [a \in Things |-> IF a \in now THEN numbers[a] + 1 ELSE numbers[a]]
    /\ pings' = pings \cup {<<a, numbers[a] + 1>> : a \in now}

LEMMA TickEffect ==
    ASSUME NEW due, NEW aged, H!Tick(due, aged)
    PROVE  \E latest, here, stirred, still, starts, stale, kept, now :
             TickFacts(latest, here, stirred, still, starts, stale, kept, now)
<1> DEFINE latest == {s \in scanning : s.done /\ s.number = scan_number}
           here == IF latest = {} THEN entries ELSE (CHOOSE s \in latest : TRUE).found
           count == IF latest = {} THEN counted ELSE H!Cardinality((CHOOSE s \in latest : TRUE).homes)
           still == waiting /\ latest = {}
           stirred == due \/ count # H!Cardinality(installed)
           starts == (stirred \/ flag) /\ ~still
           read == {answered[i][1] : i \in DOMAIN answered}
           last(a) == answered[CHOOSE i \in DOMAIN answered : answered[i][1] = a /\
                                \A j \in DOMAIN answered : answered[j][1] = a => j <= i][2]
           heard == [a \in (DOMAIN snapshots \cup read) \cap H!Listed(here) |-> IF a \in read THEN last(a) ELSE snapshots[a]]
           kept == (flying \ read) \cap H!Listed(here)
           stale == {a \in H!Listed(here) : a \notin DOMAIN heard \/ a \in aged}
           some == {s \in SUBSET H!Unasked(stale, kept) : \/ H!Cardinality(s) = PerScan
                                                          \/ s = H!Unasked(stale, kept) /\ H!Cardinality(s) < PerScan}
<1>1. /\ entries' = here /\ flag' = (flag /\ stirred)
      /\ scanning' = (scanning \ {s \in scanning : s.done})
                       \cup (IF starts THEN {[number |-> scan_number + 1, homes |-> installed, stars |-> favorites,
                                              done |-> FALSE, found |-> {}]} ELSE {})
      /\ scan_number' = IF starts THEN scan_number + 1 ELSE scan_number
      /\ waiting' = (still \/ starts)
      /\ unseen' = ((unseen \/ (flag /\ ~stirred)) /\ ~starts)
      /\ answered' = <<>> /\ snapshots' = heard
      /\ again' = again \cup (flying \ H!Listed(here))
  BY DEF H!Tick
<1>2. \E now \in some :
         /\ flying' = kept \cup now
         /\ numbers' = [a \in Things |-> IF a \in now THEN numbers[a] + 1 ELSE numbers[a]]
         /\ pings' = pings \cup {<<a, numbers[a] + 1>> : a \in now}
  BY DEF H!Tick
<1>3. PICK now \in some :
         /\ flying' = kept \cup now
         /\ numbers' = [a \in Things |-> IF a \in now THEN numbers[a] + 1 ELSE numbers[a]]
         /\ pings' = pings \cup {<<a, numbers[a] + 1>> : a \in now}
  BY <1>2
<1>4. now \subseteq stale \ kept
  BY <1>3 DEF H!Unasked
<1>5. read = {p[1] : p \in Read}
  BY DEF Read
<1>6. DOMAIN snapshots' \subseteq H!Listed(here) /\ stale \subseteq H!Listed(here)
  <2>1. DOMAIN snapshots' = (DOMAIN snapshots \cup read) \cap H!Listed(here)
    BY <1>1
  <2> QED
    BY <2>1
<1>7. /\ latest = {} => here = entries
      /\ latest # {} => \E s \in latest : here = s.found
  OBVIOUS
<1> HIDE DEF latest, here, count, still, stirred, starts, read, heard, kept, stale, some
<1>8. /\ entries' = here /\ (flag' <=> flag /\ stirred)
      /\ unseen' <=> (unseen \/ (flag /\ ~stirred)) /\ ~starts
      /\ waiting' <=> still \/ starts
  BY <1>1
<1>9. /\ still <=> waiting /\ latest = {}
      /\ starts <=> (stirred \/ flag) /\ ~still
      /\ latest = {s \in scanning : s.done /\ s.number = scan_number}
      /\ kept = (flying \ {p[1] : p \in Read}) \cap H!Listed(here)
  BY <1>5 DEF still, starts, latest, kept
<1>10. /\ ~starts => scanning' = scanning \ {s \in scanning : s.done} /\ scan_number' = scan_number
       /\ starts => scanning' = (scanning \ {s \in scanning : s.done})
                                   \cup {[number |-> scan_number + 1, homes |-> installed, stars |-> favorites,
                                          done |-> FALSE, found |-> {}]}
                    /\ scan_number' = scan_number + 1
  BY <1>1
<1>11. TickFacts(latest, here, stirred, still, starts, stale, kept, now)
  BY <1>1, <1>3, <1>4, <1>6, <1>7, <1>8, <1>9, <1>10 DEF TickFacts
<1> QED
  BY Zenon, <1>11

LEMMA FrameKeeps == ASSUME HomeInv, H!Frame PROVE HomeInv'
<1>1. UNCHANGED <<tab, joint, installed, favorites>> /\ \E due, aged : H!Tick(due, aged)
  BY DEF H!Frame, H!storeVars
<1>2. PICK latest, here, stirred, still, starts, stale, kept, now :
         TickFacts(latest, here, stirred, still, starts, stale, kept, now)
  BY <1>1, TickEffect
<1>3. /\ latest = {s \in scanning : s.done /\ s.number = scan_number}
      /\ latest = {} => here = entries
      /\ latest # {} => \E s \in latest : here = s.found
      /\ still <=> waiting /\ latest = {}
      /\ starts <=> (stirred \/ flag) /\ ~still
      /\ entries' = here /\ (flag' <=> flag /\ stirred)
      /\ unseen' <=> (unseen \/ (flag /\ ~stirred)) /\ ~starts
      /\ waiting' <=> still \/ starts
      /\ ~starts => scanning' = scanning \ {s \in scanning : s.done} /\ scan_number' = scan_number
  BY <1>2 DEF TickFacts
<1>4. PICK new : new = [number |-> scan_number + 1, homes |-> installed, stars |-> favorites,
                        done |-> FALSE, found |-> {}]
  OBVIOUS
<1>5. starts => scanning' = (scanning \ {s \in scanning : s.done}) \cup {new} /\ scan_number' = scan_number + 1
  BY <1>2, <1>4 DEF TickFacts
<1>6. /\ new = [number |-> new.number, homes |-> new.homes, stars |-> new.stars, done |-> new.done, found |-> new.found]
      /\ new.number = scan_number + 1 /\ new.stars = favorites /\ new.found = {}
  BY <1>4
<1>7. Grouped(here) /\ scan_number \in Nat
  BY <1>3 DEF HomeInv, ScansHold
<1>8. \A es : Grouped(es) => Grouped(es)'
  <2>1. \A a, b : H!GroupKey(a, b)' = H!GroupKey(a, b)
    BY <1>1 DEF H!GroupKey
  <2> QED
    BY <2>1 DEF Grouped
<1>9. ScansHold'
  <2>1. ASSUME NEW z \in scanning'
        PROVE  /\ z = [number |-> z.number, homes |-> z.homes, stars |-> z.stars, done |-> z.done, found |-> z.found]
               /\ z.number \in Nat /\ z.number <= scan_number'
               /\ Grouped(z.found) /\ \A e \in z.found : Starred(e, z.stars)
    <3>1. CASE z \in scanning
      <4>1. z.number <= scan_number /\ scan_number' \in {scan_number, scan_number + 1} /\ z.number \in Nat
        BY <1>3, <1>5, <3>1 DEF HomeInv, ScansHold
      <4> QED
        BY <1>7, <3>1, <4>1 DEF HomeInv, ScansHold
    <3>2. CASE starts /\ z = new
      BY <1>5, <1>6, <1>7, <3>2 DEF Grouped
    <3> QED
      BY <1>3, <1>5, <3>1, <3>2
  <2>2. scan_number' \in Nat
    BY <1>3, <1>5, <1>7
  <2> QED
    BY <1>3, <1>7, <1>8, <2>1, <2>2 DEF ScansHold, Starred
<1>10. StarsFollow'
  <2> SUFFICES ASSUME ~flag', ~unseen'
               PROVE  /\ \A s \in scanning' : s.number = scan_number' => s.stars = favorites
                      /\ ~waiting' => \A e \in entries' : Starred(e, favorites)
    BY <1>1 DEF StarsFollow, Starred
  <2>1. CASE starts
    <3>1. \A s \in scanning : s.number # scan_number + 1
      BY DEF HomeInv, ScansHold
    <3> QED
      BY <1>3, <1>5, <1>6, <2>1, <3>1
  <2>2. CASE ~starts
    <3>1. ~flag /\ ~unseen
      BY <1>3, <2>2
    <3>2. \A s \in scanning : s.number = scan_number => s.stars = favorites
      BY <3>1 DEF HomeInv, StarsFollow
    <3>3. CASE latest = {}
      BY <1>3, <2>2, <3>1, <3>2, <3>3 DEF HomeInv, StarsFollow
    <3>4. CASE latest # {}
      <4>1. PICK s \in latest : here = s.found
        BY <1>3, <3>4
      <4>2. s \in scanning /\ s.stars = favorites
        BY <1>3, <3>2, <4>1
      <4>3. \A e \in here : Starred(e, favorites)
        BY <4>1, <4>2 DEF HomeInv, ScansHold
      <4> QED
        BY <1>3, <2>2, <3>2, <4>3
    <3> QED
      BY <3>3, <3>4
  <2> QED
    BY <2>1, <2>2
<1>11. QuestionsHold'
  <2>1. /\ answered' = <<>> /\ DOMAIN snapshots' \subseteq H!Listed(here)
        /\ again' = again \cup (flying \ H!Listed(here))
        /\ kept = (flying \ {p[1] : p \in Read}) \cap H!Listed(here)
        /\ stale \subseteq H!Listed(here) /\ now \subseteq stale \ kept
        /\ flying' = kept \cup now
        /\ numbers' = [a \in Things |-> IF a \in now THEN numbers[a] + 1 ELSE numbers[a]]
        /\ pings' = pings \cup {<<a, numbers[a] + 1>> : a \in now}
    BY <1>2 DEF TickFacts
  <2>2. H!Listed(here) \subseteq Things /\ H!Listed(entries)' = H!Listed(here)
    BY <1>1, <1>3, <1>7 DEF H!Listed, Grouped
  <2>3. now \subseteq Things /\ \A a \in now : a \notin kept
    BY <2>1, <2>2
  <2>4. Read' = {}
    BY <2>1 DEF Read
  <2>5. numbers' \in [Things -> Nat] /\ \A a \in Things : numbers[a] \in Nat /\ numbers'[a] >= numbers[a]
        /\ \A b \in now : numbers'[b] = numbers[b] + 1
    BY <2>1, <2>3 DEF HomeInv, QuestionsHold
  <2>6. answered' \in Seq(Things \X Nat) /\ pings' \in SUBSET (Things \X Nat)
    BY <2>1, <2>3, <2>5 DEF HomeInv, QuestionsHold
  <2>7. \A p \in pings : p[1] \in Things /\ p[2] \in Nat /\ p[2] <= numbers[p[1]] /\ p \in Things \X Nat
    BY DEF HomeInv, QuestionsHold
  <2>8. ASSUME NEW p \in pings' PROVE p[2] <= numbers'[p[1]]
    <3>1. CASE p \in pings
      BY <2>5, <2>7, <3>1
    <3>2. CASE \E a \in now : p = <<a, numbers[a] + 1>>
      BY <2>3, <2>5, <3>2
    <3> QED
      BY <2>1, <3>1, <3>2
  <2>9. ASSUME NEW p \in pings, p[1] \notin again' PROVE p[1] \in kept
    <3>1. p[1] \in flying /\ p[1] \in H!Listed(here) /\ p[1] \notin again
      BY <2>1, <2>9 DEF HomeInv, QuestionsHold
    <3>2. \A q \in Read : q[1] # p[1]
      BY <3>1 DEF HomeInv, QuestionsHold
    <3> QED
      BY <2>1, <3>1, <3>2
  <2>10. ASSUME NEW p \in pings', p[1] \notin again' PROVE p[1] \in flying'
    BY <2>1, <2>9, <2>10
  <2>11. ASSUME NEW p \in pings', NEW q \in pings', p[1] = q[1], p[1] \notin again' PROVE p = q
    <3>1. CASE p \in pings /\ q \in pings
      BY <2>1, <2>11, <3>1 DEF HomeInv, QuestionsHold
    <3>2. CASE p \notin pings
      <4>1. PICK a \in now : p = <<a, numbers[a] + 1>>
        BY <2>1, <3>2
      <4>2. q \notin pings
        BY <2>3, <2>9, <2>11, <4>1
      <4>3. PICK b \in now : q = <<b, numbers[b] + 1>>
        BY <2>1, <4>2
      <4> QED
        BY <2>11, <4>1, <4>3
    <3>3. CASE q \notin pings
      <4>1. PICK a \in now : q = <<a, numbers[a] + 1>>
        BY <2>1, <3>3
      <4>2. p \notin pings
        BY <2>3, <2>9, <2>11, <4>1
      <4> QED
        BY <3>2, <4>2
    <3> QED
      BY <3>1, <3>2, <3>3
  <2>12. DOMAIN snapshots' \subseteq H!Listed(entries)'
    BY <2>1, <2>2
  <2> QED
    BY <2>4, <2>5, <2>6, <2>8, <2>10, <2>11, <2>12 DEF QuestionsHold
<1> QED
  BY <1>9, <1>10, <1>11 DEF HomeInv

LEMMA HomeStep == HomeInv /\ [H!Next]_homeVars => HomeInv'
BY HomeUnchanged, OutsideKeeps, ToggleKeeps, RunScanKeeps, AnswerKeeps, FrameKeeps DEF H!Next

-----------------------------------------------------------------------------
(* The log of an instance (Galleries).                                       *)

LogAnswer == [number : Nat, log : Logs, written : Nat, text : Nat \cup {None}]
LogTyped ==
    /\ logs \in [Logs -> Nat] /\ \A l \in Logs : logs[l] <= MaxChanges
    /\ shown_text \in [Logs -> Nat]
    /\ DOMAIN listing \subseteq Logs /\ \A l \in DOMAIN listing : listing[l] \in 0 .. MaxChanges
    /\ log_scan # None => /\ DOMAIN log_scan \subseteq Logs
                          /\ \A l \in DOMAIN log_scan : log_scan[l] \in 0 .. MaxChanges
    /\ chosen \in Logs \cup {None} /\ loading.number \in Nat
    /\ answers \in SUBSET LogAnswer

\* An answer is as new as its request, and each has a number of its own; the latest was asked
\* for when the log was no older than what is shown of it.
AnswersFollow ==
    /\ \A l \in Logs : shown_text[l] <= logs[l]
    /\ \A a \in answers : /\ a.number <= loading.number /\ a.written <= logs[a.log]
                          /\ a.text # None => a.written <= a.text /\ a.text <= logs[a.log]
                          /\ a.number = loading.number => shown_text[a.log] <= a.written
    /\ \A a, b \in answers : a.number = b.number => a = b

LinesHold ==
    lines # None => /\ lines.log \in Logs /\ lines.text \in Nat /\ lines.written \in Nat
                    /\ lines.written <= lines.text /\ lines.text = shown_text[lines.log]

LogInv == LogTyped /\ AnswersFollow /\ LinesHold

LEMMA LogInvIsLatest == LogInv => G!LogIsLatest
BY DEF LogInv, LinesHold, G!LogIsLatest, G!Outdated

LEMMA LogStart == G!Init => LogInv
<1> SUFFICES ASSUME G!Init PROVE LogInv
  OBVIOUS
<1>1. /\ logs = [l \in Logs |-> 0] /\ listing = [l \in {} |-> 0] /\ log_scan = None
      /\ chosen = None /\ lines = None /\ answers = {} /\ shown_text = [l \in Logs |-> 0]
      /\ loading = [number |-> 0, log |-> None, written |-> 0, flying |-> FALSE]
  BY DEF G!Init
<1>2. loading.number = 0 /\ DOMAIN listing = {}
  BY <1>1
<1>3. LogTyped
  BY <1>1, <1>2, LaunchAssumption DEF LogTyped
<1> QED
  BY <1>1, <1>3 DEF LogInv, AnswersFollow, LinesHold

\* A set of numbers has a smallest one.
LEMMA SmallestOf ==
    ASSUME NEW few \in SUBSET Nat, few # {}
    PROVE  \E x \in few : \A y \in few : x <= y
<1> DEFINE R == OpToRel(<, Nat)
<1>1. IsWellFoundedOn(R, Nat)
  BY NatLessThanWellFounded, Zenon
<1>2. \A x, y \in Nat : x < y => <<x, y>> \in R
  BY DEF OpToRel
<1> HIDE DEF R
<1>3. PICK x \in few : \A y \in few : ~(<<y, x>> \in R)
  BY <1>1, WFMin, Zenon
<1>4. \A y \in few : ~(y < x)
  BY <1>2, <1>3
<1> QED
  BY <1>4

\* A listing that is not empty has a newest log.
LEMMA NewestIsListed ==
    ASSUME LogTyped, DOMAIN listing # {}
    PROVE  G!Newest \in DOMAIN listing
<1> DEFINE ages == {MaxChanges - listing[l] : l \in DOMAIN listing}
<1>1. ages \in SUBSET Nat /\ ages # {}
  BY LaunchAssumption DEF LogTyped
<1>2. PICK x \in ages : \A y \in ages : x <= y
  BY <1>1, SmallestOf
<1>3. PICK l \in DOMAIN listing : x = MaxChanges - listing[l]
  BY <1>2
<1>4. \A k \in DOMAIN listing : MaxChanges - listing[l] <= MaxChanges - listing[k]
  BY <1>2, <1>3
<1>5. \A k \in DOMAIN listing : listing[k] <= listing[l]
  BY <1>4, LaunchAssumption DEF LogTyped
<1> QED
  BY <1>5 DEF G!Newest

\* A request is of the log as it is now.
LEMMA LoadKeeps ==
    ASSUME LogInv, NEW l \in Logs, G!Load(l), chosen' \in Logs \cup {None},
           UNCHANGED <<logs, listing, log_scan, lines, shown_text>>
    PROVE  LogInv'
<1> USE DEF LogInv
<1>1. PICK a : a = [number |-> loading.number + 1, log |-> l, written |-> logs[l], text |-> None]
  OBVIOUS
<1>2. /\ answers' = answers \cup {a} /\ loading'.number = loading.number + 1
  BY <1>1 DEF G!Load
<1>3. a \in LogAnswer /\ a.number = loading.number + 1 /\ a.log = l /\ a.written = logs[l] /\ a.text = None
  BY <1>1 DEF LogAnswer, LogTyped
<1>4. LogTyped'
  BY <1>2, <1>3 DEF LogTyped
<1>5. AnswersFollow'
  BY <1>2, <1>3 DEF AnswersFollow, LogTyped, LogAnswer
<1> QED
  BY <1>4, <1>5 DEF LinesHold

LEMMA LogStep == LogInv /\ [G!Next]_galleryVars => LogInv'
<1> SUFFICES ASSUME LogInv, [G!Next]_galleryVars PROVE LogInv'
  OBVIOUS
<1> USE DEF LogInv
<1>0. ASSUME UNCHANGED <<logs, listing, log_scan, chosen, lines, loading, answers, shown_text>> PROVE LogInv'
  BY <1>0 DEF LogTyped, AnswersFollow, LinesHold
<1>1. ASSUME NEW l \in Logs, G!WriteLog(l) PROVE LogInv'
  <2>1. /\ logs[l] < MaxChanges /\ logs' = [logs EXCEPT ![l] = @ + 1]
        /\ UNCHANGED <<listing, log_scan, chosen, loading, answers, lines, shown_text>>
    BY <1>1 DEF G!WriteLog
  <2>2. /\ logs' \in [Logs -> Nat] /\ \A k \in Logs : logs'[k] >= logs[k] /\ logs'[k] <= MaxChanges
    BY <2>1, LaunchAssumption DEF LogTyped
  <2>3. LogTyped'
    BY <2>1, <2>2 DEF LogTyped
  <2>4. AnswersFollow'
    BY <2>1, <2>2 DEF AnswersFollow, LogTyped, LogAnswer
  <2> QED
    BY <2>1, <2>3, <2>4 DEF LinesHold
<1>2. ASSUME NEW l \in Logs, G!Select(l) PROVE LogInv'
  BY <1>2, LoadKeeps DEF G!Select
<1>3. ASSUME G!ScanLogs PROVE LogInv'
  <2>1. /\ log_scan' = [l \in {x \in Logs : logs[x] > 0} |-> logs[l]]
        /\ UNCHANGED <<logs, listing, chosen, loading, answers, lines, shown_text>>
    BY <1>3 DEF G!ScanLogs
  <2>2. LogTyped'
    BY <2>1, LaunchAssumption DEF LogTyped
  <2> QED
    BY <2>1, <2>2 DEF AnswersFollow, LinesHold
<1>4. ASSUME G!PollScan PROVE LogInv'
  <2>1. /\ log_scan # None /\ log_scan' = None /\ listing' = log_scan
        /\ chosen' \in {chosen, None}
        /\ UNCHANGED <<logs, loading, answers, lines, shown_text>>
    BY <1>4 DEF G!PollScan
  <2>2. LogTyped'
    BY <2>1 DEF LogTyped
  <2> QED
    BY <2>1, <2>2 DEF AnswersFollow, LinesHold
<1>5. ASSUME G!Sync PROVE LogInv'
  <2>1. PICK now : /\ now = IF chosen # None THEN chosen ELSE G!Newest
                   /\ chosen' = now /\ G!Load(now)
    BY <1>5 DEF G!Sync
  <2>2. now \in Logs
    BY <1>5, <2>1, NewestIsListed DEF G!Sync, LogTyped
  <2>3. UNCHANGED <<logs, listing, log_scan, lines, shown_text>>
    BY <1>5 DEF G!Sync
  <2> QED
    BY <2>1, <2>2, <2>3, LoadKeeps
<1>6. ASSUME NEW a \in answers, G!ReadLog(a) PROVE LogInv'
  <2>1. PICK b : b = [a EXCEPT !.text = logs[a.log]]
    OBVIOUS
  <2>2. /\ answers' = (answers \ {a}) \cup {b}
        /\ UNCHANGED <<logs, listing, log_scan, chosen, loading, lines, shown_text>>
    BY <1>6, <2>1 DEF G!ReadLog
  <2>3. /\ a \in LogAnswer /\ b \in LogAnswer /\ b.number = a.number /\ b.log = a.log /\ b.written = a.written
        /\ b.text = logs[a.log] /\ logs[a.log] \in Nat
    BY <2>1 DEF LogAnswer, LogTyped
  <2>4. LogTyped'
    BY <2>2, <2>3 DEF LogTyped
  <2>5. AnswersFollow'
    BY <2>2, <2>3 DEF AnswersFollow
  <2> QED
    BY <2>2, <2>4, <2>5 DEF LinesHold
<1>7. ASSUME NEW a \in answers, G!PollLoad(a) PROVE LogInv'
  <2>1. /\ a.text # None /\ answers' = answers \ {a}
        /\ UNCHANGED <<logs, listing, log_scan, chosen>>
    BY <1>7 DEF G!PollLoad
  <2>2. CASE a.number # loading.number
    <3>1. UNCHANGED <<lines, loading, shown_text>>
      BY <1>7, <2>2 DEF G!PollLoad, G!Answers
    <3> QED
      BY <2>1, <3>1 DEF LogTyped, AnswersFollow, LinesHold
  <2>3. CASE a.number = loading.number
    <3>1. /\ lines' = a /\ loading' = [loading EXCEPT !.flying = FALSE]
          /\ shown_text' = [shown_text EXCEPT ![a.log] = IF a.text > @ THEN a.text ELSE @]
      BY <1>7, <2>3 DEF G!PollLoad, G!Answers
    <3>2. /\ a.log \in Logs /\ a.text \in Nat /\ a.written \in Nat /\ a.number \in Nat
          /\ a.written <= a.text /\ a.text <= logs[a.log] /\ shown_text[a.log] <= a.written
          /\ shown_text[a.log] \in Nat
      BY <2>1, <2>3 DEF LogTyped, LogAnswer, AnswersFollow
    <3>3. /\ shown_text' \in [Logs -> Nat] /\ shown_text'[a.log] = a.text
          /\ \A l \in Logs : l # a.log => shown_text'[l] = shown_text[l]
      BY <3>1, <3>2 DEF LogTyped
    <3>4. loading'.number \in Nat /\ \A b \in answers' : b.number # loading'.number
      <4>1. CASE loading'.number = loading.number
        BY <2>1, <2>3, <4>1 DEF AnswersFollow, LogTyped
      <4> QED
        BY <3>1, <4>1
    <3>5. LogTyped'
      BY <2>1, <3>3, <3>4 DEF LogTyped
    <3> QED
      BY <2>1, <3>1, <3>2, <3>3, <3>4, <3>5 DEF AnswersFollow, LinesHold, LogTyped, LogAnswer
  <2> QED
    BY <2>2, <2>3
<1>8. ASSUME \E s \in Shots : G!Change(s) PROVE LogInv'
  BY <1>0, <1>8 DEF G!Change, G!logVars
<1>9. ASSUME G!GalleryNext PROVE LogInv'
  BY <1>0, <1>9 DEF G!GalleryNext, G!Refresh, G!Collect, G!Adopt, G!NextPage, G!ReadShot, G!ReadMail, G!AskDelete, G!Deleted,
                    G!Forget, G!logVars
<1>10. ASSUME G!WatchNext PROVE LogInv'
  BY <1>0, <1>10 DEF G!WatchNext, G!StartWatch, G!PollWatch, G!logVars
<1>11. CASE UNCHANGED galleryVars
  BY <1>0, <1>11 DEF galleryVars
<1> QED
  BY <1>1, <1>2, <1>3, <1>4, <1>5, <1>6, <1>7, <1>8, <1>9, <1>10, <1>11 DEF G!Next, G!LogNext

-----------------------------------------------------------------------------
\* The sequence of a finite set lists it once.
LEMMA SetToSeqLists ==
    ASSUME NEW set, IsFiniteSet(set)
    PROVE  /\ G!SetToSeq(set) \in Seq(set) /\ G!IsInjective(G!SetToSeq(set)) /\ G!ToSet(G!SetToSeq(set)) = set
<1>1. Cardinality(set) \in Nat /\ \E f \in Bijection(1 .. Cardinality(set), set) : TRUE
  BY FS_CardinalityType DEF ExistsBijection
<1>2. PICK f \in Bijection(1 .. Cardinality(set), set) : TRUE
  BY <1>1
<1>3. f \in [1 .. Cardinality(set) -> set] /\ G!IsInjective(f)
  BY <1>2 DEF Bijection, Injection, IsInjective, G!IsInjective
<1>4. G!SetToSeq(set) = CHOOSE g \in [1 .. Cardinality(set) -> set] : G!IsInjective(g)
  BY DEF G!SetToSeq, G!Cardinality, Cardinality
<1>5. PICK g : g = G!SetToSeq(set)
  OBVIOUS
<1>6. g \in [1 .. Cardinality(set) -> set] /\ G!IsInjective(g)
  BY <1>3, <1>4, <1>5
<1>7. g \in Injection(1 .. Cardinality(set), set)
  BY <1>6 DEF Injection, IsInjective, G!IsInjective
<1>8. g \in Surjection(1 .. Cardinality(set), set)
  <2>1. IsFiniteSet(1 .. Cardinality(set)) /\ Cardinality(1 .. Cardinality(set)) = Cardinality(set)
    BY <1>1, FS_Interval
  <2> QED
    BY <1>7, <2>1, FS_Injection
<1>9. G!ToSet(g) = set
  BY <1>6, <1>8 DEF G!ToSet, Surjection
<1>10. g \in Seq(set)
  BY <1>1, <1>6
<1> QED
  BY <1>5, <1>6, <1>9, <1>10

\* What is appended once to what is listed once, and is not in it.
LEMMA AppendedOnce ==
    ASSUME NEW set, NEW s \in Seq(set), NEW t \in Seq(set), G!IsInjective(s), G!IsInjective(t),
           G!ToSet(s) \cap G!ToSet(t) = {}
    PROVE  /\ s \o t \in Seq(set) /\ G!IsInjective(s \o t) /\ G!ToSet(s \o t) = G!ToSet(s) \cup G!ToSet(t)
<1>1. PICK u : u = s \o t
  OBVIOUS
<1>2. /\ u \in Seq(set) /\ Len(u) = Len(s) + Len(t)
      /\ \A i \in 1 .. Len(s) + Len(t) : u[i] = IF i <= Len(s) THEN s[i] ELSE t[i - Len(s)]
  BY <1>1, ConcatProperties
<1>3. /\ Len(s) \in Nat /\ Len(t) \in Nat /\ DOMAIN s = 1 .. Len(s) /\ DOMAIN t = 1 .. Len(t)
      /\ DOMAIN u = 1 .. Len(s) + Len(t)
  BY <1>2
<1>4. \A i \in DOMAIN u : (i \in DOMAIN s /\ u[i] = s[i]) \/ (i - Len(s) \in DOMAIN t /\ i > Len(s) /\ u[i] = t[i - Len(s)])
  BY <1>2, <1>3
<1>5. \A i \in DOMAIN s : i \in DOMAIN u /\ u[i] = s[i]
  BY <1>2, <1>3
<1>6. ASSUME NEW i \in DOMAIN t PROVE i + Len(s) \in DOMAIN u /\ u[i + Len(s)] = t[i]
  <2>1. i + Len(s) \in 1 .. Len(s) + Len(t) /\ ~(i + Len(s) <= Len(s)) /\ (i + Len(s)) - Len(s) = i
    BY <1>3
  <2> QED
    BY <1>2, <1>3, <2>1
<1>7. G!ToSet(u) = G!ToSet(s) \cup G!ToSet(t)
  <2>1. G!ToSet(u) \subseteq G!ToSet(s) \cup G!ToSet(t)
    BY <1>4 DEF G!ToSet
  <2>2. G!ToSet(s) \subseteq G!ToSet(u)
    BY <1>5 DEF G!ToSet
  <2>3. G!ToSet(t) \subseteq G!ToSet(u)
    BY <1>6 DEF G!ToSet
  <2> QED
    BY <2>1, <2>2, <2>3
<1>8. ASSUME NEW a \in DOMAIN u, NEW b \in DOMAIN u, u[a] = u[b] PROVE a = b
  <2>1. CASE a \in DOMAIN s /\ u[a] = s[a] /\ b \in DOMAIN s /\ u[b] = s[b]
    BY <1>8, <2>1 DEF G!IsInjective
  <2>2. CASE a - Len(s) \in DOMAIN t /\ a > Len(s) /\ u[a] = t[a - Len(s)]
             /\ b - Len(s) \in DOMAIN t /\ b > Len(s) /\ u[b] = t[b - Len(s)]
    <3>1. a - Len(s) = b - Len(s)
      BY <1>8, <2>2 DEF G!IsInjective
    <3> QED
      BY <1>3, <3>1
  <2>3. CASE a \in DOMAIN s /\ u[a] = s[a] /\ b - Len(s) \in DOMAIN t /\ u[b] = t[b - Len(s)]
    BY <1>8, <2>3 DEF G!ToSet
  <2>4. CASE b \in DOMAIN s /\ u[b] = s[b] /\ a - Len(s) \in DOMAIN t /\ u[a] = t[a - Len(s)]
    BY <1>8, <2>4 DEF G!ToSet
  <2> QED
    BY <1>4, <2>1, <2>2, <2>3, <2>4
<1> QED
  BY <1>1, <1>2, <1>7, <1>8 DEF G!IsInjective

-----------------------------------------------------------------------------
\* Until the first listing is taken nothing is known, and what is in flight is that listing.
WatchInv ==
    /\ known_shots \in SUBSET Shots /\ told \in Seq(Shots)
    /\ watch # None => \E f \in SUBSET Shots : watch = [found |-> f]
    /\ ~seeded => /\ known_shots = {} /\ told = <<>>
                  /\ watch = None => baseline = {}
                  /\ watch # None => watch = [found |-> baseline]
    /\ seeded => baseline \subseteq known_shots
    /\ G!ToldOnce

LEMMA WatchStart == G!Init => WatchInv
<1> SUFFICES ASSUME G!Init PROVE WatchInv
  OBVIOUS
<1>1. watch = None /\ seeded = FALSE /\ known_shots = {} /\ told = <<>> /\ baseline = {}
  BY DEF G!Init
<1>2. G!IsInjective(told) /\ G!ToSet(told) = {}
  BY <1>1 DEF G!IsInjective, G!ToSet
<1> QED
  BY <1>1, <1>2 DEF WatchInv, G!ToldOnce

LEMMA WatchStep == WatchInv /\ [G!Next]_galleryVars => WatchInv'
<1> SUFFICES ASSUME WatchInv, [G!Next]_galleryVars PROVE WatchInv'
  OBVIOUS
<1>0. ASSUME UNCHANGED <<watch, seeded, known_shots, told, baseline>> PROVE WatchInv'
  BY <1>0 DEF WatchInv, G!ToldOnce
<1>1. ASSUME G!StartWatch PROVE WatchInv'
  <2>1. watch = None /\ UNCHANGED <<seeded, known_shots, told>> /\ G!Present \in SUBSET Shots
    BY <1>1 DEF G!StartWatch, G!Present
  <2>2. CASE watch' = [found |-> G!Present] /\ baseline' = IF seeded THEN baseline ELSE G!Present
    <3>1. watch' # None
      BY <2>1, <2>2, NoneAssumption
    <3> QED
      BY <2>1, <2>2, <3>1 DEF WatchInv, G!ToldOnce
  <2>3. CASE ~seeded /\ watch' = [found |-> {}] /\ baseline' = baseline
    <3>1. watch' # None
      <4>1. [found |-> {}] \in [found : SUBSET Shots]
        OBVIOUS
      <4> QED
        BY <2>3, <4>1, NoneAssumption
    <3> QED
      BY <2>1, <2>3, <3>1 DEF WatchInv, G!ToldOnce
  <2> QED
    BY <1>1, <2>2, <2>3 DEF G!StartWatch
<1>2. ASSUME G!PollWatch PROVE WatchInv'
  <2>1. /\ watch # None /\ watch' = None /\ baseline' = baseline
        /\ told' = told \o G!SetToSeq(G!News(watch.found))
        /\ known_shots' = known_shots \cup watch.found /\ seeded' = TRUE
    BY <1>2 DEF G!PollWatch
  <2>2. PICK f \in SUBSET Shots : watch = [found |-> f] /\ watch.found = f
    BY <2>1 DEF WatchInv
  <2>3. PICK news : news = G!News(f)
    OBVIOUS
  <2>4. news = IF seeded THEN f \ known_shots ELSE {}
    BY <2>3 DEF G!News
  <2>5. IsFiniteSet(news) /\ news \subseteq Shots
    BY <2>2, <2>4, LaunchAssumption, FS_Subset
  <2>6. PICK t : t = G!SetToSeq(news)
    OBVIOUS
  <2>7. t \in Seq(Shots) /\ G!IsInjective(t) /\ G!ToSet(t) = news
    <3>1. t \in Seq(news) /\ G!IsInjective(t) /\ G!ToSet(t) = news
      BY <2>5, <2>6, SetToSeqLists
    <3> QED
      BY <2>5, <3>1
  <2>8. G!IsInjective(told) /\ told \in Seq(Shots) /\ G!ToSet(told) = known_shots \ baseline
    BY DEF WatchInv, G!ToldOnce
  <2>9. told' = told \o t
    BY <2>1, <2>2, <2>3, <2>6
  <2>10. told' \in Seq(Shots) /\ G!IsInjective(told') /\ G!ToSet(told') = G!ToSet(told) \cup news
    <3>1. G!ToSet(told) \cap G!ToSet(t) = {}
      BY <2>4, <2>7, <2>8
    <3> QED
      BY <2>7, <2>8, <2>9, <3>1, AppendedOnce
  <2>11. G!ToSet(told') = known_shots' \ baseline' /\ baseline \subseteq known_shots'
    <3>1. CASE seeded
      BY <2>1, <2>2, <2>4, <2>8, <2>10, <3>1 DEF WatchInv
    <3>2. CASE ~seeded
      <4>1. known_shots = {} /\ f = baseline /\ news = {}
        BY <2>1, <2>2, <2>4, <3>2 DEF WatchInv
      <4> QED
        BY <2>1, <2>2, <2>8, <2>10, <4>1
    <3> QED
      BY <3>1, <3>2
  <2>12. known_shots' \in SUBSET Shots
    BY <2>1, <2>2 DEF WatchInv
  <2>13. G!ToldOnce'
    BY <2>10, <2>11 DEF G!ToldOnce, G!IsInjective, G!ToSet
  <2> QED
    BY <2>1, <2>10, <2>11, <2>12, <2>13 DEF WatchInv
<1>3. ASSUME \E s \in Shots : G!Change(s) PROVE WatchInv'
  BY <1>0, <1>3 DEF G!Change, G!watchVars
<1>4. ASSUME G!GalleryNext PROVE WatchInv'
  BY <1>0, <1>4 DEF G!GalleryNext, G!Refresh, G!Collect, G!Adopt, G!NextPage, G!ReadShot, G!ReadMail, G!AskDelete, G!Deleted,
                    G!Forget, G!watchVars
<1>5. ASSUME G!LogNext PROVE WatchInv'
  BY <1>0, <1>5 DEF G!LogNext, G!WriteLog, G!Select, G!ScanLogs, G!PollScan, G!Sync, G!ReadLog, G!PollLoad, G!watchVars
<1>6. CASE UNCHANGED galleryVars
  BY <1>0, <1>6 DEF galleryVars
<1> QED
  BY <1>1, <1>2, <1>3, <1>4, <1>5, <1>6 DEF G!Next, G!WatchNext

-----------------------------------------------------------------------------
\* The gallery of all screenshots.
Candidate == Shots \X {"absent", "half", "whole"}
Task == [number : Nat, shot : Candidate]
Mail == [number : Nat, entry : Shots \cup {None}]
Distinct(of) == \A i, j \in DOMAIN of : of[i][1] = of[j][1] => i = j
Current == {t \in tasks : t.number = wanted}
IsCurrent(i) == i \in DOMAIN mail /\ mail[i].number = wanted
IsOver(i) == IsCurrent(i) /\ mail[i].entry = None
IsEntry(i) == IsCurrent(i) /\ mail[i].entry # None
Overs == {i \in DOMAIN mail : mail[i].number = wanted /\ mail[i].entry = None}
Begun == {candidates[k][1] : k \in 1 .. loaded}

GalleryTyped ==
    /\ disk \in [Shots -> {"absent", "half", "whole"}]
    /\ candidates \in Seq(Candidate) /\ Distinct(candidates)
    /\ scan.at = "found" => scan.found \in Seq(Candidate) /\ Distinct(scan.found)
    /\ wanted \in Nat /\ total \in Nat /\ done \in Nat
    /\ loaded \in Nat /\ loaded <= Len(candidates)
    /\ gallery_shown \in Seq(Shots)
    /\ tasks \in SUBSET Task /\ mail \in Seq(Mail)

\* What is under way is of requests that were made, and once the gallery was left nothing is of
\* the one to come.
Numbered ==
    /\ \A t \in tasks : t.number <= wanted
    /\ \A i \in DOMAIN mail : mail[i].number <= wanted
    /\ ~ready => Current = {} /\ gallery_shown = <<>> /\ ~pending /\ \A i \in DOMAIN mail : mail[i].number # wanted

\* A screenshot of the request is one task, or one message, or shown.
OnceOnly ==
    /\ G!IsInjective(gallery_shown) /\ G!ToSet(gallery_shown) \subseteq Begun
    /\ \A t \in Current : t.shot[1] \in Begun /\ t.shot[1] \notin G!ToSet(gallery_shown)
    /\ \A t, u \in Current : t.shot[1] = u.shot[1] => t = u
    /\ \A i \in DOMAIN mail :
          IsEntry(i) => /\ mail[i].entry \in Begun /\ mail[i].entry \notin G!ToSet(gallery_shown)
                        /\ \A t \in Current : t.shot[1] # mail[i].entry
                        /\ \A j \in DOMAIN mail : IsEntry(j) /\ mail[j].entry = mail[i].entry => j = i

\* A task that read its screenshot says that it is over right after; and those that are not over
\* are what has not been counted.
OversFollow ==
    \A i \in DOMAIN mail : mail[i].entry # None =>
        i + 1 \in DOMAIN mail /\ mail[i + 1] = [number |-> mail[i].number, entry |-> None]
Counted ==
    /\ IsFiniteSet(Current)
    /\ ready => total = done + Cardinality(Current) + Cardinality(Overs)

SeenIsComing ==
    ready => seen = G!ToSet(gallery_shown) \cup {mail[i].entry : i \in {j \in DOMAIN mail : IsEntry(j)}}

\* It says that it has loaded only when nothing of the request is left, and a scan that nobody
\* forced was begun then.
LoadedMeansAll ==
    /\ ready /\ ~pending => /\ Current = {} /\ loaded >= Len(candidates)
                            /\ \A i \in DOMAIN mail : mail[i].number # wanted
    /\ pending => done < total \/ loaded < Len(candidates)
    /\ scan.at # "none" /\ ~scan.force => ~pending

GalleryInv == GalleryTyped /\ Numbered /\ OnceOnly /\ OversFollow /\ Counted /\ SeenIsComing /\ LoadedMeansAll

LEMMA GalleryInvShows == GalleryInv => G!ShownOnce
<1> SUFFICES ASSUME GalleryInv PROVE G!ShownOnce
  OBVIOUS
<1> USE DEF GalleryInv
<1>1. G!IsInjective(gallery_shown) /\ (~ready => gallery_shown = <<>>)
  BY DEF OnceOnly, Numbered
<1>2. ASSUME ready, ~pending PROVE G!ToSet(gallery_shown) = seen
  <2>1. {j \in DOMAIN mail : IsEntry(j)} = {}
    BY <1>2 DEF LoadedMeansAll, IsEntry, IsCurrent
  <2> QED
    BY <1>2, <2>1 DEF SeenIsComing
<1>3. ASSUME pending, tasks = {}, mail = <<>> PROVE loaded < Len(candidates)
  <2>1. ready /\ Current = {} /\ Overs = {}
    BY <1>3 DEF Numbered, Current, Overs
  <2>2. total = done
    BY <2>1, FS_EmptySet DEF Counted, GalleryTyped
  <2> QED
    BY <1>3, <2>2 DEF LoadedMeansAll, GalleryTyped
<1> QED
  BY <1>1, <1>2, <1>3 DEF G!ShownOnce

LEMMA GalleryStart == G!Init => GalleryInv
<1> SUFFICES ASSUME G!Init PROVE GalleryInv
  OBVIOUS
<1>1. /\ disk = [s \in Shots |-> "absent"] /\ scan = [number |-> 0, force |-> FALSE, at |-> "none", found |-> <<>>]
      /\ candidates = <<>> /\ loaded = 0 /\ gallery_shown = <<>> /\ total = 0 /\ done = 0
      /\ wanted = 0 /\ tasks = {} /\ mail = <<>> /\ seen = {}
  BY DEF G!Init
<1>2. ~pending /\ ~ready
  BY DEF G!Init
<1>3. scan.at = "none" /\ Current = {} /\ Overs = {} /\ DOMAIN mail = {} /\ G!ToSet(gallery_shown) = {}
      /\ G!IsInjective(gallery_shown) /\ Len(candidates) = 0 /\ Distinct(candidates)
  BY <1>1 DEF Current, Overs, G!ToSet, G!IsInjective, Distinct
<1>4. GalleryTyped
  BY <1>1, <1>3 DEF GalleryTyped
<1>5. Counted
  BY <1>2, <1>3, FS_EmptySet DEF Counted
<1> QED
  BY <1>1, <1>2, <1>3, <1>4, <1>5 DEF GalleryInv, Numbered, OnceOnly, OversFollow, SeenIsComing, LoadedMeansAll

LEMMA GalleryUnchanged ==
    ASSUME GalleryInv, disk' \in [Shots -> {"absent", "half", "whole"}],
           UNCHANGED <<candidates, loaded, gallery_shown, total, done, pending, ready, wanted, tasks, mail, seen>>,
           scan'.at = "found" => scan'.found \in Seq(Candidate) /\ Distinct(scan'.found),
           scan'.at # "none" /\ ~scan'.force => ~pending
    PROVE  GalleryInv'
<1> USE DEF GalleryInv
<1>1. Current' = Current /\ Overs' = Overs /\ Begun' = Begun /\ \A i : IsEntry(i)' <=> IsEntry(i)
  BY DEF Current, Overs, Begun, IsEntry, IsCurrent
<1>2. GalleryTyped'
  BY DEF GalleryTyped, Distinct
<1>3. Numbered' /\ OnceOnly' /\ OversFollow' /\ Counted'
  BY <1>1 DEF Numbered, OnceOnly, OversFollow, Counted
<1>4. SeenIsComing'
  BY <1>1 DEF SeenIsComing
<1>5. LoadedMeansAll'
  BY <1>1 DEF LoadedMeansAll
<1> QED
  BY <1>2, <1>3, <1>4, <1>5

\* What neither begins, ends nor counts a task.
LEMMA AsideKeeps ==
    ASSUME GalleryInv,
           \/ \E s \in Shots : G!Change(s) \/ G!AskDelete(s)
           \/ G!Refresh \/ G!Collect \/ G!Deleted
    PROVE  GalleryInv'
<1> USE DEF GalleryInv
<1>1. ASSUME NEW s \in Shots, G!Change(s) PROVE GalleryInv'
  <2>1. PICK to \in {"absent", "half", "whole"} : disk' = [disk EXCEPT ![s] = to]
    BY <1>1 DEF G!Change
  <2>2. UNCHANGED <<candidates, loaded, gallery_shown, total, done, pending, ready, wanted, tasks, mail, seen, scan>>
    BY <1>1 DEF G!Change, G!galleryVars
  <2>3. disk' \in [Shots -> {"absent", "half", "whole"}]
    BY <2>1 DEF GalleryTyped
  <2> QED
    BY <2>2, <2>3, GalleryUnchanged DEF GalleryTyped, LoadedMeansAll
<1>2. ASSUME NEW s \in Shots, G!AskDelete(s) PROVE GalleryInv'
  <2>1. UNCHANGED <<disk, candidates, loaded, gallery_shown, total, done, pending, ready, wanted, tasks, mail, seen, scan>>
    BY <1>2 DEF G!AskDelete
  <2> QED
    BY <2>1, GalleryUnchanged DEF GalleryTyped, LoadedMeansAll
<1>3. ASSUME G!Refresh PROVE GalleryInv'
  <2>1. ~pending /\ UNCHANGED <<disk, candidates, loaded, gallery_shown, total, done, pending, ready, wanted, tasks, mail, seen>>
    BY <1>3 DEF G!Refresh
  <2>2. scan' = [number |-> scan.number + 1, force |-> FALSE, at |-> "running", found |-> <<>>]
    BY <1>3 DEF G!Refresh, G!Refreshed
  <2>3. scan'.at = "running"
    BY <2>2
  <2> QED
    BY <2>1, <2>3, GalleryUnchanged DEF GalleryTyped
<1>4. ASSUME G!Collect PROVE GalleryInv'
  <2>1. PICK of : of = {<<s, disk[s]>> : s \in G!Present}
    OBVIOUS
  <2>2. PICK c : c = G!SetToSeq(of)
    OBVIOUS
  <2>3. /\ scan.at = "running" /\ scan' = [scan EXCEPT !.at = "found", !.found = c]
        /\ UNCHANGED <<disk, candidates, loaded, gallery_shown, total, done, pending, ready, wanted, tasks, mail, seen>>
    BY <1>4, <2>1, <2>2 DEF G!Collect, G!Collected
  <2>4. of \subseteq Candidate /\ IsFiniteSet(of)
    <3>1. G!Present \subseteq Shots /\ IsFiniteSet(G!Present)
      BY LaunchAssumption, FS_Subset DEF G!Present
    <3>2. PICK f : f = [s \in G!Present |-> <<s, disk[s]>>]
      OBVIOUS
    <3>3. f \in Surjection(G!Present, of)
      BY <2>1, <3>2 DEF Surjection
    <3>4. IsFiniteSet(of)
      BY <3>1, <3>3, FS_Surjection
    <3> QED
      BY <2>1, <3>1, <3>4 DEF GalleryTyped, Candidate
  <2>5. c \in Seq(of) /\ G!IsInjective(c)
    BY <2>2, <2>4, SetToSeqLists
  <2>6. c \in Seq(Candidate)
    BY <2>4, <2>5
  <2>7. Distinct(c)
    <3>1. \A i \in DOMAIN c : c[i] \in of
      BY <2>5
    <3>2. \A x, y \in of : x[1] = y[1] => x = y
      BY <2>1
    <3> QED
      BY <2>5, <3>1, <3>2 DEF Distinct, G!IsInjective
  <2>8. /\ scan'.found \in Seq(Candidate) /\ Distinct(scan'.found)
        /\ ~scan.force => ~pending
    <3>1. CASE scan'.found = c
      BY <2>3, <2>6, <2>7, <3>1 DEF LoadedMeansAll
    <3> QED
      BY <2>3, <3>1
  <2> QED
    BY <2>3, <2>8, GalleryUnchanged DEF GalleryTyped
<1>5. ASSUME G!Deleted PROVE GalleryInv'
  <2>1. UNCHANGED <<candidates, loaded, gallery_shown, total, done, pending, ready, wanted, tasks, mail, seen>>
    BY <1>5 DEF G!Deleted
  <2>2. CASE UNCHANGED <<disk, scan>>
    BY <2>1, <2>2, GalleryUnchanged DEF GalleryTyped, LoadedMeansAll
  <2>3. CASE disk' = [disk EXCEPT ![deletion] = "absent"] /\ G!Refreshed(TRUE)
    <3>1. scan' = [number |-> scan.number + 1, force |-> TRUE, at |-> "running", found |-> <<>>]
      BY <2>3 DEF G!Refreshed
    <3>2. scan'.at = "running" /\ scan'.force
      BY <3>1
    <3>3. disk' \in [Shots -> {"absent", "half", "whole"}]
      BY <2>3 DEF GalleryTyped
    <3> QED
      BY <2>1, <3>2, <3>3, GalleryUnchanged
  <2> QED
    BY <1>5, <2>2, <2>3 DEF G!Deleted
<1> QED
  BY <1>1, <1>2, <1>3, <1>4, <1>5

LEMMA OlderNumbers ==
    ASSUME GalleryInv
    PROVE  /\ \A t \in tasks : t.number <= wanted + 1 /\ t.number # wanted + 1
           /\ \A i \in DOMAIN mail : mail[i].number <= wanted + 1 /\ mail[i].number # wanted + 1
<1>1. wanted \in Nat /\ \A t \in tasks : t.number \in Nat /\ t.number <= wanted
  BY DEF GalleryInv, GalleryTyped, Numbered, Task
<1>2. \A i \in DOMAIN mail : mail[i].number \in Nat /\ mail[i].number <= wanted
  <2>1. \A i \in DOMAIN mail : mail[i] \in Mail
    BY DEF GalleryInv, GalleryTyped
  <2> QED
    BY <2>1 DEF GalleryInv, Numbered, Mail
<1> QED
  BY <1>1, <1>2

\* Nobody waits for a gallery that was left: its tasks are of an older request.
LEMMA ForgetKeeps == ASSUME GalleryInv, G!Forget PROVE GalleryInv'
<1> USE DEF GalleryInv
<1>1. /\ wanted' = wanted + 1 /\ gallery_shown' = <<>> /\ seen' = {}
      /\ candidates' = <<>> /\ loaded' = 0
      /\ UNCHANGED <<disk, scan, total, done, tasks, mail>>
  BY DEF G!Forget, G!ForgetNumber
<1>2. ~pending' /\ ~ready'
  BY DEF G!Forget
<1>3. wanted \in Nat /\ Current' = {} /\ \A i \in DOMAIN mail : mail[i].number # wanted + 1
  BY <1>1 DEF GalleryTyped, Numbered, Current, Task, Mail
<1>4. \A i : ~IsEntry(i)'
  BY <1>1, <1>3 DEF IsEntry, IsCurrent
<1>5. G!ToSet(gallery_shown') = {} /\ G!IsInjective(gallery_shown') /\ Len(candidates') = 0 /\ Distinct(candidates')
  BY <1>1 DEF G!ToSet, G!IsInjective, Distinct
<1>6. GalleryTyped'
  BY <1>1, <1>3, <1>5 DEF GalleryTyped, Distinct
<1>7. Numbered'
  BY <1>1, <1>2, <1>3, OlderNumbers DEF Numbered
<1>8. OnceOnly'
  BY <1>1, <1>3, <1>4, <1>5 DEF OnceOnly, G!ToSet, G!IsInjective
<1>9. Counted'
  BY <1>2, <1>3, FS_EmptySet DEF Counted
<1> QED
  BY <1>1, <1>2, <1>3, <1>6, <1>7, <1>8, <1>9 DEF OversFollow, SeenIsComing, LoadedMeansAll

\* The tasks of a page, one for each of its screenshots.
LEMMA PageTasksAre ==
    ASSUME NEW n \in Nat, NEW of \in Seq(Candidate), Distinct(of), NEW from \in Nat, NEW to \in Nat, from <= to,
           to <= Len(of)
    PROVE  /\ IsFiniteSet(G!PageTasks(n, of, from, to)) /\ Cardinality(G!PageTasks(n, of, from, to)) = to - from
           /\ G!PageTasks(n, of, from, to) \subseteq Task
           /\ \A t \in G!PageTasks(n, of, from, to) : t.number = n /\ \E i \in from + 1 .. to : t.shot = of[i]
           /\ \A t, u \in G!PageTasks(n, of, from, to) : t.shot[1] = u.shot[1] => t = u
<1>1. PICK page : page = G!PageTasks(n, of, from, to)
  OBVIOUS
<1>2. page = {[number |-> n, shot |-> of[i]] : i \in from + 1 .. to}
  BY <1>1 DEF G!PageTasks
<1>3. \A i \in from + 1 .. to : i \in DOMAIN of /\ of[i] \in Candidate
  OBVIOUS
<1>4. PICK f : f = [i \in from + 1 .. to |-> [number |-> n, shot |-> of[i]]]
  OBVIOUS
<1>5. f \in [from + 1 .. to -> page] /\ \A i \in from + 1 .. to : f[i].shot = of[i] /\ f[i] = [number |-> n, shot |-> of[i]]
  BY <1>2, <1>4
<1>6. f \in Bijection(from + 1 .. to, page)
  <2>1. \A i, j \in from + 1 .. to : f[i] = f[j] => i = j
    BY <1>3, <1>5 DEF Distinct
  <2>2. \A t \in page : \E i \in from + 1 .. to : f[i] = t
    BY <1>2, <1>5
  <2> QED
    BY <1>5, <2>1, <2>2 DEF Bijection, Injection, Surjection, IsInjective
<1>7. IsFiniteSet(page) /\ Cardinality(page) = to - from
  <2>1. IsFiniteSet(from + 1 .. to) /\ Cardinality(from + 1 .. to) = to - from
    <3>1. from + 1 \in Int /\ to \in Int /\ (IF from + 1 > to THEN 0 ELSE to - (from + 1) + 1) = to - from
      OBVIOUS
    <3> QED
      BY <3>1, FS_Interval
  <2> QED
    BY <1>6, <2>1, FS_Bijection DEF ExistsBijection
<1>8. page \subseteq Task /\ \A t \in page : t.number = n /\ \E i \in from + 1 .. to : t.shot = of[i]
  BY <1>2, <1>3 DEF Task
<1>9. ASSUME NEW t \in page, NEW u \in page, t.shot[1] = u.shot[1] PROVE t = u
  <2>1. PICK i \in from + 1 .. to : t = [number |-> n, shot |-> of[i]]
    BY <1>2
  <2>2. PICK j \in from + 1 .. to : u = [number |-> n, shot |-> of[j]]
    BY <1>2
  <2>3. of[i][1] = of[j][1]
    BY <1>9, <2>1, <2>2
  <2> QED
    BY <1>3, <2>1, <2>2, <2>3 DEF Distinct
<1> QED
  BY <1>1, <1>7, <1>8, <1>9

LEMMA PageEnds ==
    ASSUME NEW of \in Seq(Candidate), NEW from \in Nat, from <= Len(of), NEW size \in Nat
    PROVE  G!PageEnd(of, from, size) \in Nat /\ from <= G!PageEnd(of, from, size) /\ G!PageEnd(of, from, size) <= Len(of)
BY DEF G!PageEnd

LEMMA AdoptKeeps == ASSUME GalleryInv, G!Adopt PROVE GalleryInv'
<1> USE DEF GalleryInv
<1>1. /\ scan.at = "found" /\ scan' = [scan EXCEPT !.at = "none", !.found = <<>>]
      /\ UNCHANGED <<disk, mail>>
  BY DEF G!Adopt
<1>2. scan'.at = "none" \/ scan' = scan
  BY <1>1
<1>3. scan.found \in Seq(Candidate) /\ Distinct(scan.found)
  BY <1>1 DEF GalleryTyped
<1>4. CASE ~scan.force /\ scan.found = candidates /\ ready
  <2>1. UNCHANGED <<candidates, loaded, gallery_shown, total, done, ready, wanted, tasks, seen>>
    BY <1>4 DEF G!Adopt
  <2>2. ~pending /\ ~pending'
    BY <1>1, <1>4 DEF G!Adopt, LoadedMeansAll
  <2>3. scan'.at = "found" => scan'.found \in Seq(Candidate) /\ Distinct(scan'.found)
    BY <1>1, <1>2, <1>3
  <2>4. Current' = Current /\ Overs' = Overs /\ Begun' = Begun /\ \A i : IsEntry(i)' <=> IsEntry(i)
    BY <1>1, <2>1 DEF Current, Overs, Begun, IsEntry, IsCurrent
  <2>5. GalleryTyped' /\ Numbered' /\ OnceOnly' /\ OversFollow' /\ Counted' /\ LoadedMeansAll'
    BY <1>1, <2>1, <2>2, <2>3, <2>4 DEF GalleryTyped, Distinct, Numbered, OnceOnly, OversFollow, Counted, LoadedMeansAll
  <2> QED
    BY <1>1, <2>1, <2>4, <2>5 DEF SeenIsComing
<1>5. CASE ~(~scan.force /\ scan.found = candidates /\ ready)
  <2>1. PICK end : end = G!PageEnd(scan.found, 0, Page)
    OBVIOUS
  <2>2. PICK page : page = G!PageTasks(wanted + 1, scan.found, 0, end)
    OBVIOUS
  <2>3. /\ wanted' = wanted + 1 /\ gallery_shown' = <<>> /\ seen' = {}
        /\ candidates' = scan.found /\ loaded' = end /\ total' = end /\ done' = 0
        /\ tasks' = tasks \cup page
    BY <1>5, <2>1, <2>2 DEF G!Adopt
  <2>4. ready' /\ (pending' <=> scan.found # <<>>)
    BY <1>5 DEF G!Adopt
  <2>5. end \in Nat /\ 0 <= end /\ end <= Len(scan.found)
    <3>1. Len(scan.found) \in Nat /\ 0 \in Nat /\ 0 <= Len(scan.found) /\ Page \in Nat
      BY <1>3, LaunchAssumption
    <3> QED
      BY <1>3, <2>1, <3>1, PageEnds
  <2>6. /\ IsFiniteSet(page) /\ Cardinality(page) = end
        /\ page \subseteq Task
        /\ \A t \in page : t.number = wanted + 1 /\ \E i \in 1 .. end : t.shot = scan.found[i]
        /\ \A t, u \in page : t.shot[1] = u.shot[1] => t = u
    <3>1. wanted + 1 \in Nat
      BY DEF GalleryTyped
    <3>2. 0 \in Nat /\ end - 0 = end /\ 0 + 1 = 1
      BY <2>5
    <3>3. PICK n, of : n = wanted + 1 /\ of = scan.found
      OBVIOUS
    <3>4. n \in Nat /\ of \in Seq(Candidate) /\ Distinct(of) /\ end \in Nat /\ 0 <= end /\ end <= Len(of)
          /\ page = G!PageTasks(n, of, 0, end)
      BY <1>3, <2>2, <2>5, <3>1, <3>3
    <3>5. /\ IsFiniteSet(page) /\ Cardinality(page) = end - 0
          /\ page \subseteq Task
          /\ \A t \in page : t.number = n /\ \E i \in 0 + 1 .. end : t.shot = of[i]
          /\ \A t, u \in page : t.shot[1] = u.shot[1] => t = u
      <4>1. \A z \in Nat : z <= end => 
              /\ IsFiniteSet(G!PageTasks(n, of, z, end)) /\ Cardinality(G!PageTasks(n, of, z, end)) = end - z
              /\ G!PageTasks(n, of, z, end) \subseteq Task
              /\ \A t \in G!PageTasks(n, of, z, end) : t.number = n /\ \E i \in z + 1 .. end : t.shot = of[i]
              /\ \A t, u \in G!PageTasks(n, of, z, end) : t.shot[1] = u.shot[1] => t = u
        BY <3>4, PageTasksAre
      <4> QED
        BY <3>2, <3>4, <4>1
    <3> QED
      BY <3>2, <3>3, <3>5
  <2>7. Current' = page /\ Overs' = {} /\ \A i \in DOMAIN mail' : mail'[i].number # wanted'
    BY <1>1, <2>3, <2>6, OlderNumbers DEF Current, Overs
  <2>8. \A i : ~IsEntry(i)'
    BY <2>7 DEF IsEntry, IsCurrent
  <2>9. GalleryTyped'
    BY <1>1, <1>2, <1>3, <2>3, <2>5, <2>6 DEF GalleryTyped, Distinct
  <2>10. Numbered'
    <3>1. \A t \in tasks' : t.number <= wanted'
      BY <2>3, <2>6, OlderNumbers DEF GalleryTyped
    <3> QED
      BY <1>1, <2>3, <2>4, <3>1, OlderNumbers DEF Numbered
  <2>11. G!ToSet(gallery_shown') = {} /\ G!IsInjective(gallery_shown')
    BY <2>3 DEF G!ToSet, G!IsInjective
  <2>12. \A t \in page : t.shot[1] \in Begun'
    BY <2>3, <2>6 DEF Begun
  <2>13. OnceOnly'
    BY <2>6, <2>7, <2>8, <2>11, <2>12 DEF OnceOnly, G!ToSet, G!IsInjective
  <2>14. Counted'
    BY <2>3, <2>5, <2>6, <2>7, FS_EmptySet DEF Counted
  <2>15. SeenIsComing'
    BY <2>3, <2>8, <2>11 DEF SeenIsComing, G!ToSet
  <2>16. LoadedMeansAll'
    <3>1. ~pending' => page = {} /\ Len(scan.found) = 0
      <4>1. CASE scan.found = <<>>
        BY <2>5, <2>6, <4>1, FS_EmptySet
      <4> QED
        BY <2>4, <4>1
    <3>2. pending' => Len(scan.found) # 0
      BY <1>3, <2>4
    <3>3. pending' => 0 < end \/ end < Len(scan.found)
      BY <1>3, <2>5, <3>2
    <3>4. scan'.at # "none" /\ ~scan'.force => ~pending'
      BY <1>1
    <3> QED
      BY <2>3, <2>5, <2>7, <3>1, <3>3, <3>4 DEF LoadedMeansAll
  <2>17. OversFollow'
    BY <1>1 DEF OversFollow
  <2> QED
    BY <2>9, <2>10, <2>13, <2>14, <2>15, <2>16, <2>17
<1> QED
  BY <1>4, <1>5

LEMMA NextPageKeeps == ASSUME GalleryInv, G!NextPage PROVE GalleryInv'
<1> USE DEF GalleryInv
<1>1. PICK end : end = G!PageEnd(candidates, loaded, Page * 4)
  OBVIOUS
<1>2. PICK page : page = G!PageTasks(wanted, candidates, loaded, end)
  OBVIOUS
<1>3. /\ ready /\ done >= total /\ loaded < Len(candidates)
      /\ loaded' = end /\ total' = total + (end - loaded) /\ tasks' = tasks \cup page
      /\ UNCHANGED <<disk, scan, candidates, gallery_shown, done, pending, ready, wanted, mail, seen>>
  BY <1>1, <1>2 DEF G!NextPage
<1>4. candidates \in Seq(Candidate) /\ Distinct(candidates) /\ loaded \in Nat /\ loaded <= Len(candidates) /\ wanted \in Nat
      /\ total \in Nat /\ done \in Nat /\ Len(candidates) \in Nat
  BY DEF GalleryTyped
<1>5. end \in Nat /\ loaded <= end /\ end <= Len(candidates)
  <2>1. Page * 4 \in Nat
    BY LaunchAssumption
  <2> QED
    BY <1>1, <1>4, <2>1, PageEnds
<1>6. /\ IsFiniteSet(page) /\ Cardinality(page) = end - loaded
      /\ page \subseteq Task
      /\ \A t \in page : t.number = wanted /\ \E i \in loaded + 1 .. end : t.shot = candidates[i]
      /\ \A t, u \in page : t.shot[1] = u.shot[1] => t = u
  BY <1>2, <1>4, <1>5, PageTasksAre
<1>7. pending
  BY <1>3, <1>4 DEF LoadedMeansAll
<1>8. Current' = Current \cup page /\ Overs' = Overs /\ (\A i : IsEntry(i)' <=> IsEntry(i)) /\ Begun \subseteq Begun'
  BY <1>3, <1>4, <1>5, <1>6 DEF Current, Overs, IsEntry, IsCurrent, Begun
<1>9. ASSUME NEW t \in page PROVE t.shot[1] \in Begun' /\ t.shot[1] \notin Begun
  <2>1. PICK i \in loaded + 1 .. end : t.shot = candidates[i]
    BY <1>6
  <2>2. i \in 1 .. end /\ i \in DOMAIN candidates /\ \A k \in 1 .. loaded : k # i /\ k \in DOMAIN candidates
    BY <1>4, <1>5
  <2> QED
    BY <1>3, <1>4, <2>1, <2>2 DEF Begun, Distinct
<1>10. GalleryTyped'
  BY <1>3, <1>4, <1>5, <1>6 DEF GalleryTyped, Distinct
<1>11. Numbered'
  BY <1>3, <1>4, <1>6, <1>7 DEF Numbered
<1>12. OnceOnly'
  <2>1. /\ G!IsInjective(gallery_shown)' /\ G!ToSet(gallery_shown)' = G!ToSet(gallery_shown)
        /\ G!ToSet(gallery_shown) \subseteq Begun
    BY <1>3 DEF OnceOnly, G!IsInjective, G!ToSet
  <2>2. \A t \in Current' : t.shot[1] \in Begun' /\ t.shot[1] \notin G!ToSet(gallery_shown)
    BY <1>8, <1>9, <2>1 DEF OnceOnly
  <2>3. \A t, u \in Current' : t.shot[1] = u.shot[1] => t = u
    BY <1>6, <1>8, <1>9 DEF OnceOnly
  <2>4. ASSUME NEW i \in DOMAIN mail, IsEntry(i)
        PROVE  /\ mail[i].entry \in Begun' /\ mail[i].entry \notin G!ToSet(gallery_shown)
               /\ \A t \in Current' : t.shot[1] # mail[i].entry
               /\ \A j \in DOMAIN mail : IsEntry(j) /\ mail[j].entry = mail[i].entry => j = i
    BY <1>8, <1>9, <2>4 DEF OnceOnly
  <2> QED
    BY <1>3, <1>8, <2>1, <2>2, <2>3, <2>4 DEF OnceOnly
<1>13. IsFiniteSet(Current) /\ Current \cap page = {}
  BY <1>9 DEF Counted, OnceOnly
<1>14. IsFiniteSet(Current') /\ Cardinality(Current') = Cardinality(Current) + (end - loaded)
  <2>1. Cardinality(Current \cap page) = 0 /\ Cardinality(Current) \in Nat
    BY <1>13, FS_EmptySet, FS_CardinalityType
  <2>2. IsFiniteSet(Current \cup page)
        /\ Cardinality(Current \cup page) = Cardinality(Current) + Cardinality(page) - Cardinality(Current \cap page)
    BY <1>6, <1>13, FS_Union
  <2> QED
    BY <1>4, <1>5, <1>6, <1>8, <2>1, <2>2
<1>15. IsFiniteSet(Overs) /\ Cardinality(Overs) \in Nat /\ Cardinality(Current) \in Nat
  <2>1. DOMAIN mail = 1 .. Len(mail) /\ Len(mail) \in Nat
    BY DEF GalleryTyped
  <2>2. IsFiniteSet(1 .. Len(mail)) /\ Overs \in SUBSET (1 .. Len(mail))
    BY <2>1, FS_Interval DEF Overs
  <2> QED
    BY <2>2, <1>13, FS_Subset, FS_CardinalityType
<1>16. Counted'
  BY <1>3, <1>4, <1>5, <1>8, <1>14, <1>15 DEF Counted
<1>17. SeenIsComing'
  BY <1>3, <1>8 DEF SeenIsComing, G!ToSet
<1>18. LoadedMeansAll'
  <2>1. done < total' \/ end < Len(candidates)
    <3>1. done <= total
      BY <1>3, <1>4, <1>15 DEF Counted
    <3> QED
      BY <1>3, <1>4, <1>5, <3>1
  <2> QED
    BY <1>3, <1>7, <2>1 DEF LoadedMeansAll
<1>19. OversFollow'
  BY <1>3 DEF OversFollow
<1> QED
  BY <1>10, <1>11, <1>12, <1>16, <1>17, <1>18, <1>19

LEMMA TwoMore ==
    ASSUME NEW a \in Seq(Mail), NEW b \in Seq(Mail), Len(b) = 2
    PROVE  /\ a \o b \in Seq(Mail) /\ Len(a \o b) = Len(a) + 2
           /\ \A i \in 1 .. Len(a) : (a \o b)[i] = a[i]
           /\ (a \o b)[Len(a) + 1] = b[1] /\ (a \o b)[Len(a) + 2] = b[2]
<1>1. PICK c : c = a \o b
  OBVIOUS
<1>2. /\ c \in Seq(Mail) /\ Len(c) = Len(a) + Len(b)
      /\ \A i \in 1 .. Len(a) + Len(b) : c[i] = IF i <= Len(a) THEN a[i] ELSE b[i - Len(a)]
  BY <1>1, ConcatProperties
<1>3. PICK n : n = Len(a) /\ n \in Nat
  OBVIOUS
<1>4. n + 1 \in 1 .. n + 2 /\ n + 2 \in 1 .. n + 2 /\ ~(n + 1 <= n) /\ ~(n + 2 <= n) /\ (n + 1) - n = 1 /\ (n + 2) - n = 2
      /\ \A i \in 1 .. n : i \in 1 .. n + 2 /\ i <= n
  BY <1>3
<1> QED
  BY <1>1, <1>2, <1>3, <1>4

\* The end of what was said is where one more task is over.
LEMMA MessageEffect ==
    ASSUME GalleryInv, NEW t \in tasks, G!ReadShot(t)
    PROVE  /\ mail' \in Seq(Mail)
           /\ \A i \in 1 .. Len(mail) : mail'[i] = mail[i]
           /\ mail'[Len(mail')] = [number |-> t.number, entry |-> None]
           /\ \/ disk[t.shot[1]] # "whole" /\ Len(mail') = Len(mail) + 1
              \/ /\ disk[t.shot[1]] = "whole" /\ Len(mail') = Len(mail) + 2
                 /\ mail'[Len(mail) + 1] = [number |-> t.number, entry |-> t.shot[1]]
<1>1. t \in Task /\ t.number \in Nat /\ t.shot[1] \in Shots /\ mail \in Seq(Mail)
  BY DEF GalleryInv, GalleryTyped, Task, Candidate
<1>2. PICK entry, over : entry = [number |-> t.number, entry |-> t.shot[1]] /\ over = [number |-> t.number, entry |-> None]
  OBVIOUS
<1>3. entry \in Mail /\ over \in Mail
  BY <1>1, <1>2 DEF Mail
<1>4. mail' = IF disk[t.shot[1]] = "whole" THEN mail \o <<entry, over>> ELSE Append(mail, over)
  BY <1>2 DEF G!ReadShot
<1>5. CASE disk[t.shot[1]] # "whole"
  BY <1>1, <1>2, <1>3, <1>4, <1>5, AppendProperties
<1>6. CASE disk[t.shot[1]] = "whole"
  <2>1. PICK two : two = <<entry, over>>
    OBVIOUS
  <2>2. two \in Seq(Mail) /\ Len(two) = 2 /\ two[1] = entry /\ two[2] = over
    BY <1>3, <2>1
  <2>3. mail' = mail \o two
    BY <1>4, <1>6, <2>1
  <2>4. PICK a : a = mail
    OBVIOUS
  <2>5. /\ a \o two \in Seq(Mail) /\ Len(a \o two) = Len(a) + 2
        /\ \A i \in 1 .. Len(a) : (a \o two)[i] = a[i]
        /\ (a \o two)[Len(a) + 1] = two[1] /\ (a \o two)[Len(a) + 2] = two[2]
    BY <1>1, <2>2, <2>4, TwoMore
  <2>6. PICK u : u = a \o two
    OBVIOUS
  <2>7. mail' = u /\ u \in Seq(Mail) /\ Len(u) = Len(mail) + 2 /\ (\A i \in 1 .. Len(mail) : u[i] = mail[i])
        /\ u[Len(mail) + 1] = entry /\ u[Len(mail) + 2] = over
    BY <2>2, <2>3, <2>4, <2>5, <2>6
  <2> QED
    BY <1>2, <1>6, <2>7
<1> QED
  BY <1>5, <1>6

\* A task that read its screenshot leaves what it has to say.
LEMMA ReadShotKeeps == ASSUME GalleryInv, NEW t \in tasks, G!ReadShot(t) PROVE GalleryInv'
<1> USE DEF GalleryInv
<1>1. PICK n, k, s : n = Len(mail) /\ k = Len(mail') /\ s = t.shot[1]
  OBVIOUS
<1>2. PICK entry, over : entry = [number |-> t.number, entry |-> s] /\ over = [number |-> t.number, entry |-> None]
  OBVIOUS
<1>3. /\ tasks' = tasks \ {t}
      /\ seen' = IF t.number = wanted /\ disk[s] = "whole" THEN seen \cup {s} ELSE seen
      /\ UNCHANGED <<disk, scan, candidates, loaded, gallery_shown, total, done, pending, ready, wanted>>
  BY <1>1 DEF G!ReadShot
<1>4. mail' \in Seq(Mail) /\ mail \in Seq(Mail) /\ n \in Nat /\ k \in Nat /\ DOMAIN mail = 1 .. n /\ DOMAIN mail' = 1 .. k
  <2>1. mail' \in Seq(Mail) /\ mail \in Seq(Mail)
    BY MessageEffect DEF GalleryTyped
  <2>2. \A a \in Seq(Mail) : Len(a) \in Nat /\ DOMAIN a = 1 .. Len(a)
    OBVIOUS
  <2> QED
    BY <1>1, <2>1, <2>2
<1>5. /\ \A i \in 1 .. n : mail'[i] = mail[i]
      /\ mail'[k] = over
      /\ \/ disk[s] # "whole" /\ k = n + 1
         \/ disk[s] = "whole" /\ k = n + 2 /\ mail'[n + 1] = entry
  BY <1>1, <1>2, MessageEffect
<1>6. s \in Shots /\ s # None /\ t.number \in Nat /\ wanted \in Nat /\ t.number <= wanted
  BY <1>1, NoneAssumption DEF GalleryTyped, Task, Candidate, Numbered
<1>7. entry.number = t.number /\ entry.entry = s /\ over.number = t.number /\ over.entry = None
  BY <1>2
<1>8. \A i \in 1 .. k : \/ i \in 1 .. n /\ mail'[i] = mail[i]
                        \/ i = k /\ mail'[i] = over
                        \/ i = n + 1 /\ k = n + 2 /\ mail'[i] = entry
  BY <1>4, <1>5
<1>9. 1 .. n \subseteq 1 .. k /\ k \in 1 .. k /\ k \notin 1 .. n /\ n + 1 \notin 1 .. n
  BY <1>4, <1>5
<1>10. \A i : IsEntry(i)' <=> (IsEntry(i) \/ (i = n + 1 /\ k = n + 2 /\ t.number = wanted))
  <2>1. \A i \in 1 .. k : IsEntry(i)' <=> (mail'[i].number = wanted /\ mail'[i].entry # None)
    BY <1>3, <1>4 DEF IsEntry, IsCurrent
  <2>2. \A i : IsEntry(i) <=> (i \in 1 .. n /\ mail[i].number = wanted /\ mail[i].entry # None)
    BY <1>4 DEF IsEntry, IsCurrent
  <2>3. \A i : IsEntry(i)' => i \in 1 .. k
    BY <1>4 DEF IsEntry, IsCurrent
  <2> QED
    BY <1>4, <1>5, <1>6, <1>7, <1>8, <1>9, <2>1, <2>2, <2>3
<1>11. Overs' = IF t.number = wanted THEN Overs \cup {k} ELSE Overs
  <2>1. \A i : i \in Overs' <=> (i \in 1 .. k /\ mail'[i].number = wanted /\ mail'[i].entry = None)
    BY <1>3, <1>4 DEF Overs
  <2>2. \A i : i \in Overs <=> (i \in 1 .. n /\ mail[i].number = wanted /\ mail[i].entry = None)
    BY <1>4 DEF Overs
  <2>3. \A i : i \in Overs' <=> (i \in Overs \/ (t.number = wanted /\ i = k))
    BY <1>4, <1>5, <1>6, <1>7, <1>8, <1>9, <2>1, <2>2
  <2> QED
    BY <2>3
<1>12. Current' = Current \ {t} /\ (t \in Current <=> t.number = wanted) /\ Begun' = Begun
  BY <1>3 DEF Current, Begun
<1>13. GalleryTyped'
  BY <1>3, <1>4 DEF GalleryTyped, Distinct
<1>14. OversFollow'
  <2> SUFFICES ASSUME NEW i \in 1 .. k, mail'[i].entry # None
               PROVE  i + 1 \in 1 .. k /\ mail'[i + 1] = [number |-> mail'[i].number, entry |-> None]
    BY <1>4 DEF OversFollow
  <2>1. CASE i \in 1 .. n /\ mail'[i] = mail[i]
    <3>1. i + 1 \in 1 .. n /\ mail[i + 1] = [number |-> mail[i].number, entry |-> None]
      BY <1>4, <2>1 DEF OversFollow
    <3> QED
      BY <1>5, <1>9, <2>1, <3>1
  <2>2. CASE i = n + 1 /\ k = n + 2 /\ mail'[i] = entry
    BY <1>2, <1>4, <1>5, <1>7, <2>2
  <2> QED
    BY <1>7, <1>8, <2>1, <2>2
<1>15. \A i \in DOMAIN mail' : mail'[i].number <= wanted
  BY <1>4, <1>6, <1>7, <1>8 DEF Numbered
<1>16. \A i \in 1 .. k : mail'[i].number = wanted => t.number = wanted \/ (i \in 1 .. n /\ mail[i].number = wanted)
  BY <1>7, <1>8
<1>17. CASE t.number # wanted
  <2>1. Current' = Current /\ Overs' = Overs /\ (\A i : IsEntry(i)' <=> IsEntry(i)) /\ seen' = seen
    BY <1>3, <1>10, <1>11, <1>12, <1>17
  <2>2. \A i : IsEntry(i) => i \in 1 .. n /\ mail'[i] = mail[i]
    BY <1>4, <1>5 DEF IsEntry, IsCurrent
  <2>3. Numbered'
    BY <1>3, <1>4, <1>15, <1>16, <1>17, <2>1 DEF Numbered
  <2>4. OnceOnly'
    <3>1. /\ G!IsInjective(gallery_shown)' /\ G!ToSet(gallery_shown)' = G!ToSet(gallery_shown)
          /\ G!ToSet(gallery_shown) \subseteq Begun
      BY <1>3 DEF OnceOnly, G!IsInjective, G!ToSet
    <3>2. ASSUME NEW i \in DOMAIN mail, IsEntry(i)
          PROVE  /\ mail'[i].entry \in Begun /\ mail'[i].entry \notin G!ToSet(gallery_shown)
                 /\ \A u \in Current : u.shot[1] # mail'[i].entry
                 /\ \A j \in DOMAIN mail : IsEntry(j) /\ mail'[j].entry = mail'[i].entry => j = i
      BY <2>2, <3>2 DEF OnceOnly
    <3>3. \A i : IsEntry(i) => i \in DOMAIN mail
      BY <1>4, <2>2
    <3> QED
      BY <1>12, <2>1, <3>1, <3>2, <3>3 DEF OnceOnly
  <2>5. Counted'
    BY <1>3, <2>1 DEF Counted
  <2>6. SeenIsComing'
    <3>1. {mail'[i].entry : i \in {j \in DOMAIN mail' : IsEntry(j)'}} = {mail[i].entry : i \in {j \in DOMAIN mail : IsEntry(j)}}
      BY <1>4, <1>9, <2>1, <2>2
    <3> QED
      BY <1>3, <2>1, <3>1 DEF SeenIsComing, G!ToSet
  <2>7. LoadedMeansAll'
    BY <1>3, <1>4, <1>16, <1>17, <2>1 DEF LoadedMeansAll
  <2> QED
    BY <1>13, <1>14, <2>3, <2>4, <2>5, <2>6, <2>7
<1>18. CASE t.number = wanted
  <2>1. t \in Current /\ ready /\ Overs' = Overs \cup {k}
    BY <1>11, <1>12, <1>18 DEF Numbered
  <2>2. pending
    BY <2>1 DEF LoadedMeansAll
  <2>3. \A i : IsEntry(i)' <=> (IsEntry(i) \/ (i = n + 1 /\ k = n + 2))
    BY <1>10, <1>18
  <2>4. \A i : IsEntry(i) => i \in 1 .. n /\ mail'[i] = mail[i] /\ i # n + 1
    BY <1>4, <1>5, <1>9 DEF IsEntry, IsCurrent
  <2>5. Numbered'
    BY <1>3, <1>15, <2>1 DEF Numbered
  <2>6. OnceOnly'
    <3>1. /\ G!IsInjective(gallery_shown)' /\ G!ToSet(gallery_shown)' = G!ToSet(gallery_shown)
          /\ G!ToSet(gallery_shown) \subseteq Begun
      BY <1>3 DEF OnceOnly, G!IsInjective, G!ToSet
    <3>2. s \in Begun /\ s \notin G!ToSet(gallery_shown) /\ (\A u \in Current' : u.shot[1] # s)
      BY <1>1, <1>12, <2>1 DEF OnceOnly
    <3>3. \A i : IsEntry(i) => mail'[i].entry # s
      BY <1>1, <1>4, <2>1, <2>4 DEF OnceOnly
    <3>4. ASSUME NEW i \in DOMAIN mail', IsEntry(i)'
          PROVE  /\ mail'[i].entry \in Begun /\ mail'[i].entry \notin G!ToSet(gallery_shown)
                 /\ \A u \in Current' : u.shot[1] # mail'[i].entry
                 /\ \A j \in DOMAIN mail' : IsEntry(j)' /\ mail'[j].entry = mail'[i].entry => j = i
      <4>1. CASE IsEntry(i)
        <5>1. /\ mail[i].entry \in Begun /\ mail[i].entry \notin G!ToSet(gallery_shown)
              /\ \A u \in Current : u.shot[1] # mail[i].entry
              /\ \A j : IsEntry(j) /\ mail[j].entry = mail[i].entry => j = i
          BY <1>4, <2>4, <4>1 DEF OnceOnly
        <5>2. ASSUME NEW j, IsEntry(j)', mail'[j].entry = mail'[i].entry PROVE j = i
          <6>1. CASE IsEntry(j)
            BY <2>4, <4>1, <5>1, <5>2, <6>1
          <6>2. CASE j = n + 1 /\ k = n + 2
            BY <1>4, <1>5, <1>7, <3>3, <4>1, <5>2, <6>2
          <6> QED
            BY <2>3, <5>2, <6>1, <6>2
        <5> QED
          BY <1>12, <2>4, <4>1, <5>1, <5>2
      <4>2. CASE i = n + 1 /\ k = n + 2
        <5>1. mail'[i].entry = s
          BY <1>4, <1>5, <1>7, <4>2
        <5> QED
          BY <2>3, <3>2, <3>3, <4>2, <5>1
      <4> QED
        BY <2>3, <3>4, <4>1, <4>2
    <3> QED
      BY <1>12, <3>1, <3>4 DEF OnceOnly
  <2>7. Counted'
    <3>1. IsFiniteSet(Current) /\ total = done + Cardinality(Current) + Cardinality(Overs) /\ done \in Nat
      BY <2>1 DEF Counted, GalleryTyped
    <3>2. IsFiniteSet(Overs) /\ k \notin Overs
      <4>1. Overs \subseteq 1 .. n
        BY <1>4 DEF Overs
      <4>2. IsFiniteSet(1 .. n)
        BY <1>4, FS_Interval
      <4> QED
        BY <1>9, <4>1, <4>2, FS_Subset
    <3>3. IsFiniteSet(Current') /\ Cardinality(Current') = Cardinality(Current) - 1
      BY <1>12, <2>1, <3>1, FS_RemoveElement
    <3>4. Cardinality(Overs') = Cardinality(Overs) + 1
      BY <2>1, <3>2, FS_AddElement
    <3>5. Cardinality(Overs) \in Nat /\ Cardinality(Current) \in Nat
      BY <3>1, <3>2, FS_CardinalityType
    <3> QED
      BY <1>3, <3>1, <3>3, <3>4, <3>5 DEF Counted
  <2>8. SeenIsComing'
    <3>1. {mail'[i].entry : i \in {j \in DOMAIN mail' : IsEntry(j)'}}
             = {mail[i].entry : i \in {j \in DOMAIN mail : IsEntry(j)}} \cup (IF k = n + 2 THEN {s} ELSE {})
      <4>1. k = n + 2 => n + 1 \in 1 .. k /\ mail'[n + 1].entry = s
        BY <1>4, <1>5, <1>7
      <4> QED
        BY <1>4, <1>9, <2>3, <2>4, <4>1
    <3>2. seen' = seen \cup (IF k = n + 2 THEN {s} ELSE {})
      BY <1>3, <1>4, <1>5, <1>18
    <3> QED
      BY <1>3, <3>1, <3>2 DEF SeenIsComing, G!ToSet
  <2>9. LoadedMeansAll'
    BY <1>3, <2>2 DEF LoadedMeansAll
  <2> QED
    BY <1>13, <1>14, <2>5, <2>6, <2>7, <2>8, <2>9
<1> QED
  BY <1>17, <1>18

\* The next message is taken: each message moves one place to the front.
LEMMA TakenEffect ==
    ASSUME GalleryInv, mail # <<>>, mail' = Tail(mail), wanted' = wanted
    PROVE  /\ mail' \in Seq(Mail) /\ Len(mail) \in Nat \ {0}
           /\ DOMAIN mail = 1 .. Len(mail) /\ DOMAIN mail' = 1 .. Len(mail) - 1
           /\ Head(mail) = mail[1] /\ \A i \in 1 .. Len(mail) - 1 : mail'[i] = mail[i + 1]
           /\ \A i \in 1 .. Len(mail) - 1 : i + 1 \in 2 .. Len(mail) /\ (IsEntry(i)' <=> IsEntry(i + 1))
           /\ \A i \in 2 .. Len(mail) : i - 1 \in 1 .. Len(mail) - 1 /\ (i - 1) + 1 = i
           /\ \A i : IsEntry(i)' => i \in 1 .. Len(mail) - 1
           /\ OversFollow'
           /\ IsFiniteSet(Overs) /\ IsFiniteSet(Overs')
           /\ Cardinality(Overs') = Cardinality(Overs) - (IF 1 \in Overs THEN 1 ELSE 0)
           /\ Cardinality(Overs) \in Nat /\ Cardinality(Overs') \in Nat
           /\ \A i \in 1 .. Len(mail) - 1 : i \in Overs' <=> i + 1 \in Overs
<1> USE DEF GalleryInv
<1>1. PICK n, m, o, p : n = Len(mail) /\ m = mail' /\ o = Overs /\ p = Overs'
  OBVIOUS
<1>2. mail \in Seq(Mail)
  BY DEF GalleryTyped
<1>3. \A a \in Seq(Mail) : a # <<>> =>
          /\ Tail(a) \in Seq(Mail) /\ Len(a) \in Nat \ {0} /\ Len(Tail(a)) = Len(a) - 1 /\ Head(a) = a[1]
          /\ \A i \in 1 .. Len(a) - 1 : Tail(a)[i] = a[i + 1]
  BY HeadTailProperties
<1>4. /\ m \in Seq(Mail) /\ n \in Nat \ {0} /\ Len(m) = n - 1 /\ Head(mail) = mail[1]
      /\ \A i \in 1 .. n - 1 : m[i] = mail[i + 1]
  BY <1>1, <1>2, <1>3
<1>5. DOMAIN mail = 1 .. n /\ DOMAIN m = 1 .. n - 1
  BY <1>1, <1>2, <1>4
<1>6. /\ \A i \in 1 .. n - 1 : i + 1 \in 2 .. n /\ i + 1 \in 1 .. n
      /\ \A i \in 2 .. n : i - 1 \in 1 .. n - 1 /\ (i - 1) + 1 = i
      /\ 2 .. n \subseteq 1 .. n /\ 1 \in 1 .. n
      /\ \A i \in 1 .. n : i = 1 \/ i \in 2 .. n
  BY <1>4
<1>7. /\ \A i : IsEntry(i)' <=> (i \in 1 .. n - 1 /\ m[i].number = wanted /\ m[i].entry # None)
      /\ \A i : IsEntry(i) <=> (i \in 1 .. n /\ mail[i].number = wanted /\ mail[i].entry # None)
      /\ \A i : i \in p <=> (i \in 1 .. n - 1 /\ m[i].number = wanted /\ m[i].entry = None)
      /\ \A i : i \in o <=> (i \in 1 .. n /\ mail[i].number = wanted /\ mail[i].entry = None)
  BY <1>1, <1>5 DEF IsEntry, IsCurrent, Overs
<1>8. /\ \A i \in 1 .. n - 1 : IsEntry(i)' <=> IsEntry(i + 1)
      /\ \A i \in 1 .. n - 1 : i \in p <=> i + 1 \in o
  <2> SUFFICES ASSUME NEW i \in 1 .. n - 1 PROVE (IsEntry(i)' <=> IsEntry(i + 1)) /\ (i \in p <=> i + 1 \in o)
    OBVIOUS
  <2>1. i + 1 \in 1 .. n /\ m[i] = mail[i + 1]
    BY <1>4, <1>6
  <2>2. IsEntry(i)' <=> IsEntry(i + 1)
    BY <1>7, <2>1
  <2>3. i \in p <=> i + 1 \in o
    BY <1>7, <2>1
  <2> QED
    BY <2>2, <2>3
<1>9. IsFiniteSet(o) /\ IsFiniteSet(p) /\ Cardinality(o) \in Nat /\ Cardinality(p) \in Nat
  <2>1. o \subseteq 1 .. n /\ p \subseteq 1 .. n
    BY <1>4, <1>7
  <2>2. IsFiniteSet(1 .. n)
    BY <1>4, FS_Interval
  <2> QED
    BY <2>1, <2>2, FS_Subset, FS_CardinalityType
<1>10. Cardinality(p) = Cardinality(o \ {1})
  <2>1. PICK f : f = [i \in p |-> i + 1]
    OBVIOUS
  <2>2. f \in [p -> o \ {1}]
    BY <1>4, <1>7, <1>8, <2>1
  <2>3. \A i, j \in p : f[i] = f[j] => i = j
    BY <1>4, <1>7, <2>1
  <2>4. \A j \in o \ {1} : \E i \in p : f[i] = j
    <3> SUFFICES ASSUME NEW j \in o \ {1} PROVE \E i \in p : f[i] = j
      OBVIOUS
    <3>1. j \in 2 .. n
      BY <1>6, <1>7
    <3>2. j - 1 \in 1 .. n - 1 /\ (j - 1) + 1 = j
      BY <1>6, <3>1
    <3>3. j - 1 \in p
      BY <1>8, <3>2
    <3> QED
      BY <2>1, <3>2, <3>3
  <2>5. f \in Bijection(p, o \ {1})
    BY <2>2, <2>3, <2>4 DEF Bijection, Injection, Surjection, IsInjective
  <2> QED
    BY <1>9, <2>5, FS_Bijection DEF ExistsBijection
<1>11. Cardinality(p) = Cardinality(o) - (IF 1 \in o THEN 1 ELSE 0)
  <2>1. Cardinality(o \ {1}) = IF 1 \in o THEN Cardinality(o) - 1 ELSE Cardinality(o)
    BY <1>9, FS_RemoveElement
  <2> QED
    BY <1>9, <1>10, <2>1
<1>12. OversFollow'
  <2> SUFFICES ASSUME NEW i \in 1 .. n - 1, m[i].entry # None
               PROVE  i + 1 \in 1 .. n - 1 /\ m[i + 1] = [number |-> m[i].number, entry |-> None]
    BY <1>1, <1>5 DEF OversFollow
  <2>1. i + 1 \in DOMAIN mail /\ m[i] = mail[i + 1]
    BY <1>4, <1>5, <1>6
  <2>2. (i + 1) + 1 \in 1 .. n /\ mail[(i + 1) + 1] = [number |-> m[i].number, entry |-> None]
    BY <1>5, <2>1 DEF OversFollow
  <2>3. i + 1 \in 1 .. n - 1
    BY <1>4, <2>2
  <2> QED
    BY <1>4, <2>2, <2>3
<1>13. \A i : IsEntry(i)' => i \in 1 .. n - 1
  BY <1>7
<1> QED
  BY <1>1, <1>4, <1>5, <1>6, <1>8, <1>9, <1>11, <1>12, <1>13

LEMMA ReadMailKeeps == ASSUME GalleryInv, G!ReadMail PROVE GalleryInv'
<1> USE DEF GalleryInv
<1>1. PICK n, m : n = Len(mail) /\ m = mail[1]
  OBVIOUS
<1>2. /\ mail # <<>> /\ mail' = Tail(mail)
      /\ UNCHANGED <<disk, scan, candidates, loaded, total, ready, wanted, tasks, seen>>
  BY DEF G!ReadMail
<1>3. /\ mail' \in Seq(Mail) /\ n \in Nat \ {0} /\ DOMAIN mail = 1 .. n /\ DOMAIN mail' = 1 .. n - 1
      /\ Head(mail) = m /\ \A i \in 1 .. n - 1 : mail'[i] = mail[i + 1]
      /\ \A i \in 1 .. n - 1 : i + 1 \in 2 .. n /\ (IsEntry(i)' <=> IsEntry(i + 1))
      /\ \A i \in 2 .. n : i - 1 \in 1 .. n - 1 /\ (i - 1) + 1 = i
      /\ \A i : IsEntry(i)' => i \in 1 .. n - 1
  BY <1>1, <1>2, TakenEffect
<1>4. /\ OversFollow' /\ IsFiniteSet(Overs) /\ IsFiniteSet(Overs')
      /\ Cardinality(Overs') = Cardinality(Overs) - (IF 1 \in Overs THEN 1 ELSE 0)
      /\ Cardinality(Overs) \in Nat /\ Cardinality(Overs') \in Nat
      /\ \A i \in 1 .. n - 1 : i \in Overs' <=> i + 1 \in Overs
  BY <1>1, <1>2, TakenEffect
<1>5. 1 \in 1 .. n /\ 2 .. n \subseteq 1 .. n /\ \A i \in 1 .. n : i = 1 \/ i \in 2 .. n
  BY <1>3
<1>6. m \in Mail /\ (1 \in Overs <=> (m.number = wanted /\ m.entry = None)) /\ (IsEntry(1) <=> (m.number = wanted /\ m.entry # None))
  BY <1>1, <1>3, <1>5 DEF GalleryTyped, Overs, IsEntry, IsCurrent
<1>7. Current' = Current /\ Begun' = Begun
  BY <1>2 DEF Current, Begun
<1>8. \A i \in DOMAIN mail' : mail'[i].number <= wanted
  <2>1. \A i \in 1 .. n - 1 : i + 1 \in DOMAIN mail
    BY <1>3, <1>5
  <2> QED
    BY <1>3, <2>1 DEF Numbered
<1>9. \A i \in 1 .. n - 1 : i + 1 \in 1 .. n /\ i + 1 # 1
  BY <1>3
\* The messages that are left are of what they were of.
<1>10. /\ \A i \in 1 .. n - 1 : IsEntry(i)' => /\ IsEntry(i + 1) /\ mail'[i].entry \in Begun
                                               /\ mail'[i].entry \notin G!ToSet(gallery_shown)
                                               /\ \A t \in Current : t.shot[1] # mail'[i].entry
       /\ \A i, j \in 1 .. n - 1 : IsEntry(i)' /\ IsEntry(j)' /\ mail'[j].entry = mail'[i].entry => j = i
  <2>1. ASSUME NEW i \in 1 .. n - 1, IsEntry(i)'
        PROVE  /\ IsEntry(i + 1) /\ mail'[i] = mail[i + 1] /\ mail[i + 1].entry \in Begun
               /\ mail[i + 1].entry \notin G!ToSet(gallery_shown)
               /\ \A t \in Current : t.shot[1] # mail[i + 1].entry
               /\ \A j \in DOMAIN mail : IsEntry(j) /\ mail[j].entry = mail[i + 1].entry => j = i + 1
    BY <1>3, <1>9, <2>1 DEF OnceOnly
  <2>2. \A i, j \in 1 .. n - 1 : j + 1 = i + 1 => j = i
    BY <1>3
  <2>3. ASSUME NEW i \in 1 .. n - 1, NEW j \in 1 .. n - 1, IsEntry(i)', IsEntry(j)', mail'[j].entry = mail'[i].entry PROVE j = i
    <3>1. mail[j + 1].entry = mail[i + 1].entry /\ IsEntry(j + 1) /\ j + 1 \in DOMAIN mail
      BY <1>3, <1>9, <2>1, <2>3
    <3> QED
      BY <2>1, <2>2, <2>3, <3>1
  <2> QED
    BY <2>1, <2>3
<1>11. {mail'[i].entry : i \in {j \in DOMAIN mail' : IsEntry(j)'}} = {mail[i].entry : i \in {j \in 2 .. n : IsEntry(j)}}
  <2>1. ASSUME NEW i \in 1 .. n - 1, IsEntry(i)' PROVE \E j \in 2 .. n : IsEntry(j) /\ mail'[i].entry = mail[j].entry
    BY <1>3, <2>1
  <2>2. ASSUME NEW j \in 2 .. n, IsEntry(j) PROVE \E i \in 1 .. n - 1 : IsEntry(i)' /\ mail'[i].entry = mail[j].entry
    <3>1. j - 1 \in 1 .. n - 1 /\ (j - 1) + 1 = j
      BY <1>3
    <3>2. IsEntry(j - 1)' /\ mail'[j - 1] = mail[j]
      <4>1. \A i \in 1 .. n - 1 : i + 1 = j => (IsEntry(i)' /\ mail'[i] = mail[j])
        BY <1>3, <2>2
      <4> QED
        BY <3>1, <4>1
    <3> QED
      BY <3>1, <3>2
  <2>3. \A i : i \in {j \in DOMAIN mail' : IsEntry(j)'} <=> (i \in 1 .. n - 1 /\ IsEntry(i)')
    BY <1>3
  <2>4. PICK a, b : a = {j \in DOMAIN mail' : IsEntry(j)'} /\ b = {j \in 2 .. n : IsEntry(j)}
    OBVIOUS
  <2>5. (\A i \in a : \E j \in b : mail'[i].entry = mail[j].entry) /\ (\A j \in b : \E i \in a : mail'[i].entry = mail[j].entry)
    BY <2>1, <2>2, <2>3, <2>4
  <2> QED
    BY <2>4, <2>5
<1>12. {mail[i].entry : i \in {j \in DOMAIN mail : IsEntry(j)}}
          = {mail[i].entry : i \in {j \in 2 .. n : IsEntry(j)}} \cup (IF IsEntry(1) THEN {m.entry} ELSE {})
  BY <1>1, <1>3, <1>5
<1>13. CASE m.number # wanted
  <2>1. UNCHANGED <<gallery_shown, done, pending>>
    BY <1>3, <1>13 DEF G!ReadMail, G!Latest
  <2>2. GalleryTyped'
    BY <1>2, <1>3, <2>1 DEF GalleryTyped, Distinct
  <2>3. \A i \in 1 .. n - 1 : mail'[i].number = wanted => \E j \in DOMAIN mail : mail[j].number = wanted
    BY <1>3, <1>9
  <2>4. Numbered'
    BY <1>2, <1>3, <1>7, <1>8, <2>1, <2>3 DEF Numbered
  <2>5. OnceOnly'
    <3>1. /\ G!IsInjective(gallery_shown)' /\ G!ToSet(gallery_shown)' = G!ToSet(gallery_shown)
          /\ G!ToSet(gallery_shown) \subseteq Begun
      BY <2>1 DEF OnceOnly, G!IsInjective, G!ToSet
    <3>2. /\ \A t \in Current : t.shot[1] \in Begun /\ t.shot[1] \notin G!ToSet(gallery_shown)
          /\ \A t, u \in Current : t.shot[1] = u.shot[1] => t = u
      BY DEF OnceOnly
    <3> QED
      BY <1>3, <1>7, <1>10, <3>1, <3>2 DEF OnceOnly
  <2>6. Counted'
    BY <1>2, <1>4, <1>6, <1>7, <1>13, <2>1 DEF Counted
  <2>7. SeenIsComing'
    BY <1>2, <1>6, <1>11, <1>12, <1>13, <2>1 DEF SeenIsComing, G!ToSet
  <2>8. LoadedMeansAll'
    BY <1>2, <1>3, <1>7, <2>1, <2>3 DEF LoadedMeansAll
  <2> QED
    BY <1>4, <2>2, <2>4, <2>5, <2>6, <2>7, <2>8
<1>14. m.number = wanted => ready /\ pending
  <2>1. m.number = wanted => \E i \in DOMAIN mail : mail[i].number = wanted
    BY <1>1, <1>3, <1>5
  <2> QED
    BY <2>1 DEF Numbered, LoadedMeansAll
<1>15. CASE m.number = wanted /\ m.entry # None
  <2>1. gallery_shown' = Append(gallery_shown, m.entry) /\ UNCHANGED <<done, pending>>
    BY <1>3, <1>15 DEF G!ReadMail, G!Latest
  <2>2. m.entry \in Shots /\ gallery_shown \in Seq(Shots) /\ IsEntry(1) /\ 1 \notin Overs
    BY <1>6, <1>15 DEF GalleryTyped, Mail
  <2>3. /\ m.entry \in Begun /\ m.entry \notin G!ToSet(gallery_shown)
        /\ \A t \in Current : t.shot[1] # m.entry
        /\ \A j \in DOMAIN mail : IsEntry(j) /\ mail[j].entry = m.entry => j = 1
    BY <1>1, <1>3, <1>5, <2>2 DEF OnceOnly
  <2>4. /\ gallery_shown' \in Seq(Shots) /\ G!IsInjective(gallery_shown')
        /\ G!ToSet(gallery_shown') = G!ToSet(gallery_shown) \cup {m.entry}
    <3>1. PICK a, b, e : a = gallery_shown /\ e = m.entry /\ b = Append(a, e)
      OBVIOUS
    <3>2. a \in Seq(Shots) /\ e \in Shots /\ b \in Seq(Shots) /\ Len(b) = Len(a) + 1 /\ Len(a) \in Nat
          /\ (\A i \in 1 .. Len(a) : b[i] = a[i]) /\ b[Len(a) + 1] = e
      BY <2>2, <3>1
    <3>3. DOMAIN a = 1 .. Len(a) /\ DOMAIN b = 1 .. Len(a) + 1
      BY <3>2
    <3>4. G!IsInjective(a) /\ e \notin G!ToSet(a)
      BY <2>3, <3>1 DEF OnceOnly
    <3>5. G!ToSet(b) = G!ToSet(a) \cup {e}
      BY <3>2, <3>3 DEF G!ToSet
    <3>6. \A i \in 1 .. Len(a) + 1 : i \in 1 .. Len(a) \/ i = Len(a) + 1
      BY <3>2
    <3>7. \A i, j \in DOMAIN a : a[i] = a[j] => i = j
      BY <3>4 DEF G!IsInjective
    <3>8. \A i \in DOMAIN a : a[i] # e
      BY <3>4 DEF G!ToSet
    <3>9. \A i, j \in DOMAIN b : b[i] = b[j] => i = j
      BY <3>2, <3>3, <3>6, <3>7, <3>8
    <3>10. G!IsInjective(b)
      BY <3>9 DEF G!IsInjective
    <3> QED
      BY <2>1, <3>1, <3>2, <3>5, <3>10
  <2>5. GalleryTyped'
    BY <1>2, <1>3, <2>1, <2>4 DEF GalleryTyped, Distinct
  <2>6. Numbered'
    BY <1>2, <1>8, <1>14, <1>15 DEF Numbered
  <2>7. OnceOnly'
    <3>1. \A t \in Current : t.shot[1] \in Begun /\ t.shot[1] \notin G!ToSet(gallery_shown')
      BY <2>3, <2>4 DEF OnceOnly
    <3>2. \A t, u \in Current : t.shot[1] = u.shot[1] => t = u
      BY DEF OnceOnly
    <3>3. \A i \in 1 .. n - 1 : IsEntry(i)' => mail'[i].entry \notin G!ToSet(gallery_shown')
      <4>1. ASSUME NEW i \in 1 .. n - 1, IsEntry(i)' PROVE mail'[i].entry # m.entry
        BY <1>3, <1>9, <1>10, <2>3, <4>1
      <4> QED
        BY <1>10, <2>4, <4>1
    <3>4. G!ToSet(gallery_shown') \subseteq Begun
      BY <2>3, <2>4 DEF OnceOnly
    <3>5. G!IsInjective(gallery_shown)' /\ G!ToSet(gallery_shown)' = G!ToSet(gallery_shown')
      BY <2>4 DEF G!IsInjective, G!ToSet
    <3> QED
      BY <1>3, <1>7, <1>10, <3>1, <3>2, <3>3, <3>4, <3>5 DEF OnceOnly
  <2>8. Counted'
    BY <1>2, <1>4, <1>7, <2>1, <2>2 DEF Counted
  <2>9. SeenIsComing'
    <3>1. G!ToSet(gallery_shown)' = G!ToSet(gallery_shown) \cup {m.entry}
      BY <2>4 DEF G!ToSet
    <3> QED
      BY <1>2, <1>11, <1>12, <2>2, <3>1 DEF SeenIsComing
  <2>10. LoadedMeansAll'
    BY <1>2, <1>14, <1>15, <2>1 DEF LoadedMeansAll
  <2> QED
    BY <1>4, <2>5, <2>6, <2>7, <2>8, <2>9, <2>10
<1>16. CASE m.number = wanted /\ m.entry = None
  <2>1. gallery_shown' = gallery_shown /\ done' = done + 1
    BY <1>3, <1>16 DEF G!ReadMail, G!Latest
  <2>2. pending' <=> (pending /\ ~(ready /\ loaded >= Len(candidates) /\ done + 1 >= total))
    BY <1>3, <1>16 DEF G!ReadMail, G!Latest
  <2>3. 1 \in Overs /\ ~IsEntry(1) /\ ready /\ pending
    BY <1>6, <1>14, <1>16
  <2>4. total = done + Cardinality(Current) + Cardinality(Overs) /\ done \in Nat /\ total \in Nat
        /\ IsFiniteSet(Current) /\ Cardinality(Current) \in Nat
    BY <2>3, FS_CardinalityType DEF Counted, GalleryTyped
  <2>5. Cardinality(Overs') = Cardinality(Overs) - 1
    BY <1>4, <2>3
  <2>6. GalleryTyped'
    BY <1>2, <1>3, <2>1 DEF GalleryTyped, Distinct
  <2>7. Numbered'
    BY <1>2, <1>8, <2>3 DEF Numbered
  <2>8. OnceOnly'
    <3>1. /\ G!IsInjective(gallery_shown)' /\ G!ToSet(gallery_shown)' = G!ToSet(gallery_shown)
          /\ G!ToSet(gallery_shown) \subseteq Begun
      BY <2>1 DEF OnceOnly, G!IsInjective, G!ToSet
    <3>2. /\ \A t \in Current : t.shot[1] \in Begun /\ t.shot[1] \notin G!ToSet(gallery_shown)
          /\ \A t, u \in Current : t.shot[1] = u.shot[1] => t = u
      BY DEF OnceOnly
    <3> QED
      BY <1>3, <1>7, <1>10, <3>1, <3>2 DEF OnceOnly
  <2>9. Counted'
    BY <1>2, <1>4, <1>7, <2>1, <2>4, <2>5 DEF Counted
  <2>10. SeenIsComing'
    BY <1>2, <1>11, <1>12, <2>1, <2>3 DEF SeenIsComing, G!ToSet
  <2>11. LoadedMeansAll'
    <3>1. ASSUME ~pending' PROVE Current = {} /\ loaded >= Len(candidates) /\ \A i \in 1 .. n - 1 : mail'[i].number # wanted
      <4>1. loaded >= Len(candidates) /\ done + 1 >= total
        BY <2>2, <2>3, <3>1
      <4>2. Cardinality(Current) = 0 /\ Cardinality(Overs') = 0
        BY <1>4, <2>4, <2>5, <4>1
      <4>3. Current = {} /\ Overs' = {}
        BY <1>4, <2>4, <4>2, FS_EmptySet
      <4>4. ASSUME NEW i \in 1 .. n - 1, mail'[i].number = wanted PROVE FALSE
        <5>1. CASE mail'[i].entry = None
          BY <1>2, <1>3, <4>3, <4>4, <5>1 DEF Overs
        <5>2. CASE mail'[i].entry # None
          <6>1. i + 1 \in DOMAIN mail' /\ mail'[i + 1] = [number |-> mail'[i].number, entry |-> None]
            BY <1>3, <1>4, <5>2 DEF OversFollow
          <6>2. mail'[i + 1].number = wanted /\ mail'[i + 1].entry = None
            BY <4>4, <6>1
          <6> QED
            BY <1>2, <4>3, <6>1, <6>2 DEF Overs
        <5> QED
          BY <5>1, <5>2
      <4> QED
        BY <4>1, <4>3, <4>4
    <3>2. pending' => done' < total \/ loaded < Len(candidates)
      BY <2>1, <2>2, <2>3, <2>4 DEF GalleryTyped
    <3>3. scan.at # "none" /\ ~scan.force => ~pending'
      BY <2>3 DEF LoadedMeansAll
    <3> QED
      BY <1>2, <1>3, <1>7, <3>1, <3>2, <3>3 DEF LoadedMeansAll
  <2> QED
    BY <1>4, <2>6, <2>7, <2>8, <2>9, <2>10, <2>11
<1> QED
  BY <1>13, <1>15, <1>16

LEMMA GalleryStep == GalleryInv /\ [G!Next]_galleryVars => GalleryInv'
<1> SUFFICES ASSUME GalleryInv, [G!Next]_galleryVars PROVE GalleryInv'
  OBVIOUS
<1>0. ASSUME UNCHANGED <<disk, G!galleryVars>> PROVE GalleryInv'
  <2>1. UNCHANGED <<disk, candidates, loaded, gallery_shown, total, done, pending, ready, wanted, tasks, mail, seen, scan>>
    BY <1>0 DEF G!galleryVars
  <2> QED
    BY <2>1, GalleryUnchanged DEF GalleryInv, GalleryTyped, LoadedMeansAll
<1>1. ASSUME G!WatchNext PROVE GalleryInv'
  BY <1>0, <1>1 DEF G!WatchNext, G!StartWatch, G!PollWatch
<1>2. ASSUME G!LogNext PROVE GalleryInv'
  BY <1>0, <1>2 DEF G!LogNext, G!WriteLog, G!Select, G!ScanLogs, G!PollScan, G!Sync, G!ReadLog, G!PollLoad
<1>3. ASSUME \E s \in Shots : G!Change(s) PROVE GalleryInv'
  BY <1>3, AsideKeeps
<1>4. ASSUME G!GalleryNext PROVE GalleryInv'
  BY <1>4, AsideKeeps, AdoptKeeps, NextPageKeeps, ReadShotKeeps, ReadMailKeeps, ForgetKeeps DEF G!GalleryNext
<1>5. CASE UNCHANGED galleryVars
  BY <1>0, <1>5 DEF galleryVars, G!galleryVars
<1> QED
  BY <1>1, <1>2, <1>3, <1>4, <1>5 DEF G!Next

-----------------------------------------------------------------------------
\* The screens together: a step is one of its own screen, and leaves the others alone.
ScreensInv == /\ MovesInv /\ LogInv /\ WatchInv /\ GalleryInv
              /\ HomeInv /\ SearchInv /\ DetailInv

LEMMA ScreensStart == MCInit => ScreensInv
BY MovesStart, LogStart, WatchStart, GalleryStart, HomeStart, SearchStart, DetailStart
   DEF MCInit, S!DiscoverInit, ScreensInv

LEMMA DiscoverStep ==
    SearchInv /\ DetailInv /\ [S!SearchNext \/ S!DetailNext]_searchVars => SearchInv' /\ DetailInv'
<1> SUFFICES ASSUME SearchInv, DetailInv, [S!SearchNext \/ S!DetailNext]_searchVars PROVE SearchInv' /\ DetailInv'
  OBVIOUS
<1>1. ASSUME UNCHANGED <<query, found, found_page, searching, mixed>> PROVE SearchInv'
  BY <1>1 DEF SearchInv, SearchTyped, OneSearch, S!ResultsAreOfOneSearch
<1>2. ASSUME UNCHANGED S!detailVars PROVE DetailInv'
  BY <1>2 DEF DetailInv, DetailTyped, FetchesAreCounted, S!VersionsAreThePacks, S!detailVars
<1>3. CASE S!SearchNext
  BY <1>2, <1>3, SearchStep DEF S!SearchNext
<1>4. CASE S!DetailNext
  <2>1. UNCHANGED S!searchVars
    BY <1>4 DEF S!DetailNext, S!OpenDetail, S!SelectSource, S!DetailTick
  <2> QED
    BY <1>1, <1>4, <2>1, DetailStep DEF S!searchVars
<1>5. CASE UNCHANGED searchVars
  BY <1>1, <1>2, <1>5 DEF searchVars, S!detailVars
<1> QED
  BY <1>3, <1>4, <1>5

LEMMA OnlyItsScreen ==
    [MCNext]_allVars => /\ [M!Next]_moveVars /\ [G!Next]_galleryVars /\ [H!Next]_homeVars
                        /\ [S!SearchNext \/ S!DetailNext]_searchVars
<1> SUFFICES ASSUME [MCNext]_allVars
             PROVE  /\ [M!Next]_moveVars /\ [G!Next]_galleryVars /\ [H!Next]_homeVars
                    /\ [S!SearchNext \/ S!DetailNext]_searchVars
  OBVIOUS
<1>1. CASE UNCHANGED allVars
  BY <1>1 DEF allVars, screenVars, discoverVars
<1>2. CASE MCNext
  BY <1>2 DEF MCNext, Registry, Pace, screenVars, discoverVars
<1> QED
  BY <1>1, <1>2

LEMMA ScreensStep == ScreensInv /\ [MCNext]_allVars => ScreensInv'
BY OnlyItsScreen, MovesStep, LogStep, WatchStep, GalleryStep, HomeStep, DiscoverStep DEF ScreensInv

LEMMA ScreensInvIsRight == ScreensInv => ScreensAreRight
BY LogInvIsLatest, GalleryInvShows, HomeInvIsRight
   DEF ScreensInv, ScreensAreRight, MovesInv, WatchInv, SearchInv, DetailInv, G!GalleriesAreRight, S!DiscoverIsRight

(* An instance that was moved is whole where its record points, and one whose move failed    *)
(* where it was; the gallery shows each screenshot that its latest request could read, once, *)
(* the watcher announces each new one once, and a log is as new as what was asked for; the   *)
(* home screen shows what its latest scan found, once, and asks each server once at a time;  *)
(* and the packs shown are of one search, a pack's versions its own.                          *)
THEOREM ScreensStayRight == MCSpec => []ScreensAreRight
<1>1. MCInit => ScreensInv
  BY ScreensStart
<1>2. ScreensInv /\ [MCNext]_allVars => ScreensInv'
  BY ScreensStep
<1>3. ScreensInv => ScreensAreRight
  BY ScreensInvIsRight
<1>4. MCSpec => MCInit /\ [][MCNext]_allVars
  BY PTL DEF MCSpec
<1> QED
  BY <1>1, <1>2, <1>3, <1>4, PTL

=============================================================================
