-------------------------- MODULE MCInstances_proofs --------------------------
(***************************************************************************)
(* For any number of instances and launches, and whatever is made, deleted *)
(* and launched at once: every instance of the store has a folder of its   *)
(* own, and a deletion that the card allowed meets neither a launch nor a  *)
(* game.  And for any packs, requests and files: an import goes by what    *)
(* was inspected last, runs once, keeps what the user downloaded for it    *)
(* until it has ended, makes a whole instance or none, and takes over what *)
(* fits together.                                                          *)
(***************************************************************************)
EXTENDS MCInstances, TLAPS

Numbered == 1..made
Job == [id : Numbered, kind : Kinds, heard : BOOLEAN, at : {"begun", "chosen", "made"},
        base : SUBSET Numbered]
Result == [id : Numbered, base : SUBSET Numbered, ok : BOOLEAN]
Launch == [n : Nat, id : Numbered, at : {"preparing", "starting", "answered"}]

LifeTyped ==
    /\ made \in 0..MaxInstances
    /\ records \in SUBSET Numbered
    /\ home \in [Instances -> Roots \cup {0}]
    /\ jobs \in SUBSET Job
    /\ results \in [Kinds -> Seq(Result)]
    /\ launches \in SUBSET Launch
    /\ requested \in Nat
    /\ target \in [id : Numbered \cup {0}, card : BOOLEAN]
    /\ deletion \in [at : {"no", "working", "deleted", "failed"}, id : Numbered \cup {0},
                     card : BOOLEAN]
    /\ deletion.at # "no" => deletion.id # 0

\* What has arrived on a channel.
In(k) == {results[k][n] : n \in DOMAIN results[k]}

\* An instance nobody but its job has heard of yet.
Unseen(i) ==
    /\ i \notin records /\ i # deletion.id /\ i # target.id
    /\ \A l \in launches : l.id # i
    /\ \A j \in jobs : i \notin j.base
    /\ \A k \in Kinds : \A r \in In(k) : i \notin r.base

\* An instance that is being made is in one place only.
Apart ==
    /\ \A j \in jobs :
         /\ Unseen(j.id)
         /\ \A o \in jobs : o.id = j.id => o = j
         /\ \A k \in Kinds : \A r \in In(k) : r.id # j.id
    /\ \A k \in Kinds : \A r \in In(k) :
         /\ Unseen(r.id)
         /\ \A l \in Kinds \ {k} : \A s \in In(l) : s.id # r.id

Housed(S) == \A i \in S : home[i] # 0 /\ \A o \in S : home[i] = home[o] => i = o

\* The store, every copy of it, and what a copy will become.
Homes ==
    /\ \A i \in Instances : i > made => home[i] = 0
    /\ Housed(records)
    /\ \A j \in jobs :
         /\ Housed(j.base)
         /\ j.at = "begun" => home[j.id] = 0
         /\ j.at # "begun" => Housed(j.base \cup {j.id})
    /\ \A k \in Kinds : \A r \in In(k) : r.ok => Housed(r.base \cup {r.id})

Owner(i) ==
    \/ i \in records \/ i = deletion.id
    \/ \E j \in jobs : j.id = i
    \/ \E k \in Kinds : \E r \in In(k) : r.id = i

\* Who has a folder, or will have, has it alone, and it is there.
Present ==
    /\ \A i, o \in Numbered : Owner(i) /\ Owner(o) /\ home[i] = home[o] /\ home[i] # 0 => i = o
    /\ \A i \in records : home[i] \in folders \/ (deletion.id = i /\ deletion.at = "deleted")
    /\ \A j \in jobs : j.at = "made" => home[j.id] \in folders
    /\ \A k \in Kinds : \A r \in In(k) : r.ok => home[r.id] \in folders

Running(i) == \E l \in launches : l.at # "answered" /\ l.id = i

\* Launches are of instances of the store, one of each, and stay pending; from the card
\* that allows it to the work, a deletion keeps them away.
Covered ==
    /\ \A l \in launches : l.at # "answered" => l.id \in records
    /\ \A l \in launches : l.id \in records => l.id \in pending
    /\ \A l, o \in launches : l.id = o.id => l = o
    /\ dialog = "delete" /\ target.card /\ target.id \in records =>
         target.id \notin pending /\ home[target.id] \notin playing
    /\ deletion.at # "no" => deletion.id \notin records \/ (dialog = "delete" /\ target.id = deletion.id)
    /\ deletion.at = "working" /\ deletion.card =>
         home[deletion.id] \notin playing /\ ~Running(deletion.id)
    /\ deletion.at = "deleted" => ~Running(deletion.id)
    /\ "launch" \notin hit /\ "game" \notin hit

Tracked == "replaced" \notin trouble /\ "shared" \notin trouble
Quiet == trouble \cap Troubles = {}

LifeInv ==
    /\ LifeTyped /\ Apart /\ Homes
    /\ Tracked => Present
    /\ Quiet => Covered

\* The type of each variable, for citing one at a time.
LEMMA LifeTypes ==
    ASSUME LifeTyped
    PROVE  /\ made \in Nat /\ MaxInstances \in Nat /\ made <= MaxInstances
           /\ Numbered \subseteq Instances /\ Instances = 1..MaxInstances
           /\ \A i \in Numbered : i \in Instances /\ i <= made /\ i # 0
           /\ home \in [Instances -> Roots \cup {0}] /\ records \in SUBSET Numbered
           /\ jobs \in SUBSET Job /\ launches \in SUBSET Launch /\ requested \in Nat
           /\ results \in [Kinds -> Seq(Result)]
           /\ deletion \in [at : {"no", "working", "deleted", "failed"}, id : Numbered \cup {0},
                            card : BOOLEAN]
           /\ deletion.at # "no" => deletion.id \in Numbered
           /\ target \in [id : Numbered \cup {0}, card : BOOLEAN]
           /\ \A j \in jobs : /\ j.id \in Numbered /\ j.kind \in Kinds /\ j.base \subseteq Numbered
                              /\ j.at \in {"begun", "chosen", "made"}
           /\ \A k \in Kinds : \A r \in In(k) :
                /\ r \in Result /\ r.id \in Numbered /\ r.base \subseteq Numbered /\ r.ok \in BOOLEAN
           /\ \A l \in launches : /\ l.n \in Nat /\ l.id \in Numbered
                                  /\ l.at \in {"preparing", "starting", "answered"}
<1>1. /\ made \in Nat /\ MaxInstances \in Nat /\ made <= MaxInstances
      /\ Numbered \subseteq Instances /\ Instances = 1..MaxInstances
      /\ \A i \in Numbered : i \in Instances /\ i <= made /\ i # 0
  BY LifecycleAssumption DEF LifeTyped, Numbered, Instances
<1>2. ASSUME NEW k \in Kinds, NEW r \in In(k) PROVE r \in Result
  <2>1. results[k] \in Seq(Result)
    BY DEF LifeTyped
  <2>2. PICK n \in DOMAIN results[k] : r = results[k][n]
    BY DEF In
  <2> QED
    BY <2>1, <2>2
<1>3. \A r \in Result : r.id \in Numbered /\ r.base \subseteq Numbered /\ r.ok \in BOOLEAN
  BY DEF Result
<1>4. \A j \in Job : /\ j.id \in Numbered /\ j.kind \in Kinds /\ j.base \subseteq Numbered
                     /\ j.at \in {"begun", "chosen", "made"}
  BY DEF Job
<1>5. \A l \in Launch : l.n \in Nat /\ l.id \in Numbered /\ l.at \in {"preparing", "starting", "answered"}
  BY DEF Launch
<1> QED
  BY <1>1, <1>2, <1>3, <1>4, <1>5 DEF LifeTyped

\* A sequence over a set is one over any larger set.
LEMMA SubSeqs ==
    ASSUME NEW S, NEW T, S \subseteq T, NEW s \in Seq(S)
    PROVE  s \in Seq(T)
OBVIOUS

\* What a poll takes is the first that arrived.
LEMMA HeadIsIn ==
    ASSUME LifeTyped, NEW k \in Kinds, results[k] # <<>>
    PROVE  Head(results[k]) \in In(k)
<1>1. results[k] \in Seq(Result)
  BY DEF LifeTyped
<1>2. 1 \in DOMAIN results[k] /\ Head(results[k]) = results[k][1]
  BY <1>1
<1> QED
  BY <1>2 DEF In

\* A channel that has been emptied.
LEMMA EmptiedChannel ==
    ASSUME LifeTyped, NEW k \in Kinds, results' = [results EXCEPT ![k] = <<>>]
    PROVE  /\ results' \in [Kinds -> Seq(Result)]
           /\ \A l \in Kinds : \A r \in In(l)' : l # k /\ r \in In(l)
<1>1. results \in [Kinds -> Seq(Result)] /\ <<>> \in Seq(Result)
  BY DEF LifeTyped
<1>2. results' \in [Kinds -> Seq(Result)]
  BY <1>1
<1>3. ASSUME NEW l \in Kinds, NEW r \in In(l)' PROVE l # k /\ r \in In(l)
  <2>1. r \in {results'[l][n] : n \in DOMAIN results'[l]}
    BY <1>3 DEF In
  <2>2. results'[l] = IF l = k THEN <<>> ELSE results[l]
    BY <1>1
  <2>3. DOMAIN <<>> = {}
    OBVIOUS
  <2> QED
    BY <2>1, <2>2, <2>3 DEF In
<1> QED
  BY <1>2, <1>3

\* A job that has answered is on its channel, if anyone hears it.
LEMMA AnsweredJob ==
    ASSUME LifeTyped, NEW j \in jobs, NEW ok \in BOOLEAN, Answer(j, ok)
    PROVE  /\ jobs' = jobs \ {j} /\ results' \in [Kinds -> Seq(Result)]
           /\ \A k \in Kinds : \A r \in In(k)' :
                r \in In(k) \/ (k = j.kind /\ r.id = j.id /\ r.base = j.base /\ r.ok = ok)
<1>1. /\ j.id \in Numbered /\ j.kind \in Kinds /\ j.base \in SUBSET Numbered
      /\ results \in [Kinds -> Seq(Result)]
  BY LifeTypes
<1> DEFINE a == [id |-> j.id, base |-> j.base, ok |-> ok]
<1>2. a \in Result /\ a.id = j.id /\ a.base = j.base /\ a.ok = ok
  BY <1>1 DEF Result
<1>3. CASE ~j.heard
  BY <1>1, <1>3 DEF Answer, In
<1>4. CASE j.heard
  <2>1. results' = [results EXCEPT ![j.kind] = Append(@, a)]
    BY <1>4 DEF Answer
  <2> HIDE DEF a
  <2>2. results[j.kind] \in Seq(Result) /\ Append(results[j.kind], a) \in Seq(Result)
    BY <1>1, <1>2
  <2>3. results' \in [Kinds -> Seq(Result)]
    BY <1>1, <2>1, <2>2
  <2>4. ASSUME NEW k \in Kinds, NEW r \in In(k)' PROVE r \in In(k) \/ (k = j.kind /\ r = a)
    <3>1. PICK n \in DOMAIN results'[k] : r = results'[k][n]
      BY <2>4 DEF In
    <3>2. CASE k # j.kind
      BY <1>1, <2>1, <3>1, <3>2 DEF In
    <3>3. CASE k = j.kind
      <4>1. results'[k] = Append(results[k], a)
        BY <1>1, <2>1, <3>3
      <4>2. results[k] \in Seq(Result) /\ n \in 1..Len(results[k]) + 1
        BY <2>2, <3>1, <3>3, <4>1
      <4>3. CASE n = Len(results[k]) + 1
        BY <3>1, <3>3, <4>1, <4>2, <4>3
      <4>4. CASE n \in 1..Len(results[k])
        BY <3>1, <4>1, <4>2, <4>4 DEF In
      <4> QED
        BY <4>2, <4>3, <4>4
    <3> QED
      BY <3>2, <3>3
  <2> QED
    BY <1>2, <2>3, <2>4 DEF Answer
<1> QED
  BY <1>3, <1>4

\* Every step keeps the types.
LEMMA LifeTypedStep ==
    ASSUME LifeTyped, Next
    PROVE  LifeTyped'
<1> USE LifecycleAssumption DEF LifeTyped, Numbered, Job, Result, Launch, Instances
<1> USE DEF store, makers, runtime, history
<1>1. ASSUME NEW d \in {"create", "import"}, OpenDialog(d)
      PROVE  LifeTyped'
  BY <1>1 DEF OpenDialog
<1>2. ASSUME NEW d \in {"create", "import"}, CloseMaker(d)
      PROVE  LifeTyped'
  <2>1. results' \in [Kinds -> Seq(Result)] /\ d \in Kinds
    BY <1>2, EmptiedChannel DEF CloseMaker, Kinds
  <2>2. \A j \in Job : [j EXCEPT !.heard = @ /\ j.kind # d] \in Job
    OBVIOUS
  <2>3. jobs' \in SUBSET Job
    <3>1. jobs' = {[j EXCEPT !.heard = @ /\ j.kind # d] : j \in jobs} /\ jobs \in SUBSET Job
      BY <1>2, Zenon, LifeTypes DEF CloseMaker
    <3>2. ASSUME NEW x \in jobs' PROVE x \in Job
      <4>1. PICK j \in jobs : x = [j EXCEPT !.heard = @ /\ j.kind # d]
        BY <3>1, <3>2
      <4>2. j \in Job
        BY <3>1
      <4> QED
        BY <2>2, <4>1, <4>2
    <3> QED
      BY <3>2
  <2> QED
    BY <1>2, <2>1, <2>3 DEF CloseMaker
<1>3. ASSUME DropFile
      PROVE  LifeTyped'
  BY <1>3 DEF DropFile, NoTarget
<1>4. ASSUME NEW k \in Kinds, Begin(k)
      PROVE  LifeTyped'
  <2>1. made' = made + 1 /\ made + 1 \in 0..MaxInstances /\ made + 1 \in 1..made + 1
        /\ 1..made \subseteq 1..made + 1
    BY <1>4, LifeTypes DEF Begin, LifeTyped
  <2> DEFINE new == [id |-> made', kind |-> k, heard |-> TRUE, at |-> "begun", base |-> records]
  <2>2. new \in Job' /\ Job \subseteq Job'
    BY <2>1, LifeTypes
  <2> HIDE DEF new
  <2>3. Result \subseteq Result' /\ Launch \subseteq Launch'
    BY <2>1
  <2>4. jobs' \in SUBSET Job'
    BY <1>4, <2>2, LifeTypes DEF Begin, new
  <2>5. results' \in [Kinds -> Seq(Result')]
    <3>1. results \in [Kinds -> Seq(Result)] /\ UNCHANGED results
      BY <1>4, LifeTypes DEF Begin
    <3>2. \A k2 \in Kinds : results[k2] \in Seq(Result')
      <4> DEFINE Larger == Result'
      <4>1. Result \subseteq Larger
        BY <2>3
      <4> HIDE DEF Larger
      <4>2. \A k2 \in Kinds : results[k2] \in Seq(Larger)
        BY <3>1, <4>1, SubSeqs
      <4> QED
        BY <4>2 DEF Larger
    <3> QED
      BY <3>1, <3>2
  <2>6. launches' \in SUBSET Launch' /\ records' \in SUBSET Numbered' /\ made' \in 0..MaxInstances
    BY <1>4, <2>1, <2>3, LifeTypes DEF Begin
  <2> QED
    BY <1>4, <2>1, <2>4, <2>5, <2>6 DEF Begin
<1>5. ASSUME NEW k \in Kinds, PollMaker(k)
      PROVE  LifeTyped'
  <2> DEFINE r == Head(results[k])
  <2>1. results[k] \in Seq(Result) /\ results[k] # <<>>
    BY <1>5, LifeTypes DEF PollMaker
  <2>2. r \in Result
    BY <2>1, HeadIsIn, LifeTypes
  <2>3. records' \in SUBSET Numbered
    BY <1>5, <2>2, LifeTypes DEF PollMaker
  <2>4. results' \in [Kinds -> Seq(Result)]
    BY <1>5, EmptiedChannel DEF PollMaker
  <2> QED
    BY <1>5, <2>3, <2>4 DEF PollMaker
<1>6. ASSUME NEW j \in jobs, JobChooses(j),
             UNCHANGED <<dialog, target, install, runtime, slot, deletion, hit>>
      PROVE  LifeTyped'
  <2>1. PICK r \in Free(j.base) : home' = [home EXCEPT ![j.id] = r]
    BY <1>6 DEF JobChooses
  <2>2. r \in Roots
    BY <2>1 DEF Free
  <2>3. jobs' \in SUBSET Job
    BY <1>6, LifeTypes DEF JobChooses
  <2> QED
    BY <1>6, <2>1, <2>2, <2>3 DEF JobChooses
<1>7. ASSUME NEW j \in jobs, JobMakesFolder(j),
             UNCHANGED <<dialog, target, install, runtime, slot, deletion, hit>>
      PROVE  LifeTyped'
  BY <1>7 DEF JobMakesFolder
<1>8. ASSUME NEW j \in jobs, JobSucceeds(j),
             UNCHANGED <<dialog, target, install, runtime, slot, deletion, hit>>
      PROVE  LifeTyped'
  <2>1. jobs' = jobs \ {j} /\ results' \in [Kinds -> Seq(Result)]
    BY <1>8, AnsweredJob, Zenon DEF JobSucceeds
  <2> QED
    BY <1>8, <2>1 DEF JobSucceeds
<1>9. ASSUME NEW j \in jobs, JobFails(j),
             UNCHANGED <<dialog, target, install, runtime, slot, deletion, hit>>
      PROVE  LifeTyped'
  <2>1. jobs' = jobs \ {j} /\ results' \in [Kinds -> Seq(Result)]
    BY <1>9, AnsweredJob, Zenon DEF JobFails
  <2> QED
    BY <1>9, <2>1 DEF JobFails
<1>10. ASSUME NEW i \in Instances, InstallWrites(i)
      PROVE  LifeTyped'
  BY <1>10 DEF InstallWrites, WritesInto
<1>11. ASSUME NEW i \in Instances, InstallEnds(i)
      PROVE  LifeTyped'
  BY <1>11 DEF InstallEnds
<1>12. ASSUME NEW i \in Instances, PollInstall(i)
      PROVE  LifeTyped'
  BY <1>12 DEF PollInstall, Met
<1>13. ASSUME NEW i \in Instances, RequestLaunch(i)
      PROVE  LifeTyped'
  <2>1. [n |-> requested', id |-> i, at |-> "preparing"] \in Launch
    BY <1>13, LifeTypes DEF RequestLaunch
  <2> QED
    BY <1>13, <2>1, LifeTypes DEF RequestLaunch
<1>14. ASSUME NEW l \in launches, LaunchDownloads(l)
      PROVE  LifeTyped'
  BY <1>14 DEF LaunchDownloads, LaunchWrites, WritesInto, LaunchElse
<1>15. ASSUME NEW l \in launches, LaunchReady(l), LaunchElse
      PROVE  LifeTyped'
  BY <1>15 DEF LaunchReady, LaunchGoes, LaunchElse
<1>16. ASSUME NEW l \in launches, LaunchAnswers(l), LaunchElse
      PROVE  LifeTyped'
  BY <1>16 DEF LaunchAnswers, LaunchGoes, Unanswered, LaunchElse
<1>17. ASSUME PollLaunches
      PROVE  LifeTyped'
  BY <1>17 DEF PollLaunches, Unanswered
<1>18. ASSUME NEW r \in Roots, GameEnds(r)
      PROVE  LifeTyped'
  BY <1>18 DEF GameEnds
<1>19. ASSUME SlotExpires
      PROVE  LifeTyped'
  BY <1>19 DEF SlotExpires
<1>20. ASSUME NEW i \in Instances, NEW card \in BOOLEAN, OpenDelete(i, card)
      PROVE  LifeTyped'
  BY <1>20 DEF OpenDelete, CardAllows
<1>21. ASSUME ConfirmDelete
      PROVE  LifeTyped'
  <2>1. target.id \in Numbered /\ target.id # 0 /\ target.card \in BOOLEAN
    BY <1>21 DEF ConfirmDelete
  <2> QED
    BY <1>21, <2>1 DEF ConfirmDelete
<1>22. ASSUME CloseDelete
      PROVE  LifeTyped'
  BY <1>22 DEF CloseDelete, NoTarget
<1>23. ASSUME DeletionWorks
      PROVE  LifeTyped'
  BY <1>23 DEF DeletionWorks, Met
<1>24. ASSUME PollDeletion
      PROVE  LifeTyped'
  BY <1>24 DEF PollDeletion, NoDeletion
<1> QED
  BY <1>1, <1>2, <1>3, <1>4, <1>5, <1>6, <1>7, <1>8, <1>9, <1>10, <1>11, <1>12, <1>13, <1>14, <1>15, <1>16, <1>17, <1>18, <1>19, <1>20, <1>21, <1>22, <1>23, <1>24
  DEF Next, JobStep, LaunchMoves

\* The instances a result will bring are known ids.
LEMMA ComingIds ==
    ASSUME LifeTyped
    PROVE  /\ made + 1 \notin Numbered /\ \A i \in Numbered : i # 0
           /\ \A j \in jobs : j.id \in Numbered /\ j.base \subseteq Numbered
           /\ \A k \in Kinds : \A r \in In(k) : r.id \in Numbered /\ r.base \subseteq Numbered
           /\ records \subseteq Numbered
<1>1. made + 1 \notin Numbered /\ \A i \in Numbered : i # 0
  BY DEF LifeTyped, Numbered
<1> QED
  BY <1>1, LifeTypes

\* Who leaves the results alone leaves what each kind has in hand alone.
LEMMA SameChannels == UNCHANGED results => \A k \in Kinds : In(k)' = In(k)
BY DEF In

\* What is being made is in one place: with the job or in its result.
LEMMA ApartStep ==
    ASSUME LifeTyped, LifeTyped', Apart, Next
    PROVE  Apart'
<1> USE DEF Apart, Unseen
<1> USE DEF store, makers, runtime, history
<1>1. ASSUME NEW d \in {"create", "import"}, OpenDialog(d)
      PROVE  Apart'
  BY <1>1, SameChannels DEF OpenDialog
<1>2. ASSUME NEW d \in {"create", "import"}, CloseMaker(d)
      PROVE  Apart'
  <2>1. \A k \in Kinds : \A r \in In(k)' : k # d /\ r \in In(k)
    BY <1>2, EmptiedChannel DEF CloseMaker, Kinds
  <2>2. \A o \in jobs' : \E j \in jobs : o.id = j.id /\ o.base = j.base /\ o = [j EXCEPT !.heard = @ /\ j.kind # d]
    <3>1. jobs' = {[j EXCEPT !.heard = @ /\ j.kind # d] : j \in jobs} /\ jobs \in SUBSET Job
      BY <1>2 DEF CloseMaker, LifeTyped
    <3> TAKE o \in jobs'
    <3>2. PICK j \in jobs : o = [j EXCEPT !.heard = @ /\ j.kind # d]
      BY <3>1
    <3>3. o.id = j.id /\ o.base = j.base
      BY <3>1, <3>2 DEF Job
    <3> QED
      BY <3>2, <3>3
  <2>3. \A o, p \in jobs' : o.id = p.id => o = p
    BY <2>2
  <2>4. UNCHANGED <<records, deletion, target, launches>>
    BY <1>2 DEF CloseMaker
  <2> QED
    BY <2>1, <2>2, <2>3, <2>4
<1>3. ASSUME DropFile
      PROVE  Apart'
  <2>1. target'.id = 0 /\ UNCHANGED <<deletion, launches, records, jobs>> /\ \A k \in Kinds : In(k)' = In(k)
    BY <1>3, SameChannels DEF DropFile, NoTarget
  <2>2. records' \subseteq records
    BY <1>3 DEF DropFile
  <2> QED
    BY <2>1, <2>2, ComingIds
<1>4. ASSUME NEW k \in Kinds, Begin(k)
      PROVE  Apart'
  <2>1. PICK n : n = made + 1
    OBVIOUS
  <2> DEFINE new == [id |-> n, kind |-> k, heard |-> TRUE, at |-> "begun", base |-> records]
  <2>2. new.id = n /\ new.base = records /\ jobs' = jobs \cup {new}
    BY <1>4, <2>1 DEF Begin
  <2> HIDE DEF new
  <2>3. /\ UNCHANGED <<records, deletion, target, launches>>
        /\ \A c \in Kinds : In(c)' = In(c)
    BY <1>4, SameChannels DEF Begin
  <2>4. n \notin Numbered /\ n # 0
    BY <2>1, ComingIds DEF LifeTyped
  <2>5. deletion.id # n /\ target.id # n /\ \A l \in launches : l.id # n
    BY <2>4, LifeTypes
  <2>6. Unseen(n)'
    BY <2>2, <2>3, <2>4, <2>5, ComingIds
  <2>7. \A i \in Numbered : Unseen(i) => Unseen(i)'
    BY <2>2, <2>3
  <2>8. \A j \in jobs' : Unseen(j.id)' /\ (\A o \in jobs' : o.id = j.id => o = j)
                          /\ \A c \in Kinds : \A r \in In(c)' : r.id # j.id
    BY <2>2, <2>3, <2>4, <2>6, <2>7, ComingIds
  <2> HIDE DEF Unseen
  <2> QED
    BY <2>3, <2>7, <2>8, ComingIds
<1>5. ASSUME NEW k \in Kinds, PollMaker(k)
      PROVE  Apart'
  <2> DEFINE r == Head(results[k])
  <2>1. r \in In(k)
    BY <1>5, HeadIsIn DEF PollMaker
  <2>2. \A l \in Kinds : \A s \in In(l)' : l # k /\ s \in In(l)
    BY <1>5, EmptiedChannel DEF PollMaker
  <2>3. records' = records \/ records' = r.base \cup {r.id}
    BY <1>5 DEF PollMaker
  <2> HIDE DEF r
  <2>4. UNCHANGED <<deletion, target, launches, jobs>>
    BY <1>5 DEF PollMaker
  <2> QED
    BY <2>1, <2>2, <2>3, <2>4
<1>6. ASSUME NEW j \in jobs, JobChooses(j),
             UNCHANGED <<dialog, target, install, runtime, slot, deletion, hit>>
      PROVE  Apart'
  <2> DEFINE new == [j EXCEPT !.at = "chosen"]
  <2>1. new.id = j.id /\ new.base = j.base
    BY DEF LifeTyped, Job
  <2>2. jobs' = (jobs \ {j}) \cup {new}
    BY <1>6 DEF JobChooses
  <2>3. UNCHANGED <<records, deletion, target, launches>> /\ \A k \in Kinds : In(k)' = In(k)
    BY <1>6, SameChannels DEF JobChooses
  <2> HIDE DEF new
  <2> QED
    BY <2>1, <2>2, <2>3
<1>7. ASSUME NEW j \in jobs, JobMakesFolder(j),
             UNCHANGED <<dialog, target, install, runtime, slot, deletion, hit>>
      PROVE  Apart'
  <2> DEFINE new == [j EXCEPT !.at = "made"]
  <2>1. new.id = j.id /\ new.base = j.base
    BY DEF LifeTyped, Job
  <2>2. jobs' = (jobs \ {j}) \cup {new}
    BY <1>7 DEF JobMakesFolder
  <2>3. UNCHANGED <<records, deletion, target, launches>> /\ \A k \in Kinds : In(k)' = In(k)
    BY <1>7, SameChannels DEF JobMakesFolder
  <2> HIDE DEF new
  <2> QED
    BY <2>1, <2>2, <2>3
<1>8. ASSUME NEW j \in jobs, JobSucceeds(j),
             UNCHANGED <<dialog, target, install, runtime, slot, deletion, hit>>
      PROVE  Apart'
  <2>1. /\ jobs' = jobs \ {j}
        /\ \A k \in Kinds : \A r \in In(k)' :
             r \in In(k) \/ (k = j.kind /\ r.id = j.id /\ r.base = j.base)
    BY <1>8, AnsweredJob DEF JobSucceeds
  <2>2. j.kind \in Kinds /\ UNCHANGED <<records, deletion, target, launches>>
    BY <1>8, LifeTypes DEF JobSucceeds
  <2>3. \A i \in Numbered : Unseen(i) => Unseen(i)'
    BY <2>1, <2>2
  <2>4. \A k \in Kinds : \A r \in In(k)' :
          r.id \in Numbered /\ Unseen(r.id) /\ \A o \in jobs' : o.id # r.id
    BY <2>1, ComingIds
  <2>5. \A k \in Kinds : \A r \in In(k)' : \A l \in Kinds \ {k} : \A s \in In(l)' : s.id # r.id
    BY <2>1
  <2>6. \A o \in jobs' : o \in jobs
    BY <2>1
  <2> HIDE DEF Unseen
  <2> QED
    BY <2>3, <2>4, <2>5, <2>6, ComingIds
<1>9. ASSUME NEW j \in jobs, JobFails(j),
             UNCHANGED <<dialog, target, install, runtime, slot, deletion, hit>>
      PROVE  Apart'
  <2>1. /\ jobs' = jobs \ {j}
        /\ \A k \in Kinds : \A r \in In(k)' :
             r \in In(k) \/ (k = j.kind /\ r.id = j.id /\ r.base = j.base)
    BY <1>9, AnsweredJob DEF JobFails
  <2>2. j.kind \in Kinds /\ UNCHANGED <<records, deletion, target, launches>>
    BY <1>9, LifeTypes DEF JobFails
  <2>3. \A i \in Numbered : Unseen(i) => Unseen(i)'
    BY <2>1, <2>2
  <2>4. \A k \in Kinds : \A r \in In(k)' :
          r.id \in Numbered /\ Unseen(r.id) /\ \A o \in jobs' : o.id # r.id
    BY <2>1, ComingIds
  <2>5. \A k \in Kinds : \A r \in In(k)' : \A l \in Kinds \ {k} : \A s \in In(l)' : s.id # r.id
    BY <2>1
  <2>6. \A o \in jobs' : o \in jobs
    BY <2>1
  <2> HIDE DEF Unseen
  <2> QED
    BY <2>3, <2>4, <2>5, <2>6, ComingIds
<1>10. ASSUME NEW i \in Instances, InstallWrites(i)
      PROVE  Apart'
  BY <1>10, SameChannels DEF InstallWrites, WritesInto
<1>11. ASSUME NEW i \in Instances, InstallEnds(i)
      PROVE  Apart'
  BY <1>11, SameChannels DEF InstallEnds
<1>12. ASSUME NEW i \in Instances, PollInstall(i)
      PROVE  Apart'
  BY <1>12, SameChannels DEF PollInstall, Met
<1>13. ASSUME NEW i \in Instances, RequestLaunch(i)
      PROVE  Apart'
  <2> DEFINE new == [n |-> requested', id |-> i, at |-> "preparing"]
  <2>1. new.id = i /\ i \in records /\ launches' = launches \cup {new}
    BY <1>13 DEF RequestLaunch
  <2>2. UNCHANGED <<records, deletion, target, jobs>> /\ \A k \in Kinds : In(k)' = In(k)
    BY <1>13, SameChannels DEF RequestLaunch
  <2> HIDE DEF new
  <2> QED
    BY <2>1, <2>2
<1>14. ASSUME NEW l \in launches, LaunchDownloads(l)
      PROVE  Apart'
  BY <1>14, SameChannels DEF LaunchDownloads, LaunchWrites, WritesInto, LaunchElse
<1>15. ASSUME NEW l \in launches, LaunchReady(l), LaunchElse
      PROVE  Apart'
  <2> DEFINE new == [l EXCEPT !.at = "starting"]
  <2>1. new.id = l.id
    BY DEF LifeTyped, Launch
  <2>2. launches' = (launches \ {l}) \cup {new}
    BY <1>15 DEF LaunchReady, LaunchGoes
  <2>3. UNCHANGED <<records, deletion, target, jobs>> /\ \A k \in Kinds : In(k)' = In(k)
    BY <1>15, SameChannels DEF LaunchReady, LaunchElse
  <2> HIDE DEF new
  <2> QED
    BY <2>1, <2>2, <2>3
<1>16. ASSUME NEW l \in launches, LaunchAnswers(l), LaunchElse
      PROVE  Apart'
  <2> DEFINE new == [l EXCEPT !.at = "answered"]
  <2>1. new.id = l.id
    BY DEF LifeTyped, Launch
  <2>2. launches' = (launches \ {l}) \cup {new}
    BY <1>16 DEF LaunchAnswers, LaunchGoes
  <2>3. UNCHANGED <<records, deletion, target, jobs>> /\ \A k \in Kinds : In(k)' = In(k)
    BY <1>16, SameChannels DEF LaunchAnswers, LaunchElse
  <2> HIDE DEF new
  <2> QED
    BY <2>1, <2>2, <2>3
<1>17. ASSUME PollLaunches
      PROVE  Apart'
  BY <1>17, SameChannels DEF PollLaunches, Unanswered
<1>18. ASSUME NEW r \in Roots, GameEnds(r)
      PROVE  Apart'
  BY <1>18, SameChannels DEF GameEnds
<1>19. ASSUME SlotExpires
      PROVE  Apart'
  BY <1>19, SameChannels DEF SlotExpires
<1>20. ASSUME NEW i \in Instances, NEW card \in BOOLEAN, OpenDelete(i, card)
      PROVE  Apart'
  BY <1>20, SameChannels DEF OpenDelete, CardAllows
<1>21. ASSUME ConfirmDelete
      PROVE  Apart'
  BY <1>21, SameChannels DEF ConfirmDelete
<1>22. ASSUME CloseDelete
      PROVE  Apart'
  <2>1. target'.id = 0 /\ UNCHANGED <<deletion, launches, records, jobs>> /\ \A k \in Kinds : In(k)' = In(k)
    BY <1>22, SameChannels DEF CloseDelete, NoTarget
  <2>2. records' \subseteq records
    BY <1>22 DEF CloseDelete
  <2> QED
    BY <2>1, <2>2, ComingIds
<1>23. ASSUME DeletionWorks
      PROVE  Apart'
  <2>1. /\ deletion'.id = deletion.id /\ UNCHANGED <<records, target, launches, jobs>>
        /\ \A k \in Kinds : In(k)' = In(k)
    BY <1>23, SameChannels DEF DeletionWorks, LifeTyped
  <2> QED
    BY <2>1
<1>24. ASSUME PollDeletion
      PROVE  Apart'
  <2>1. deletion'.id = 0 /\ UNCHANGED <<target, launches, jobs>> /\ \A k \in Kinds : In(k)' = In(k)
    BY <1>24, SameChannels DEF PollDeletion, NoDeletion
  <2>2. records' \subseteq records
    BY <1>24 DEF PollDeletion
  <2> QED
    BY <2>1, <2>2, ComingIds
<1> QED
  BY <1>1, <1>2, <1>3, <1>4, <1>5, <1>6, <1>7, <1>8, <1>9, <1>10, <1>11, <1>12, <1>13, <1>14, <1>15, <1>16, <1>17, <1>18, <1>19, <1>20, <1>21, <1>22, <1>23, <1>24
  DEF Next, JobStep, LaunchMoves

\* No copy of the store pairs two instances with one folder, whatever steps.
LEMMA HomesStep ==
    ASSUME LifeTyped, LifeTyped', Apart, Homes, Next
    PROVE  Homes'
<1> USE DEF Homes, Housed
<1> USE DEF store, makers, runtime, history
<1>1. ASSUME NEW d \in {"create", "import"}, OpenDialog(d)
      PROVE  Homes'
  BY <1>1, SameChannels DEF OpenDialog
<1>2. ASSUME NEW d \in {"create", "import"}, CloseMaker(d)
      PROVE  Homes'
  <2>1. \A k \in Kinds : \A r \in In(k)' : k # d /\ r \in In(k)
    BY <1>2, EmptiedChannel DEF CloseMaker, Kinds
  <2>2. \A o \in jobs' : \E j \in jobs : o.id = j.id /\ o.base = j.base /\ o.at = j.at
    <3>1. jobs' = {[j EXCEPT !.heard = @ /\ j.kind # d] : j \in jobs} /\ jobs \in SUBSET Job
      BY <1>2 DEF CloseMaker, LifeTyped
    <3> TAKE o \in jobs'
    <3>2. PICK j \in jobs : o = [j EXCEPT !.heard = @ /\ j.kind # d]
      BY <3>1
    <3>3. o.id = j.id /\ o.base = j.base /\ o.at = j.at
      BY <3>1, <3>2 DEF Job
    <3> QED
      BY <3>3
  <2>3. UNCHANGED <<records, home, made>>
    BY <1>2 DEF CloseMaker
  <2> QED
    BY <2>1, <2>2, <2>3
<1>3. ASSUME DropFile
      PROVE  Homes'
  BY <1>3, SameChannels DEF DropFile
<1>4. ASSUME NEW k \in Kinds, Begin(k)
      PROVE  Homes'
  <2>1. PICK n : n = made + 1
    OBVIOUS
  <2> DEFINE new == [id |-> n, kind |-> k, heard |-> TRUE, at |-> "begun", base |-> records]
  <2>2. new.id = n /\ new.base = records /\ new.at = "begun" /\ jobs' = jobs \cup {new}
    BY <1>4, <2>1 DEF Begin
  <2> HIDE DEF new
  <2>3. /\ UNCHANGED <<records, home>> /\ made' = n /\ n \in Instances
        /\ \A c \in Kinds : In(c)' = In(c)
    BY <1>4, <2>1, LifeTypes, SameChannels DEF Begin
  <2>4. home[n] = 0
    BY <2>1, <2>3, LifeTypes
  <2>5. \A i \in Instances : i > n => home[i] = 0
    BY <2>1, <2>3, LifeTypes
  <2> QED
    BY <2>2, <2>3, <2>4, <2>5
<1>5. ASSUME NEW k \in Kinds, PollMaker(k)
      PROVE  Homes'
  <2> DEFINE r == Head(results[k])
  <2>1. r \in In(k)
    BY <1>5, HeadIsIn DEF PollMaker
  <2>2. \A l \in Kinds : \A s \in In(l)' : s \in In(l)
    BY <1>5, EmptiedChannel DEF PollMaker
  <2>3. records' = records \/ (r.ok /\ records' = r.base \cup {r.id})
    BY <1>5 DEF PollMaker
  <2> HIDE DEF r
  <2>4. UNCHANGED <<home, made, jobs>>
    BY <1>5 DEF PollMaker
  <2> QED
    BY <2>1, <2>2, <2>3, <2>4
<1>6. ASSUME NEW j \in jobs, JobChooses(j),
             UNCHANGED <<dialog, target, install, runtime, slot, deletion, hit>>
      PROVE  Homes'
  <2>1. PICK kept \in Free(j.base) : home' = [home EXCEPT ![j.id] = kept]
    BY <1>6 DEF JobChooses
  <2> DEFINE new == [j EXCEPT !.at = "chosen"]
  <2>2. new.id = j.id /\ new.base = j.base /\ new.at = "chosen" /\ jobs' = (jobs \ {j}) \cup {new}
    BY <1>6 DEF JobChooses, LifeTyped, Job
  <2> HIDE DEF new
  <2>3. UNCHANGED <<records, made>> /\ \A k \in Kinds : In(k)' = In(k)
    BY <1>6, SameChannels DEF JobChooses
  <2>4. kept # 0 /\ \A i \in j.base : home[i] # kept
    BY <2>1 DEF Free, Roots
  <2>5. /\ home'[j.id] = kept
        /\ \A i \in Instances : i # j.id => home'[i] = home[i]
        /\ j.id \in Instances /\ j.id <= made
    BY <2>1, LifeTypes
  <2>6. \A S \in SUBSET Numbered : Housed(S) /\ j.id \notin S => Housed(S)'
    BY <2>5, LifeTypes
  <2>7. \A i \in Instances : i > made' => home'[i] = 0
    BY <2>3, <2>5, LifeTypes
  <2>8. Housed(records)' /\ \A k \in Kinds : \A r \in In(k) : r.ok => Housed(r.base \cup {r.id})'
    <3>1. Housed(records)'
      BY <2>3, <2>5, ComingIds, LifeTypes DEF Apart, Unseen
    <3>2. ASSUME NEW k \in Kinds, NEW r \in In(k), r.ok PROVE Housed(r.base \cup {r.id})'
      <4>1. r.base \cup {r.id} \in SUBSET Numbered /\ j.id \notin r.base \cup {r.id}
        BY <3>2, ComingIds DEF Apart, Unseen
      <4>2. Housed(r.base \cup {r.id})
        BY <3>2
      <4> QED
        BY <2>5, <4>1, <4>2, LifeTypes
    <3> QED
      BY <3>1, <3>2
  <2>9. Housed(j.base)' /\ Housed(j.base \cup {j.id})'
    <3>1. j.base \in SUBSET Numbered /\ j.id \notin j.base /\ j.id \in Numbered
      BY ComingIds DEF Apart, Unseen
    <3>2. \A i \in j.base : home'[i] = home[i] /\ home'[i] # kept
      BY <2>4, <2>5, <3>1, LifeTypes
    <3> QED
      BY <2>4, <2>5, <3>1, <3>2
  <2>10. ASSUME NEW o \in jobs, o # j
         PROVE  /\ Housed(o.base)' /\ home'[o.id] = home[o.id]
                /\ Housed(o.base \cup {o.id}) => Housed(o.base \cup {o.id})'
    <3>1. o.id # j.id /\ j.id \notin o.base /\ o.base \cup {o.id} \in SUBSET Numbered
      BY <2>10, ComingIds DEF Apart, Unseen
    <3> QED
      BY <2>5, <2>6, <2>10, <3>1, LifeTypes
  <2> QED
    BY <2>2, <2>3, <2>7, <2>8, <2>9, <2>10
<1>7. ASSUME NEW j \in jobs, JobMakesFolder(j),
             UNCHANGED <<dialog, target, install, runtime, slot, deletion, hit>>
      PROVE  Homes'
  <2> DEFINE new == [j EXCEPT !.at = "made"]
  <2>1. new.id = j.id /\ new.base = j.base /\ new.at = "made" /\ j.at # "begun"
    BY <1>7 DEF LifeTyped, Job, JobMakesFolder
  <2>2. jobs' = (jobs \ {j}) \cup {new}
    BY <1>7 DEF JobMakesFolder
  <2>3. UNCHANGED <<records, home, made>> /\ \A k \in Kinds : In(k)' = In(k)
    BY <1>7, SameChannels DEF JobMakesFolder
  <2> HIDE DEF new
  <2> QED
    BY <2>1, <2>2, <2>3
<1>8. ASSUME NEW j \in jobs, JobSucceeds(j),
             UNCHANGED <<dialog, target, install, runtime, slot, deletion, hit>>
      PROVE  Homes'
  <2>1. /\ jobs' = jobs \ {j} /\ j.at = "made" /\ UNCHANGED <<records, home, made>>
        /\ \A k \in Kinds : \A r \in In(k)' :
             r \in In(k) \/ (r.id = j.id /\ r.base = j.base)
    BY <1>8, AnsweredJob DEF JobSucceeds
  <2> QED
    BY <2>1
<1>9. ASSUME NEW j \in jobs, JobFails(j),
             UNCHANGED <<dialog, target, install, runtime, slot, deletion, hit>>
      PROVE  Homes'
  <2>1. /\ jobs' = jobs \ {j} /\ UNCHANGED <<records, home, made>>
        /\ \A k \in Kinds : \A r \in In(k)' : r \in In(k) \/ ~r.ok
    BY <1>9, AnsweredJob DEF JobFails
  <2> QED
    BY <2>1
<1>10. ASSUME NEW i \in Instances, InstallWrites(i)
      PROVE  Homes'
  BY <1>10, SameChannels DEF InstallWrites, WritesInto
<1>11. ASSUME NEW i \in Instances, InstallEnds(i)
      PROVE  Homes'
  BY <1>11, SameChannels DEF InstallEnds
<1>12. ASSUME NEW i \in Instances, PollInstall(i)
      PROVE  Homes'
  BY <1>12, SameChannels DEF PollInstall, Met
<1>13. ASSUME NEW i \in Instances, RequestLaunch(i)
      PROVE  Homes'
  BY <1>13, SameChannels DEF RequestLaunch
<1>14. ASSUME NEW l \in launches, LaunchDownloads(l)
      PROVE  Homes'
  BY <1>14, SameChannels DEF LaunchDownloads, LaunchWrites, WritesInto, LaunchElse
<1>15. ASSUME NEW l \in launches, LaunchReady(l), LaunchElse
      PROVE  Homes'
  BY <1>15, SameChannels DEF LaunchReady, LaunchGoes, LaunchElse
<1>16. ASSUME NEW l \in launches, LaunchAnswers(l), LaunchElse
      PROVE  Homes'
  BY <1>16, SameChannels DEF LaunchAnswers, LaunchGoes, Unanswered, LaunchElse
<1>17. ASSUME PollLaunches
      PROVE  Homes'
  BY <1>17, SameChannels DEF PollLaunches, Unanswered
<1>18. ASSUME NEW r \in Roots, GameEnds(r)
      PROVE  Homes'
  BY <1>18, SameChannels DEF GameEnds
<1>19. ASSUME SlotExpires
      PROVE  Homes'
  BY <1>19, SameChannels DEF SlotExpires
<1>20. ASSUME NEW i \in Instances, NEW card \in BOOLEAN, OpenDelete(i, card)
      PROVE  Homes'
  BY <1>20, SameChannels DEF OpenDelete, CardAllows
<1>21. ASSUME ConfirmDelete
      PROVE  Homes'
  BY <1>21, SameChannels DEF ConfirmDelete
<1>22. ASSUME CloseDelete
      PROVE  Homes'
  BY <1>22, SameChannels DEF CloseDelete, MayCloseDelete
<1>23. ASSUME DeletionWorks
      PROVE  Homes'
  BY <1>23, SameChannels DEF DeletionWorks, Met
<1>24. ASSUME PollDeletion
      PROVE  Homes'
  BY <1>24, SameChannels DEF PollDeletion, Deleted
<1> QED
  BY <1>1, <1>2, <1>3, <1>4, <1>5, <1>6, <1>7, <1>8, <1>9, <1>10, <1>11, <1>12, <1>13, <1>14, <1>15, <1>16, <1>17, <1>18, <1>19, <1>20, <1>21, <1>22, <1>23, <1>24
  DEF Next, JobStep, LaunchMoves

\* The owners of a folder are records of the store or jobs.
LEMMA OwnersOwn ==
    ASSUME LifeTyped
    PROVE  \A i \in Numbered : Owner(i) <=> i \in Owners
BY DEF Owner, Owners, In

\* An instance of the store has its folder until the deletion takes both.
LEMMA PresentStep ==
    ASSUME LifeTyped, LifeTyped', Apart, Homes, Present, Next, Tracked'
    PROVE  Present'
<1> USE DEF Present, Owner, Tracked, Troubled
<1> USE DEF store, makers, runtime, history
<1>1. ASSUME NEW d \in {"create", "import"}, OpenDialog(d)
      PROVE  Present'
  BY <1>1, SameChannels DEF OpenDialog, Numbered
<1>2. ASSUME NEW d \in {"create", "import"}, CloseMaker(d)
      PROVE  Present'
  <2>1. \A k \in Kinds : \A r \in In(k)' : k # d /\ r \in In(k)
    BY <1>2, EmptiedChannel DEF CloseMaker, Kinds
  <2>2. \A o \in jobs' : \E j \in jobs : o.id = j.id /\ o.at = j.at
    <3>1. jobs' = {[j EXCEPT !.heard = @ /\ j.kind # d] : j \in jobs} /\ jobs \in SUBSET Job
      BY <1>2 DEF CloseMaker, LifeTyped
    <3> TAKE o \in jobs'
    <3>2. PICK j \in jobs : o = [j EXCEPT !.heard = @ /\ j.kind # d]
      BY <3>1
    <3>3. o.id = j.id /\ o.at = j.at
      BY <3>1, <3>2 DEF Job
    <3> QED
      BY <3>3
  <2>3. UNCHANGED <<records, home, folders, made, deletion>>
    BY <1>2 DEF CloseMaker
  <2> QED
    BY <2>1, <2>2, <2>3 DEF Numbered
<1>3. ASSUME DropFile
      PROVE  Present'
  BY <1>3, SameChannels DEF DropFile, Numbered
<1>4. ASSUME NEW k \in Kinds, Begin(k)
      PROVE  Present'
  <2>1. PICK n : n = made + 1
    OBVIOUS
  <2> DEFINE new == [id |-> n, kind |-> k, heard |-> TRUE, at |-> "begun", base |-> records]
  <2>2. new.id = n /\ new.at = "begun" /\ jobs' = jobs \cup {new}
    BY <1>4, <2>1 DEF Begin
  <2> HIDE DEF new
  <2>3. /\ UNCHANGED <<records, home, folders, deletion>> /\ made' = n /\ n \in Instances
        /\ \A c \in Kinds : In(c)' = In(c)
    BY <1>4, <2>1, LifeTypes, SameChannels DEF Begin
  <2>4. home[n] = 0 /\ Numbered' = Numbered \cup {n}
    BY <2>1, <2>3, LifeTypes DEF Homes, Numbered
  <2> QED
    BY <2>2, <2>3, <2>4
<1>5. ASSUME NEW k \in Kinds, PollMaker(k)
      PROVE  Present'
  <2> DEFINE r == Head(results[k])
  <2>1. r \in In(k)
    BY <1>5, HeadIsIn DEF PollMaker
  <2>2. \A l \in Kinds : \A s \in In(l)' : s \in In(l)
    BY <1>5, EmptiedChannel DEF PollMaker
  <2>3. records' = records \/ (r.ok /\ records' = records \cup {r.id})
    BY <1>5 DEF PollMaker
  <2> HIDE DEF r
  <2>4. UNCHANGED <<home, made, folders, deletion, jobs>>
    BY <1>5 DEF PollMaker
  <2> QED
    BY <2>1, <2>2, <2>3, <2>4 DEF Numbered
<1>6. ASSUME NEW j \in jobs, JobChooses(j),
             UNCHANGED <<dialog, target, install, runtime, slot, deletion, hit>>
      PROVE  Present'
  <2>1. PICK kept \in Free(j.base) :
          /\ home' = [home EXCEPT ![j.id] = kept]
          /\ Troubled("shared", \E i \in Owners \ {0, j.id} : home[i] = kept)
    BY <1>6 DEF JobChooses
  <2> DEFINE new == [j EXCEPT !.at = "chosen"]
  <2>2. new.id = j.id /\ new.at = "chosen" /\ jobs' = (jobs \ {j}) \cup {new}
    BY <1>6 DEF JobChooses, LifeTyped, Job
  <2> HIDE DEF new
  <2>3. UNCHANGED <<records, made, folders, deletion>> /\ \A k \in Kinds : In(k)' = In(k)
    BY <1>6, SameChannels DEF JobChooses
  <2>4. \A i \in Numbered : Owner(i) /\ i # j.id => home[i] # kept
    BY <2>1, OwnersOwn, ComingIds
  <2>5. /\ home'[j.id] = kept /\ \A i \in Instances : i # j.id => home'[i] = home[i]
        /\ Numbered \subseteq Instances
    BY <2>1, LifeTypes
  <2>6. \A i \in Numbered : Owner(i)' => Owner(i)
    BY <2>2, <2>3
  <2>7. \A i, o \in Numbered : Owner(i)' /\ Owner(o)' /\ home'[i] = home'[o] /\ home'[i] # 0 => i = o
    <3> HIDE DEF Owner
    <3> QED
      BY <2>4, <2>5, <2>6
  <2>8. Numbered' = Numbered /\ j.id \notin records
    BY <2>3 DEF Numbered, Apart, Unseen
  <2>9. \A i \in records' : home'[i] \in folders' \/ (deletion'.id = i /\ deletion'.at = "deleted")
    BY <2>3, <2>5, <2>8, ComingIds
  <2>10. \A o \in jobs' : o.at = "made" => home'[o.id] \in folders'
    BY <2>2, <2>3, <2>5, ComingIds DEF Apart
  <2>11. \A k \in Kinds : \A r \in In(k)' : r.ok => home'[r.id] \in folders'
    BY <2>3, <2>5, ComingIds DEF Apart
  <2> HIDE DEF Owner
  <2> QED
    BY <2>7, <2>8, <2>9, <2>10, <2>11
<1>7. ASSUME NEW j \in jobs, JobMakesFolder(j),
             UNCHANGED <<dialog, target, install, runtime, slot, deletion, hit>>
      PROVE  Present'
  <2> DEFINE new == [j EXCEPT !.at = "made"]
  <2>1. new.id = j.id
    BY DEF LifeTyped, Job
  <2>2. jobs' = (jobs \ {j}) \cup {new} /\ folders' = folders \cup {home[j.id]}
    BY <1>7 DEF JobMakesFolder
  <2>3. UNCHANGED <<records, home, made, deletion>> /\ \A k \in Kinds : In(k)' = In(k)
    BY <1>7, SameChannels DEF JobMakesFolder
  <2> HIDE DEF new
  <2> QED
    BY <2>1, <2>2, <2>3 DEF Numbered
<1>8. ASSUME NEW j \in jobs, JobSucceeds(j),
             UNCHANGED <<dialog, target, install, runtime, slot, deletion, hit>>
      PROVE  Present'
  <2>1. /\ jobs' = jobs \ {j} /\ j.at = "made" /\ UNCHANGED <<records, home, made, folders, deletion>>
        /\ j.kind \in Kinds
        /\ \A k \in Kinds : \A r \in In(k)' : r \in In(k) \/ r.id = j.id
    BY <1>8, AnsweredJob, LifeTypes DEF JobSucceeds
  <2> QED
    BY <2>1 DEF Numbered
<1>9. ASSUME NEW j \in jobs, JobFails(j),
             UNCHANGED <<dialog, target, install, runtime, slot, deletion, hit>>
      PROVE  Present'
  <2>1. /\ jobs' = jobs \ {j} /\ UNCHANGED <<records, home, made, deletion>>
        /\ \A k \in Kinds : \A r \in In(k)' : r \in In(k) \/ (~r.ok /\ r.id = j.id)
    BY <1>9, AnsweredJob DEF JobFails
  <2>2. folders' = folders \/ (j.at = "made" /\ folders' = folders \ {home[j.id]})
    BY <1>9 DEF JobFails
  <2>3. \A i, o \in Numbered' : Owner(i)' /\ Owner(o)' /\ home'[i] = home'[o] /\ home'[i] # 0 => i = o
    BY <2>1 DEF Numbered
  <2>4. \A i \in Numbered : Owner(i) /\ i # j.id /\ j.at = "made" => home[i] # home[j.id]
    BY ComingIds DEF Homes, Housed
  <2>5. \A i \in records : i # j.id /\ i \in Numbered /\ Owner(i)
    BY ComingIds DEF Apart, Unseen
  <2>6. \A o \in jobs' : o.id # j.id /\ o.id \in Numbered /\ Owner(o.id)
    BY <2>1, ComingIds DEF Apart
  <2>7. \A k \in Kinds : \A r \in In(k) : r.id # j.id /\ r.id \in Numbered /\ Owner(r.id)
    BY ComingIds DEF Apart
  <2> HIDE DEF Owner
  <2> QED
    BY <2>1, <2>2, <2>3, <2>4, <2>5, <2>6, <2>7
<1>10. ASSUME NEW i \in Instances, InstallWrites(i)
      PROVE  Present'
  BY <1>10, SameChannels DEF InstallWrites, WritesInto, Numbered
<1>11. ASSUME NEW i \in Instances, InstallEnds(i)
      PROVE  Present'
  BY <1>11, SameChannels DEF InstallEnds, Numbered
<1>12. ASSUME NEW i \in Instances, PollInstall(i)
      PROVE  Present'
  <2>1. /\ UNCHANGED <<home, made, deletion, jobs>> /\ \A k \in Kinds : In(k)' = In(k)
    BY <1>12, SameChannels DEF PollInstall
  <2>2. \/ UNCHANGED <<folders, records>>
        \/ i \in records /\ folders' = folders \ {home[i]} /\ records' = records \ {i}
    BY <1>12 DEF PollInstall
  <2>3. i \in records => /\ home[i] # 0 /\ Owner(i) /\ i \in Numbered
                         /\ \A o \in Numbered : Owner(o) /\ o # i => home[o] # home[i]
    BY ComingIds DEF Homes, Housed
  <2>4. i \in records => /\ \A j \in jobs : j.id # i
                         /\ \A k \in Kinds : \A r \in In(k) : r.id # i
    BY DEF Apart, Unseen
  <2> QED
    BY <2>1, <2>2, <2>3, <2>4, ComingIds DEF Numbered
<1>13. ASSUME NEW i \in Instances, RequestLaunch(i)
      PROVE  Present'
  BY <1>13, SameChannels DEF RequestLaunch, Numbered
<1>14. ASSUME NEW l \in launches, LaunchDownloads(l)
      PROVE  Present'
  BY <1>14, SameChannels DEF LaunchDownloads, LaunchWrites, WritesInto, LaunchElse, Numbered
<1>15. ASSUME NEW l \in launches, LaunchReady(l), LaunchElse
      PROVE  Present'
  BY <1>15, SameChannels DEF LaunchReady, LaunchGoes, LaunchElse, Numbered
<1>16. ASSUME NEW l \in launches, LaunchAnswers(l), LaunchElse
      PROVE  Present'
  BY <1>16, SameChannels DEF LaunchAnswers, LaunchGoes, Unanswered, LaunchElse, Numbered
<1>17. ASSUME PollLaunches
      PROVE  Present'
  BY <1>17, SameChannels DEF PollLaunches, Unanswered, Numbered
<1>18. ASSUME NEW r \in Roots, GameEnds(r)
      PROVE  Present'
  BY <1>18, SameChannels DEF GameEnds, Numbered
<1>19. ASSUME SlotExpires
      PROVE  Present'
  BY <1>19, SameChannels DEF SlotExpires, Numbered
<1>20. ASSUME NEW i \in Instances, NEW card \in BOOLEAN, OpenDelete(i, card)
      PROVE  Present'
  BY <1>20, SameChannels DEF OpenDelete, CardAllows, Numbered
<1>21. ASSUME ConfirmDelete
      PROVE  Present'
  <2>1. /\ target.id \in records /\ deletion'.id = target.id /\ deletion'.at = "working"
        /\ deletion.at = "no" /\ UNCHANGED <<records, home, made, folders, jobs>>
        /\ \A k \in Kinds : In(k)' = In(k)
    BY <1>21, SameChannels DEF ConfirmDelete
  <2> QED
    BY <2>1 DEF Numbered
<1>22. ASSUME CloseDelete
      PROVE  Present'
  BY <1>22, SameChannels DEF CloseDelete, MayCloseDelete, Numbered
<1>23. ASSUME DeletionWorks
      PROVE  Present'
  <2>1. /\ UNCHANGED <<records, home, made, jobs>> /\ deletion'.id = deletion.id
        /\ \A k \in Kinds : In(k)' = In(k)
    BY <1>23, SameChannels DEF DeletionWorks, LifeTyped
  <2>2. \/ UNCHANGED folders
        \/ folders' = folders \ {home[deletion.id]} /\ deletion'.at = "deleted"
    BY <1>23 DEF DeletionWorks, LifeTyped
  <2>3. deletion.at = "working"
    BY <1>23 DEF DeletionWorks
  <2>4. /\ \A j \in jobs : j.id # deletion.id
        /\ \A k \in Kinds : \A r \in In(k) : r.id # deletion.id
    BY DEF Apart, Unseen
  <2>5. \A i \in Numbered : Owner(i) /\ i # deletion.id /\ home[i] # 0 => home[i] # home[deletion.id]
    <3>1. deletion.id \in Numbered /\ Owner(deletion.id)
      BY <2>3, LifeTypes
    <3> QED
      BY <3>1
  <2> QED
    BY <2>1, <2>2, <2>3, <2>4, <2>5, ComingIds DEF Numbered, Homes, Housed
<1>24. ASSUME PollDeletion
      PROVE  Present'
  <2>1. /\ UNCHANGED <<home, made, folders, jobs>> /\ deletion'.id = 0 /\ deletion'.at = "no"
        /\ \A k \in Kinds : In(k)' = In(k)
    BY <1>24, SameChannels DEF PollDeletion, NoDeletion
  <2>2. records' = records \ (IF deletion.at = "deleted" THEN {deletion.id} ELSE {})
    BY <1>24 DEF PollDeletion, Deleted
  <2> QED
    BY <2>1, <2>2, ComingIds DEF Numbered
<1> QED
  BY <1>1, <1>2, <1>3, <1>4, <1>5, <1>6, <1>7, <1>8, <1>9, <1>10, <1>11, <1>12, <1>13, <1>14, <1>15, <1>16, <1>17, <1>18, <1>19, <1>20, <1>21, <1>22, <1>23, <1>24
  DEF Next, JobStep, LaunchMoves

\* While the deletion runs, nothing the card asked about begins.
LEMMA CoveredStep ==
    ASSUME LifeTyped, LifeTyped', Apart, Homes, Present, Covered, Next, Quiet'
    PROVE  Covered'
<1> USE DEF Covered, Running, Quiet, Troubles, Troubled
<1> USE DEF store, makers, runtime, history
<1>1. ASSUME NEW d \in {"create", "import"}, OpenDialog(d)
      PROVE  Covered'
  BY <1>1 DEF OpenDialog
<1>2. ASSUME NEW d \in {"create", "import"}, CloseMaker(d)
      PROVE  Covered'
  BY <1>2 DEF CloseMaker
<1>3. ASSUME DropFile
      PROVE  Covered'
  BY <1>3 DEF DropFile, NoTarget
<1>4. ASSUME NEW k \in Kinds, Begin(k)
      PROVE  Covered'
  BY <1>4 DEF Begin, MayBegin
<1>5. ASSUME NEW k \in Kinds, PollMaker(k)
      PROVE  Covered'
  <2> DEFINE r == Head(results[k])
  <2>1. r \in In(k)
    BY <1>5, HeadIsIn DEF PollMaker
  <2>2. records' = records \/ (r.ok /\ records' = records \cup {r.id})
    BY <1>5 DEF PollMaker
  <2>3. dialog' = dialog \/ (dialog = k /\ dialog' = "none")
    BY <1>5 DEF PollMaker
  <2>4. UNCHANGED <<home, launches, pending, playing, target, deletion, hit>>
    BY <1>5 DEF PollMaker
  <2>5. deletion.id # r.id /\ target.id # r.id /\ \A l \in launches : l.id # r.id
    BY <2>1 DEF Apart, Unseen
  <2> HIDE DEF r
  <2> QED
    BY <2>2, <2>3, <2>4, <2>5 DEF Kinds
<1>6. ASSUME NEW j \in jobs, JobChooses(j),
             UNCHANGED <<dialog, target, install, runtime, slot, deletion, hit>>
      PROVE  Covered'
  <2>1. PICK kept : home' = [home EXCEPT ![j.id] = kept]
    BY <1>6 DEF JobChooses
  <2>2. \A i \in Instances : i # j.id => home'[i] = home[i]
    BY <2>1, LifeTypes
  <2>3. UNCHANGED <<records, dialog, target, launches, pending, playing, deletion, hit>>
    BY <1>6 DEF JobChooses
  <2>4. target.id # j.id /\ deletion.id # j.id
    BY DEF Apart, Unseen
  <2> QED
    BY <2>2, <2>3, <2>4, LifeTypes
<1>7. ASSUME NEW j \in jobs, JobMakesFolder(j),
             UNCHANGED <<dialog, target, install, runtime, slot, deletion, hit>>
      PROVE  Covered'
  BY <1>7 DEF JobMakesFolder
<1>8. ASSUME NEW j \in jobs, JobSucceeds(j),
             UNCHANGED <<dialog, target, install, runtime, slot, deletion, hit>>
      PROVE  Covered'
  BY <1>8 DEF JobSucceeds, Answer
<1>9. ASSUME NEW j \in jobs, JobFails(j),
             UNCHANGED <<dialog, target, install, runtime, slot, deletion, hit>>
      PROVE  Covered'
  BY <1>9 DEF JobFails, Answer
<1>10. ASSUME NEW i \in Instances, InstallWrites(i)
      PROVE  Covered'
  BY <1>10 DEF InstallWrites, WritesInto
<1>11. ASSUME NEW i \in Instances, InstallEnds(i)
      PROVE  Covered'
  BY <1>11 DEF InstallEnds
<1>12. ASSUME NEW i \in Instances, PollInstall(i)
      PROVE  Covered'
  <2>1. UNCHANGED <<home, dialog, target, launches, pending, playing, deletion, hit>>
    BY <1>12 DEF PollInstall
  <2>2. records' = records \/ (records' = records \ {i} /\ Met(i) = {})
    BY <1>12 DEF PollInstall
  <2>3. Met(i) = {} => ~Running(i)
    BY DEF Met, Unanswered
  <2> QED
    BY <2>1, <2>2, <2>3
<1>13. ASSUME NEW i \in Instances, RequestLaunch(i)
      PROVE  Covered'
  <2> DEFINE new == [n |-> requested', id |-> i, at |-> "preparing"]
  <2>1. new.id = i /\ i \in records /\ i \notin pending /\ launches' = launches \cup {new}
        /\ pending' = pending \cup {i} /\ dialog = "none"
    BY <1>13 DEF RequestLaunch
  <2>2. UNCHANGED <<records, home, dialog, target, playing, deletion, hit>>
    BY <1>13 DEF RequestLaunch
  <2> HIDE DEF new
  <2> QED
    BY <2>1, <2>2
<1>14. ASSUME NEW l \in launches, LaunchDownloads(l)
      PROVE  Covered'
  BY <1>14 DEF LaunchDownloads, LaunchWrites, WritesInto, LaunchElse
<1>15. ASSUME NEW l \in launches, LaunchReady(l), LaunchElse
      PROVE  Covered'
  <2> DEFINE new == [l EXCEPT !.at = "starting"]
  <2>1. new.id = l.id /\ new.at = "starting" /\ l.at = "preparing"
    BY <1>15 DEF LifeTyped, Launch, LaunchReady
  <2>2. launches' = (launches \ {l}) \cup {new}
    BY <1>15 DEF LaunchReady, LaunchGoes
  <2>3. UNCHANGED <<records, home, dialog, target, pending, playing, deletion, hit>>
    BY <1>15 DEF LaunchReady, LaunchElse
  <2> HIDE DEF new
  <2> QED
    BY <2>1, <2>2, <2>3
<1>16. ASSUME NEW l \in launches, LaunchAnswers(l), LaunchElse
      PROVE  Covered'
  <2> DEFINE new == [l EXCEPT !.at = "answered"]
  <2>1. new.id = l.id /\ new.at = "answered" /\ l.at # "answered"
    BY <1>16 DEF LifeTyped, Launch, LaunchAnswers, Unanswered
  <2>2. launches' = (launches \ {l}) \cup {new}
    BY <1>16 DEF LaunchAnswers, LaunchGoes
  <2>3. UNCHANGED <<records, home, dialog, target, pending, deletion, hit>>
    BY <1>16 DEF LaunchAnswers, LaunchElse
  <2>4. playing' \subseteq playing \cup {home[l.id]} /\ l.id \in records /\ l.id \in pending
    BY <1>16, <2>1 DEF LaunchAnswers
  <2>5. \A i \in records : home[i] = home[l.id] => i = l.id
    BY <2>4 DEF Homes, Housed
  <2>6. deletion.at = "working" /\ deletion.id # l.id => home[deletion.id] # home[l.id]
    BY <2>4, LifeTypes DEF Homes, Housed, Present, Owner
  <2> HIDE DEF new
  <2> QED
    BY <2>1, <2>2, <2>3, <2>4, <2>5, <2>6
<1>17. ASSUME PollLaunches
      PROVE  Covered'
  <2>1. /\ UNCHANGED <<records, home, dialog, target, playing, deletion, hit>>
        /\ launches' = Unanswered /\ pending' = pending \ Settled
    BY <1>17 DEF PollLaunches
  <2>2. \A l \in Unanswered : l.id \notin Settled
    BY DEF Unanswered, Settled
  <2> QED
    BY <2>1, <2>2 DEF Unanswered
<1>18. ASSUME NEW r \in Roots, GameEnds(r)
      PROVE  Covered'
  BY <1>18 DEF GameEnds
<1>19. ASSUME SlotExpires
      PROVE  Covered'
  BY <1>19 DEF SlotExpires
<1>20. ASSUME NEW i \in Instances, NEW card \in BOOLEAN, OpenDelete(i, card)
      PROVE  Covered'
  BY <1>20 DEF OpenDelete, CardAllows
<1>21. ASSUME ConfirmDelete
      PROVE  Covered'
  <2>1. /\ UNCHANGED <<records, home, dialog, target, launches, pending, playing, hit>>
        /\ dialog = "delete" /\ target.id \in records
        /\ deletion'.at = "working" /\ deletion'.id = target.id /\ deletion'.card = target.card
    BY <1>21 DEF ConfirmDelete
  <2> QED
    BY <2>1
<1>22. ASSUME CloseDelete
      PROVE  Covered'
  BY <1>22 DEF CloseDelete, MayCloseDelete, NoTarget
<1>23. ASSUME DeletionWorks
      PROVE  Covered'
  <2>1. /\ UNCHANGED <<records, home, dialog, target, launches, pending, playing>>
        /\ deletion'.id = deletion.id /\ deletion'.at \in {"deleted", "failed"}
        /\ deletion.at = "working"
    BY <1>23 DEF DeletionWorks, LifeTyped
  <2>2. /\ hit' = IF deletion.card THEN hit \cup Met(deletion.id) ELSE hit
        /\ ~deletion.card => Met(deletion.id) = {}
    BY <1>23 DEF DeletionWorks, LifeTyped
  <2>3. ~Running(deletion.id)
    BY <2>1, <2>2 DEF Met, Unanswered, LifeTyped
  <2>4. deletion.card => "launch" \notin Met(deletion.id) /\ "game" \notin Met(deletion.id)
    BY <2>1, <2>3 DEF Met, Unanswered
  <2> QED
    BY <2>1, <2>2, <2>3, <2>4
<1>24. ASSUME PollDeletion
      PROVE  Covered'
  <2>1. /\ UNCHANGED <<home, dialog, target, launches, playing, hit>> /\ deletion'.at = "no"
        /\ records' = records \ Deleted /\ pending' = pending \ (Deleted \cap records)
    BY <1>24 DEF PollDeletion, NoDeletion
  <2>2. \A i \in Deleted : i = deletion.id /\ ~Running(i)
    BY DEF Deleted
  <2> QED
    BY <2>1, <2>2
<1> QED
  BY <1>1, <1>2, <1>3, <1>4, <1>5, <1>6, <1>7, <1>8, <1>9, <1>10, <1>11, <1>12, <1>13, <1>14, <1>15, <1>16, <1>17, <1>18, <1>19, <1>20, <1>21, <1>22, <1>23, <1>24
  DEF Next, JobStep, LaunchMoves

\* The invariant holds with no instances.
LEMMA LifeInit == Init => LifeInv
<1> SUFFICES ASSUME Init PROVE LifeInv
  OBVIOUS
<1>1. \A k \in Kinds : In(k) = {}
  BY DEF Init, In
<1>2. LifeTyped
  <2>1. \A k \in Kinds : results[k] = <<>> /\ <<>> \in Seq(Result)
    BY DEF Init
  <2>2. results \in [Kinds -> Seq(Result)]
    BY <2>1 DEF Init
  <2>3. 0 \in 0..MaxInstances
    BY LifecycleAssumption
  <2> QED
    BY <2>2, <2>3 DEF Init, LifeTyped, NoTarget, NoDeletion
<1>3. Homes
  BY <1>1 DEF Init, Homes, Housed
<1>4. Present
  BY <1>1 DEF Init, Present, Owner, NoDeletion, Numbered
<1>5. Covered
  BY DEF Init, Covered, NoDeletion
<1> QED
  BY <1>1, <1>2, <1>3, <1>4, <1>5 DEF LifeInv, Apart, Init

\* What has gone wrong is not forgotten.
LEMMA TroubleGrows ==
    ASSUME Next
    PROVE  trouble \subseteq trouble'
<1> USE DEF Troubled, WritesInto
<1> USE DEF store, makers, runtime, history
<1>1. ASSUME NEW d \in {"create", "import"}, OpenDialog(d)
      PROVE  trouble \subseteq trouble'
  BY <1>1 DEF OpenDialog
<1>2. ASSUME NEW d \in {"create", "import"}, CloseMaker(d)
      PROVE  trouble \subseteq trouble'
  BY <1>2 DEF CloseMaker
<1>3. ASSUME DropFile
      PROVE  trouble \subseteq trouble'
  BY <1>3 DEF DropFile
<1>4. ASSUME NEW k \in Kinds, Begin(k)
      PROVE  trouble \subseteq trouble'
  BY <1>4 DEF Begin, MayBegin
<1>5. ASSUME NEW k \in Kinds, PollMaker(k)
      PROVE  trouble \subseteq trouble'
  BY <1>5 DEF PollMaker
<1>6. ASSUME NEW j \in jobs, JobChooses(j),
             UNCHANGED <<dialog, target, install, runtime, slot, deletion, hit>>
      PROVE  trouble \subseteq trouble'
  BY <1>6 DEF JobChooses
<1>7. ASSUME NEW j \in jobs, JobMakesFolder(j),
             UNCHANGED <<dialog, target, install, runtime, slot, deletion, hit>>
      PROVE  trouble \subseteq trouble'
  BY <1>7 DEF JobMakesFolder
<1>8. ASSUME NEW j \in jobs, JobSucceeds(j),
             UNCHANGED <<dialog, target, install, runtime, slot, deletion, hit>>
      PROVE  trouble \subseteq trouble'
  BY <1>8 DEF JobSucceeds, Answer
<1>9. ASSUME NEW j \in jobs, JobFails(j),
             UNCHANGED <<dialog, target, install, runtime, slot, deletion, hit>>
      PROVE  trouble \subseteq trouble'
  BY <1>9 DEF JobFails, Answer
<1>10. ASSUME NEW i \in Instances, InstallWrites(i)
      PROVE  trouble \subseteq trouble'
  BY <1>10 DEF InstallWrites, WritesInto
<1>11. ASSUME NEW i \in Instances, InstallEnds(i)
      PROVE  trouble \subseteq trouble'
  BY <1>11 DEF InstallEnds
<1>12. ASSUME NEW i \in Instances, PollInstall(i)
      PROVE  trouble \subseteq trouble'
  BY <1>12 DEF PollInstall, Met
<1>13. ASSUME NEW i \in Instances, RequestLaunch(i)
      PROVE  trouble \subseteq trouble'
  BY <1>13 DEF RequestLaunch
<1>14. ASSUME NEW l \in launches, LaunchDownloads(l)
      PROVE  trouble \subseteq trouble'
  BY <1>14 DEF LaunchDownloads, LaunchWrites, WritesInto, LaunchElse
<1>15. ASSUME NEW l \in launches, LaunchReady(l), LaunchElse
      PROVE  trouble \subseteq trouble'
  BY <1>15 DEF LaunchReady, LaunchGoes, LaunchElse
<1>16. ASSUME NEW l \in launches, LaunchAnswers(l), LaunchElse
      PROVE  trouble \subseteq trouble'
  BY <1>16 DEF LaunchAnswers, LaunchGoes, Unanswered, LaunchElse
<1>17. ASSUME PollLaunches
      PROVE  trouble \subseteq trouble'
  BY <1>17 DEF PollLaunches, Unanswered
<1>18. ASSUME NEW r \in Roots, GameEnds(r)
      PROVE  trouble \subseteq trouble'
  BY <1>18 DEF GameEnds
<1>19. ASSUME SlotExpires
      PROVE  trouble \subseteq trouble'
  BY <1>19 DEF SlotExpires
<1>20. ASSUME NEW i \in Instances, NEW card \in BOOLEAN, OpenDelete(i, card)
      PROVE  trouble \subseteq trouble'
  BY <1>20 DEF OpenDelete, CardAllows
<1>21. ASSUME ConfirmDelete
      PROVE  trouble \subseteq trouble'
  BY <1>21 DEF ConfirmDelete
<1>22. ASSUME CloseDelete
      PROVE  trouble \subseteq trouble'
  BY <1>22 DEF CloseDelete, MayCloseDelete
<1>23. ASSUME DeletionWorks
      PROVE  trouble \subseteq trouble'
  BY <1>23 DEF DeletionWorks, Met
<1>24. ASSUME PollDeletion
      PROVE  trouble \subseteq trouble'
  BY <1>24 DEF PollDeletion, Deleted
<1> QED
  BY <1>1, <1>2, <1>3, <1>4, <1>5, <1>6, <1>7, <1>8, <1>9, <1>10, <1>11, <1>12, <1>13, <1>14, <1>15, <1>16, <1>17, <1>18, <1>19, <1>20, <1>21, <1>22, <1>23, <1>24
  DEF Next, JobStep, LaunchMoves

\* Every step keeps the invariant.
LEMMA LifeStep == LifeInv /\ [Next]_vars => LifeInv'
<1>1. ASSUME LifeInv, Next PROVE LifeInv'
  <2>1. LifeTyped' /\ Apart' /\ Homes'
    BY <1>1, LifeTypedStep, ApartStep, HomesStep DEF LifeInv
  <2>2. trouble \subseteq trouble'
    BY <1>1, TroubleGrows
  <2>3. ASSUME Tracked' PROVE Present'
    <3>1. Present
      BY <1>1, <2>2, <2>3 DEF LifeInv, Tracked
    <3> QED
      BY <1>1, <2>1, <2>3, <3>1, PresentStep DEF LifeInv
  <2>4. ASSUME Quiet' PROVE Covered'
    <3>1. Quiet /\ Tracked
      BY <2>2, <2>4 DEF Quiet, Tracked, Troubles
    <3> QED
      BY <1>1, <2>1, <2>4, <3>1, CoveredStep DEF LifeInv
  <2> QED
    BY <2>1, <2>3, <2>4 DEF LifeInv
<1>2. ASSUME LifeInv, UNCHANGED vars PROVE LifeInv'
  <2>1. /\ UNCHANGED <<records, home, folders, made, dialog, target, jobs, results, launches, requested,
                       pending, playing, deletion, trouble, hit>>
        /\ \A k \in Kinds : In(k)' = In(k)
    BY <1>2, SameChannels DEF vars
  <2>2. LifeTyped' /\ Apart' /\ Homes'
    <3>1. LifeTyped'
      BY <1>2, <2>1 DEF LifeInv, LifeTyped, Numbered, Job, Result, Launch
    <3>2. Apart'
      BY <1>2, <2>1 DEF LifeInv, Apart, Unseen
    <3>3. Homes'
      BY <1>2, <2>1 DEF LifeInv, Homes, Housed
    <3> QED
      BY <3>1, <3>2, <3>3
  <2>3. Tracked' => Present'
    BY <1>2, <2>1 DEF LifeInv, Tracked, Present, Owner, Numbered
  <2>4. Quiet' => Covered'
    BY <1>2, <2>1 DEF LifeInv, Quiet, Covered, Running
  <2> QED
    BY <2>2, <2>3, <2>4 DEF LifeInv
<1> QED
  BY <1>1, <1>2

\* The invariant: copies of the store never pair two instances with one folder, what is
\* being made is in one place, and the card's answer holds until the deletion is done.
THEOREM LifeInvariance == Spec => []LifeInv
BY LifeInit, LifeStep, PTL DEF Spec

\* Always, and whatever is made, deleted or lost at once: two instances of the store are
\* never in one folder, and each has its folder, unless an old copy of the store replaced
\* it or two jobs chose one folder (unique_minecraft_root, start_create, poll_import).
THEOREM EveryInstanceIsHoused == Spec => []FoldersAreOwned
<1>1. LifeInv => HomesAreUnique
  BY DEF LifeInv, Homes, Housed, HomesAreUnique
<1>2. LifeInv => RecordsHaveFolders
  BY DEF LifeInv, Present, Tracked, RecordsHaveFolders
<1> QED
  BY <1>1, <1>2, LifeInvariance, PTL DEF FoldersAreOwned

\* Always: a deletion the card allowed meets neither a launch nor a game, while the UI has
\* not lost track of what it does (delete_reason, request_instance_delete).
THEOREM DeletionSparesGames == Spec => []CardSparesGames
<1>1. LifeInv => CardSparesGames
  BY DEF LifeInv, Quiet, Covered, CardSparesGames
<1> QED
  BY <1>1, LifeInvariance, PTL

-----------------------------------------------------------------------------
(* What an import makes of a pack (PackImport).                             *)

\* CurseForge's manifest has a file to name.
Listable(e) == pack.kind = "curseforge" /\ "content" \notin pack.traits[e] => "namesake" \in pack.traits[e]

\* There is an instance from its creation to the end, and none before; its files are placed one by one.
PackInv ==
    /\ stage \in {"asked", "read", "fetch", "create", "restore", "files", "finish", "done", "failed", "manual"}
    /\ root \in [Entries -> {"none", "override", "pack"}]
    /\ stage \in {"asked", "read", "fetch", "create", "manual"} => ~folder /\ ~recorded
    /\ stage \in {"restore", "files", "finish", "done"} => folder /\ recorded
    /\ stage = "failed" /\ spared = {} => ~folder /\ ~recorded
    /\ stage = "files" => \A e \in P!Wanted \ todo : root[e] = "pack"
    /\ stage \in {"finish", "done"} => /\ \A e \in P!Wanted : root[e] = "pack"
                                       /\ pack.kind \in P!Kinds \ {"launcher"} => \A e \in listed : e \in P!Wanted /\ Listable(e)

LEMMA PackStart == P!Init => PackInv
BY DEF P!Init, PackInv

LEMMA PackInvIsWhole == PackInv => P!PackIsImported
<1> SUFFICES ASSUME PackInv PROVE P!PackIsImported
  OBVIOUS
<1>1. P!ImportIsWhole
  <2> SUFFICES ASSUME stage = "done", pack.kind \in P!Kinds \ {"launcher"}, NEW e \in listed
               PROVE  P!Names(e) # "none" /\ (P!Names(e) = "pack" \/ "namesake" \in pack.traits[e])
    BY DEF PackInv, P!ImportIsWhole
  <2>1. root[e] = "pack" /\ Listable(e) /\ e \in Entries
    BY DEF PackInv, P!Wanted
  <2> QED
    BY <2>1 DEF P!Names, P!InMods, P!Has, Listable
<1>2. P!NothingIsLeft
  BY DEF PackInv, P!NothingIsLeft
<1> QED
  BY <1>1, <1>2 DEF P!PackIsImported

\* A failure deletes what there is, or says that it could not.
LEMMA FailsKeeps == ASSUME PackInv, P!Fails PROVE PackInv'
<1>1. stage' = "failed" /\ UNCHANGED <<pack, todo, staged, root, listed>>
  BY DEF P!Fails, P!Undo
<1>2. spared' = {} => ~folder' /\ ~recorded'
  BY DEF P!Fails, P!Undo
<1> QED
  BY <1>1, <1>2 DEF PackInv

LEMMA PlaceKeeps == ASSUME PackInv, NEW e \in Entries, P!PlaceFile(e) PROVE PackInv'
<1>1. CASE P!Fails
  BY <1>1, FailsKeeps
<1>2. CASE /\ P!Put(e) /\ todo' = todo \ {e}
           /\ UNCHANGED <<pack, stage, staged, listed, folder, recorded, spared>>
  <2>1. root' = [root EXCEPT ![e] = "pack"] /\ stage = "files" /\ P!Wanted' = P!Wanted
    BY <1>2 DEF P!Put, P!PlaceFile, P!Wanted, P!Has
  <2>2. root' \in [Entries -> {"none", "override", "pack"}] /\ root'[e] = "pack"
        /\ \A o \in Entries : o # e => root'[o] = root[o]
    BY <2>1 DEF PackInv
  <2>3. \A o \in P!Wanted \ todo' : root'[o] = "pack"
    BY <1>2, <2>1, <2>2 DEF PackInv, P!Wanted
  <2> QED
    BY <1>2, <2>1, <2>2, <2>3 DEF PackInv
<1> QED
  BY <1>1, <1>2 DEF P!PlaceFile

LEMMA RestoreKeeps == ASSUME PackInv, NEW e \in Entries, P!Restore(e) PROVE PackInv'
<1>1. CASE P!Fails
  BY <1>1, FailsKeeps
<1>2. CASE /\ root' = [root EXCEPT ![e] = "override"]
           /\ UNCHANGED <<pack, stage, staged, listed, folder, recorded, spared>>
  <2>1. stage = "restore" /\ root' \in [Entries -> {"none", "override", "pack"}]
    BY <1>2 DEF P!Restore, PackInv
  <2> QED
    BY <1>2, <2>1 DEF PackInv
<1> QED
  BY <1>1, <1>2 DEF P!Restore

\* Whatever a pack's manifest lists is of the pack.
LEMMA ManagedIsWanted ==
    ASSUME pack.kind \in P!Kinds \ {"launcher"}, NEW e \in P!Managed
    PROVE  e \in P!Wanted /\ Listable(e)
<1>1. CASE pack.kind = "mrpack"
  BY <1>1 DEF P!Managed, P!ManagedModrinth, Listable
<1>2. CASE pack.kind = "curseforge"
  <2>1. e \in P!Wanted /\ P!InMods(e) # "none"
    BY <1>2 DEF P!Managed, P!ManagedCurseForge
  <2> QED
    BY <2>1 DEF P!InMods, P!Has, P!Wanted, Listable
<1>3. CASE pack.kind = "vtmpack"
  BY <1>3 DEF P!Managed, Listable
<1> QED
  BY <1>1, <1>2, <1>3 DEF P!Kinds

LEMMA PackStep == PackInv /\ [P!Next]_packVars => PackInv'
<1> SUFFICES ASSUME PackInv, [P!Next]_packVars PROVE PackInv'
  OBVIOUS
<1>0. UNCHANGED pack => P!Wanted' = P!Wanted /\ \A e : Listable(e)' = Listable(e)
  BY DEF P!Wanted, P!Has, Listable
<1>1. CASE UNCHANGED packVars
  BY <1>0, <1>1 DEF packVars, PackInv
<1>2. CASE P!Begin
  BY <1>2 DEF P!Begin, PackInv
<1>3. CASE P!Resolve
  BY <1>3 DEF P!Resolve, PackInv
<1>4. CASE P!EndFetch
  BY <1>4 DEF P!EndFetch, P!Fetched, PackInv
<1>5. CASE P!Create
  <2>1. spared \cup {"half made"} # {}
    OBVIOUS
  <2>2. ~folder /\ ~recorded /\ root' = root
    BY <1>5 DEF P!Create, PackInv
  <2>3. CASE stage' = "restore" /\ folder' = TRUE /\ recorded' = TRUE
    BY <2>2, <2>3 DEF PackInv
  <2>4. CASE stage' = "failed" /\ UNCHANGED <<folder, recorded, spared>>
    BY <2>2, <2>4 DEF PackInv
  <2>5. CASE stage' = "failed" /\ spared' = spared \cup {"half made"}
    BY <2>1, <2>2, <2>5 DEF PackInv
  <2> QED
    BY <1>5, <2>3, <2>4, <2>5 DEF P!Create
<1>6. CASE P!RestoreEnds
  <2>1. CASE P!Fails
    BY <2>1, FailsKeeps
  <2>2. CASE stage' = "files" /\ todo' = P!Wanted /\ UNCHANGED <<pack, staged, root, listed, folder, recorded, spared>>
    BY <1>0, <1>6, <2>2 DEF P!RestoreEnds, PackInv
  <2> QED
    BY <1>6, <2>1, <2>2 DEF P!RestoreEnds
<1>7. CASE P!Note
  <2>1. CASE P!Fails
    BY <2>1, FailsKeeps
  <2>2. CASE /\ listed' = P!Managed /\ stage' = IF pack.discover THEN "finish" ELSE "done"
             /\ UNCHANGED <<pack, todo, staged, root, folder, recorded, spared>>
    <3>1. stage = "files" /\ todo = {} /\ stage' \in {"finish", "done"}
      BY <1>7, <2>2 DEF P!Note
    <3> QED
      BY <1>0, <2>2, <3>1, ManagedIsWanted DEF PackInv
  <2> QED
    BY <1>7, <2>1, <2>2 DEF P!Note
<1>8. CASE P!FinishDiscover
  <2>1. spared \cup {"not finished"} # {}
    OBVIOUS
  <2> QED
    BY <1>0, <1>8, <2>1 DEF P!FinishDiscover, PackInv
<1>9. ASSUME NEW e \in Entries, P!Fetch(e) PROVE PackInv'
  BY <1>0, <1>9 DEF P!Fetch, PackInv
<1>10. ASSUME NEW e \in Entries, P!RestorePayload(e) \/ P!RestoreOverrides(e) \/ P!RestoreCurseForge(e) PROVE PackInv'
  BY <1>10, RestoreKeeps DEF P!RestorePayload, P!RestoreOverrides, P!RestoreCurseForge
<1>11. ASSUME NEW e \in Entries, P!PlaceVertex(e) \/ P!PlaceModrinth(e) \/ P!PlaceCurseForge(e) \/ P!PlaceCopied(e) PROVE PackInv'
  BY <1>11, PlaceKeeps DEF P!PlaceVertex, P!PlaceModrinth, P!PlaceCurseForge, P!PlaceCopied
<1> QED
  BY <1>1, <1>2, <1>3, <1>4, <1>5, <1>6, <1>7, <1>8, <1>9, <1>10, <1>11 DEF P!Next

-----------------------------------------------------------------------------
(* The folder of another launcher (PackImport).                             *)

FolderInv == (found = P!Unread \/ found.state \in {"failed", "read"}) /\ P!FolderIsUnderstood

LEMMA FolderStart == P!FolderInit => FolderInv
<1> SUFFICES ASSUME P!FolderInit PROVE FolderInv
  OBVIOUS
<1>1. found = P!Unread /\ found.state = "unread"
  BY DEF P!FolderInit, P!Unread
<1> QED
  BY <1>1 DEF FolderInv, P!FolderIsUnderstood, P!DetectedIsReadable, P!VersionFits, P!ListedIsCopied, P!Read

\* The folders there are: what each of their fields may be.
LEMMA FolderFields ==
    ASSUME NEW f \in P!Installations
    PROVE  /\ f.files \subseteq P!Places /\ f.own \subseteq P!Places
           /\ f.components = <<>> \/ (\E l \in P!Loaders : f.components = <<l>>) \/ (\E a, b \in P!Loaders : f.components = <<a, b>>)
           /\ f.cache = <<>> \/ (\E l \in P!Loaders : f.cache = <<l>>) \/ (\E a, b \in P!Loaders : f.cache = <<a, b>>)
           /\ f.says.version \in {P!None, "given"}
<1>0. /\ f.files \subseteq P!Places /\ f.own \subseteq P!Places
      /\ f.components \in P!Versions /\ f.cache \in P!Versions
      /\ f.says.version \in {P!None, "given"}
  <2>1. <<>> \in P!Versions /\ P!Silent.version = P!None
    BY DEF P!Versions, P!Silent
  <2>3. CASE f \in P!Marked
    BY <2>1, <2>3 DEF P!Marked, P!Folders
  <2>4. CASE f \in P!Owned
    BY <2>1, <2>4 DEF P!Owned, P!Folders
  <2>5. CASE f \in P!Broken
    BY <2>1, <2>5 DEF P!Broken, P!Folders
  <2>6. CASE f \in P!Saying
    BY <2>1, <2>6 DEF P!Saying, P!Sayings, P!Folders
  <2>7. CASE f \in P!Listing
    BY <2>1, <2>7 DEF P!Listing, P!Folders
  <2>8. CASE f \in P!Guessed
    BY <2>1, <2>8 DEF P!Guessed, P!Folders
  <2> QED
    BY <2>3, <2>4, <2>5, <2>6, <2>7, <2>8 DEF P!Installations
<1>1. \A c \in P!Versions : c = <<>> \/ (\E l \in P!Loaders : c = <<l>>) \/ (\E a, b \in P!Loaders : c = <<a, b>>)
  BY DEF P!Versions
<1> QED
  BY <1>0, <1>1

\* A loader that is read last has set the version, too, or what was read before it has.
LEMMA TwoAtMost ==
    ASSUME NEW f \in P!Installations
    PROVE  /\ LET pair == P!AfterAll(P!Component, P!Vanilla, f.components)
              IN pair = P!Vanilla \/ pair.version = pair.loader
           /\ \A p \in P!FromProfile(f) :
                LET pair == P!AfterAll(P!Refined, p, f.cache)
                IN pair.version \in P!Loaders => pair.version = pair.loader \/ (f.names # {} /\ ~f.requires)
<1>1. PICK c : c = f.components
  OBVIOUS
<1>2. c = <<>> \/ (\E l \in P!Loaders : c = <<l>>) \/ (\E a, b \in P!Loaders : c = <<a, b>>)
  BY <1>1, FolderFields
<1>3. LET pair == P!AfterAll(P!Component, P!Vanilla, c) IN pair = P!Vanilla \/ pair.version = pair.loader
  BY <1>2 DEF P!AfterAll, P!Component
<1>4. PICK d : d = f.cache
  OBVIOUS
<1>5. d = <<>> \/ (\E l \in P!Loaders : d = <<l>>) \/ (\E a, b \in P!Loaders : d = <<a, b>>)
  BY <1>4, FolderFields
<1>6. ASSUME NEW p \in P!FromProfile(f)
      PROVE  LET pair == P!AfterAll(P!Refined, p, d)
             IN pair.version \in P!Loaders => pair.version = pair.loader \/ (f.names # {} /\ ~f.requires)
  <2>1. CASE f.names # {} /\ ~f.requires
    BY <2>1
  <2>2. p \in {P!Vanilla, [loader |-> "Fabric", version |-> "Fabric"]} \/ (f.names # {} /\ ~f.requires)
    BY DEF P!FromProfile
  <2>3. CASE p = [loader |-> "Fabric", version |-> "Fabric"]
    <3>1. \A x : P!Refined(p, x) = p
      BY <2>3 DEF P!Refined, P!None
    <3>2. P!AfterAll(P!Refined, p, d) = p
      BY <1>5, <3>1 DEF P!AfterAll
    <3> QED
      BY <2>3, <3>2
  <2>4. CASE p = P!Vanilla
    <3>1. \A x \in P!Loaders : P!Refined(p, x) = [loader |-> x, version |-> x]
      BY <2>4 DEF P!Refined, P!None, P!Vanilla
    <3>2. \A x, y \in P!Loaders : P!Refined([loader |-> x, version |-> x], y) = [loader |-> x, version |-> x]
      BY DEF P!Refined, P!None, P!Loaders
    <3>3. P!AfterAll(P!Refined, p, d) = p \/ \E x \in P!Loaders : P!AfterAll(P!Refined, p, d) = [loader |-> x, version |-> x]
      <4>1. CASE d = <<>>
        BY <4>1 DEF P!AfterAll
      <4>2. ASSUME NEW l \in P!Loaders, d = <<l>> PROVE P!AfterAll(P!Refined, p, d) = [loader |-> l, version |-> l]
        BY <3>1, <4>2 DEF P!AfterAll
      <4>3. ASSUME NEW a \in P!Loaders, NEW b \in P!Loaders, d = <<a, b>> PROVE P!AfterAll(P!Refined, p, d) = [loader |-> a, version |-> a]
        BY <3>1, <3>2, <4>3 DEF P!AfterAll
      <4> QED
        BY <1>5, <4>1, <4>2, <4>3
    <3>4. p.version \notin P!Loaders
      BY <2>4 DEF P!Vanilla, P!None, P!Loaders
    <3> QED
      BY <3>3, <3>4
  <2> QED
    BY <2>1, <2>2, <2>3, <2>4
<1> QED
  BY <1>1, <1>3, <1>4, <1>6

LEMMA RunsFit ==
    ASSUME NEW f \in P!Installations, NEW p \in P!Runs(f), p.version \in P!Loaders
    PROVE  p.version = p.loader \/ (f.names # {} /\ ~f.requires)
<1>1. P!Vanilla.version \notin P!Loaders
  BY DEF P!Vanilla, P!None, P!Loaders
<1>2. CASE P!Launcher(f) = "Prism"
  BY <1>1, <1>2, TwoAtMost DEF P!Runs
<1>3. CASE P!Launcher(f) = "Modrinth" /\ "profile.json" \notin f.marks
  BY <1>3, TwoAtMost DEF P!Runs
<1>4. CASE P!Launcher(f) = "Unknown"
  BY <1>1, <1>4 DEF P!Runs
<1>5. CASE P!Launcher(f) \notin {"Prism", "Unknown"} /\ ~(P!Launcher(f) = "Modrinth" /\ "profile.json" \notin f.marks)
  <2>1. p = P!Pair(f.says)
    BY <1>5 DEF P!Runs
  <2>2. f.says.version \in {P!None, "given"}
    BY FolderFields
  <2> QED
    BY <2>1, <2>2 DEF P!Pair, P!None, P!Loaders
<1> QED
  BY <1>2, <1>3, <1>4, <1>5

LEMMA FolderStep == FolderInv /\ [P!Inspect]_sourceVars => FolderInv'
<1> SUFFICES ASSUME FolderInv, [P!Inspect]_sourceVars PROVE FolderInv'
  OBVIOUS
<1>1. CASE UNCHANGED sourceVars
  BY <1>1 DEF sourceVars, FolderInv, P!FolderIsUnderstood, P!DetectedIsReadable, P!VersionFits, P!ListedIsCopied, P!Read
<1>2. CASE P!Inspect
  <2>1. PICK f \in P!Installations : source' = f
    BY <1>2 DEF P!Inspect
  <2>2. CASE P!Refused(f)
    <3>1. found' = [state |-> "failed"] /\ found'.state = "failed"
      BY <1>2, <2>1, <2>2 DEF P!Inspect
    <3>2. f.hint = P!None => f.broken /\ "manifest" \notin f.marks
      <4>1. P!Metadata["CurseForge"] = "minecraftinstance.json"
        BY DEF P!Metadata
      <4>2. CASE f.hint = P!None /\ "manifest" \in f.marks
        <5>1. P!Launcher(f) = "Unknown"
          BY <4>2 DEF P!Launcher, P!Detected
        <5> QED
          BY <2>2, <5>1 DEF P!Refused, P!HasMetadata
      <4>3. CASE f.hint = P!None /\ ~f.broken
        BY <2>2, <4>1, <4>3 DEF P!Refused, P!Launcher, P!Detected, P!HasMetadata
      <4> QED
        BY <2>2, <4>2, <4>3 DEF P!Refused, P!HasMetadata
    <3> QED
      BY <2>1, <3>1, <3>2 DEF FolderInv, P!FolderIsUnderstood, P!DetectedIsReadable, P!VersionFits, P!ListedIsCopied, P!Read
  <2>3. CASE ~P!Refused(f)
    <3>1. PICK p \in P!Runs(f) :
             found' = [state |-> "read", pair |-> p, listed |-> P!Manifest(f), files |-> P!Copied(f)]
      BY <1>2, <2>1, <2>3 DEF P!Inspect
    <3>2. found'.state = "read" /\ found'.pair = p /\ found'.listed = P!Manifest(f) /\ found'.files = P!Copied(f)
      BY <3>1
    <3>3. P!Manifest(f) \ ({"downloads"} \cup (f.own \cap {"gone"})) \subseteq P!Copied(f)
      BY FolderFields DEF P!Manifest, P!ResolvedFiles, P!Copied, P!Places
    <3>4. p.version \in P!Loaders => p.version = p.loader \/ (f.names # {} /\ ~f.requires)
      BY RunsFit
    <3> QED
      BY <2>1, <3>2, <3>3, <3>4 DEF FolderInv, P!FolderIsUnderstood, P!DetectedIsReadable, P!VersionFits, P!ListedIsCopied, P!Read
  <2> QED
    BY <2>2, <2>3
<1> QED
  BY <1>1, <1>2

-----------------------------------------------------------------------------
(* Imports and installations (ImportFlows).                                 *)

IsImport(t) == t.kind = "import"
TaskShape(t) ==
    /\ t = [n |-> t.n, kind |-> t.kind, req |-> t.req, dir |-> t.dir, files |-> t.files, heard |-> t.heard,
            out |-> t.out, missing |-> t.missing]
    /\ t.heard \in BOOLEAN

FlowShapes ==
    /\ asked \in [reqs : Nat, dirs : Nat, tries : Nat]
    /\ adopted \in [1 .. MaxRequests -> Nat]
    /\ shopping = [busy |-> shopping.busy, check |-> shopping.check]
    /\ preflight # Nothing => preflight = [req |-> preflight.req, found |-> preflight.found]
    /\ waiting # Nothing =>
         /\ waiting = [cont |-> waiting.cont, req |-> waiting.req, needed |-> waiting.needed, staged |-> waiting.staged,
                       dir |-> waiting.dir, scan |-> waiting.scan, found |-> waiting.found]
         /\ waiting.cont \in {"import", "discover"}
    /\ \A t \in tasks : TaskShape(t)

\* The import that is heard is the one the UI knows of, and none is while another is checked or waits.
Hearing ==
    /\ \A t, u \in tasks : IsImport(t) /\ t.heard /\ IsImport(u) /\ u.heard => t = u
    /\ \A t \in tasks : IsImport(t) /\ t.heard =>
         /\ importing /\ preflight = Nothing
         /\ waiting # Nothing => waiting.cont = "discover"
         /\ imported.req = t.req /\ imported.dir = t.dir
    /\ preflight # Nothing /\ waiting # Nothing => waiting.cont = "discover"

\* Requests are numbered in the order they are made.
InOrder ==
    /\ asked.reqs <= MaxRequests
    /\ \A t \in tasks : t.req \in 1 .. asked.reqs
    /\ preflight # Nothing => preflight.req \in 1 .. asked.reqs
    /\ shopping.check # Nothing => shopping.check \in 1 .. asked.reqs
    /\ waiting # Nothing => waiting.req \in 1 .. asked.reqs
    /\ cancelled \subseteq 1 .. asked.reqs

\* A request is in one place at a time; only an installation waits and runs.
InOnePlace ==
    /\ \A t, u \in tasks : IsImport(t) /\ t.req = u.req => t = u
    /\ preflight # Nothing => \A t \in tasks : t.req # preflight.req
    /\ shopping.check # Nothing => \A t \in tasks : t.req # shopping.check
    /\ preflight # Nothing /\ shopping.check # Nothing => preflight.req # shopping.check
    /\ waiting # Nothing =>
         /\ shopping.check # Nothing => waiting.req # shopping.check
         /\ preflight # Nothing => waiting.req # preflight.req
         /\ \A t \in tasks : IsImport(t) \/ waiting.cont = "import" => t.req # waiting.req

\* What is not over has no instance, and what is cancelled never gets one.
Unfinished ==
    /\ \A r \in 1 .. MaxRequests : r > asked.reqs => adopted[r] = 0
    /\ \A r \in cancelled : adopted[r] = 0
    /\ \A t \in tasks : t.req \notin cancelled /\ (IsImport(t) => adopted[t.req] = 0)
    /\ preflight # Nothing => preflight.req \notin cancelled /\ adopted[preflight.req] = 0
    /\ shopping.check # Nothing => shopping.check \notin cancelled /\ adopted[shopping.check] = 0
    /\ waiting # Nothing => waiting.req \notin cancelled /\ adopted[waiting.req] = 0

\* Every directory is of one import, or of the wait before it, and is not removed before that has ended.
Staged ==
    /\ doomed \subseteq 1 .. asked.dirs
    /\ \A t \in tasks : IsImport(t) /\ t.dir # Nothing => t.dir \in 1 .. asked.dirs
    /\ \A t, u \in tasks : IsImport(t) /\ IsImport(u) /\ t.dir # Nothing /\ t.dir = u.dir => t = u
    /\ \A t \in tasks : IsImport(t) /\ t.out = "none" /\ t.dir # Nothing => t.dir \in staging /\ t.dir \notin doomed
    /\ waiting # Nothing =>
         /\ waiting.dir \in 1 .. asked.dirs
         /\ \A t \in tasks : IsImport(t) /\ t.dir # Nothing => t.dir # waiting.dir
         /\ waiting.cont = "import" => waiting.dir \in staging /\ waiting.dir \notin doomed

FlowInv == FlowShapes /\ Hearing /\ InOrder /\ InOnePlace /\ Unfinished /\ Staged

FormInv ==
    /\ form = [open |-> form.open, path |-> form.path, preview |-> form.preview, serial |-> form.serial,
               looking |-> form.looking]
    /\ F!PreviewIsLast

coreVars == <<importing, preflight, imported, waiting, shopping, tasks, staging, doomed, adopted, asked, cancelled>>

LEMMA FlowStart == F!Init => FlowInv /\ FormInv
<1> SUFFICES ASSUME F!Init PROVE FlowInv /\ FormInv
  OBVIOUS
<1>1. FlowShapes
  BY FlowAssumption DEF F!Init, FlowShapes, F!Requests
<1>2. Hearing /\ InOnePlace /\ Staged
  BY DEF F!Init, Hearing, InOnePlace, Staged
<1>3. InOrder /\ Unfinished
  BY FlowAssumption DEF F!Init, InOrder, Unfinished, F!Requests
<1>4. FormInv
  BY DEF F!Init, F!Closed, FormInv, F!PreviewIsLast
<1> QED
  BY <1>1, <1>2, <1>3, <1>4 DEF FlowInv

LEMMA FlowInvIsSound == FlowInv /\ FormInv => F!ImportsAreSound
<1> SUFFICES ASSUME FlowInv, FormInv PROVE F!ImportsAreSound
  OBVIOUS
<1>1. F!StagingIsThere
  BY DEF FlowInv, Staged, IsImport, F!StagingIsThere
<1>2. F!CancelledIsOver
  BY DEF FlowInv, Unfinished, F!CancelledIsOver
<1>3. F!OneImport
  BY DEF FlowInv, Hearing, InOnePlace, IsImport, F!OneImport
<1>4. F!PreviewIsLast
  BY DEF FormInv
<1> QED
  BY <1>1, <1>2, <1>3, <1>4 DEF F!ImportsAreSound

\* Nothing but the form, the browser's downloads or a guard is concerned.
LEMMA CoreKept == ASSUME FlowInv, UNCHANGED coreVars PROVE FlowInv'
BY DEF coreVars, FlowInv, FlowShapes, TaskShape, Hearing, InOrder, InOnePlace, Unfinished, Staged, IsImport

-----------------------------------------------------------------------------

\* An import begins, beside tasks that no one hears or that are installations.
LEMMA Spawned ==
    ASSUME FlowInv, NEW r \in 1 .. MaxRequests, NEW dir, NEW files, NEW others \in SUBSET tasks, NEW dirs \in {0, 1},
           F!SpawnImport(r, dir, files, others, dirs),
           \A u \in others : ~(IsImport(u) /\ u.heard) /\ u.req # r,
           UNCHANGED <<shopping, adopted, cancelled>>, preflight' = Nothing,
           waiting' \in {waiting, Nothing}, waiting' # Nothing => waiting.cont = "discover" /\ waiting.req # r,
           shopping.check # Nothing => shopping.check # r, adopted[r] = 0, r \notin cancelled, r <= asked.reqs + 1,
           dir # Nothing =>
              /\ dir \in 1 .. asked.dirs + dirs /\ dir \in staging' /\ dir \notin doomed'
              /\ \A u \in others : IsImport(u) => u.dir # dir
              /\ waiting' # Nothing => waiting.dir # dir,
           doomed' \subseteq 1 .. asked.dirs + dirs,
           \A u \in others : IsImport(u) /\ u.out = "none" /\ u.dir # Nothing => u.dir \in staging' /\ u.dir \notin doomed'
    PROVE  FlowInv'
<1> PICK new : new = F!NewTask("import", r, dir, files)
  OBVIOUS
<1>1. /\ new.kind = "import" /\ new.req = r /\ new.dir = dir /\ new.heard = TRUE /\ new.out = "none" /\ TaskShape(new)
  BY DEF F!NewTask, TaskShape
<1>2. /\ tasks' = others \cup {new} /\ importing' = TRUE
      /\ imported'.req = r /\ imported'.dir = dir
  BY DEF F!SpawnImport
<1>3. /\ asked' \in [reqs : Nat, dirs : Nat, tries : Nat]
      /\ asked'.reqs = IF r > asked.reqs THEN r ELSE asked.reqs
      /\ asked'.dirs = asked.dirs + dirs
  <2>1. asked \in [reqs : Nat, dirs : Nat, tries : Nat]
    BY DEF FlowInv, FlowShapes
  <2>2. r \in Nat
    BY FlowAssumption
  <2>3. asked' = [asked EXCEPT !.tries = @ + 1, !.dirs = @ + dirs, !.reqs = IF r > @ THEN r ELSE @]
    BY DEF F!SpawnImport
  <2> PICK reqs \in Nat : reqs = IF r > asked.reqs THEN r ELSE asked.reqs
    BY <2>1, <2>2
  <2>4. asked' = [asked EXCEPT !.tries = @ + 1, !.dirs = @ + dirs, !.reqs = reqs]
    BY <2>3
  <2>5. asked.tries + 1 \in Nat /\ asked.dirs + dirs \in Nat
    BY <2>1
  <2> QED
    BY <2>1, <2>4, <2>5
<1>4. asked.reqs \in Nat /\ asked.dirs \in Nat /\ MaxRequests \in Nat /\ asked.reqs <= MaxRequests
  BY FlowAssumption DEF FlowInv, FlowShapes, InOrder
<1>5. asked'.reqs \in Nat /\ asked.reqs <= asked'.reqs /\ r <= asked'.reqs /\ asked'.reqs <= MaxRequests
  BY <1>3, <1>4
<1>6. FlowShapes'
  BY <1>1, <1>2, <1>3 DEF FlowInv, FlowShapes, TaskShape
<1>7. Hearing'
  BY <1>1, <1>2 DEF FlowInv, Hearing, IsImport
<1>8. InOrder'
  BY <1>1, <1>2, <1>4, <1>5 DEF FlowInv, InOrder
<1>9. InOnePlace'
  BY <1>1, <1>2 DEF FlowInv, InOnePlace, IsImport
<1>10. Unfinished'
  BY <1>1, <1>2, <1>4, <1>5 DEF FlowInv, Unfinished, IsImport
<1>11. Staged'
  BY <1>1, <1>2, <1>3, <1>4 DEF FlowInv, Staged, IsImport
<1> QED
  BY <1>6, <1>7, <1>8, <1>9, <1>10, <1>11 DEF FlowInv

\* What a check or a task could not download is waited for, or was there all the time.
LEMMA Opened ==
    ASSUME FlowInv, NEW r \in 1 .. MaxRequests, NEW needed, NEW kept, NEW from, NEW others \in SUBSET tasks, NEW before,
           F!OpenManualDownloads(r, needed, kept, from, others, before),
           \A u \in others : ~(IsImport(u) /\ u.heard) /\ u.req # r,
           UNCHANGED <<shopping, adopted, cancelled>>, preflight' = Nothing,
           waiting # Nothing => waiting.cont = "discover" /\ waiting.req # r,
           shopping.check # Nothing => shopping.check # r, adopted[r] = 0, r \notin cancelled, r <= asked.reqs,
           from # Nothing => from \in 1 .. asked.dirs /\ \A u \in others : IsImport(u) => u.dir # from
    PROVE  FlowInv'
<1>1. /\ asked.reqs \in Nat /\ asked.dirs \in Nat /\ MaxRequests \in Nat /\ asked.reqs <= MaxRequests /\ r \in Nat
      /\ asked \in [reqs : Nat, dirs : Nat, tries : Nat]
  BY FlowAssumption DEF FlowInv, FlowShapes, InOrder
<1> PICK new : new = asked.dirs + 1
  OBVIOUS
<1>2. /\ F!NewStaging = new /\ staging' = staging \cup {new} /\ new \notin doomed
      /\ new \in 1 .. asked.dirs + 1
      /\ \A u \in tasks : IsImport(u) => u.dir # new \/ new = Nothing
  BY <1>1 DEF F!OpenManualDownloads, F!NewStaging, FlowInv, Staged
<1>3. PICK w : w = F!Wait("import", r, needed, kept)
  OBVIOUS
<1>4. /\ w = [cont |-> w.cont, req |-> w.req, needed |-> w.needed, staged |-> w.staged, dir |-> w.dir,
              scan |-> w.scan, found |-> w.found]
      /\ w.cont = "import" /\ w.req = r /\ w.dir = new
  BY <1>2, <1>3 DEF F!Wait
<1>5. PICK gone : gone = F!CleanupStaging(from)
  OBVIOUS
<1>6. gone = {} \/ (from # Nothing /\ gone = {from})
  BY <1>5 DEF F!CleanupStaging
<1>7. CASE /\ doomed' = doomed \cup gone \/ doomed' = doomed \cup gone \cup {new}
           /\ importing' = FALSE /\ tasks' = others
           /\ asked' = [asked EXCEPT !.dirs = @ + 1]
           /\ waiting' = waiting
  <2>1. asked'.reqs = asked.reqs /\ asked'.dirs = asked.dirs + 1 /\ asked' \in [reqs : Nat, dirs : Nat, tries : Nat]
    BY <1>1, <1>7
  <2>2. FlowShapes'
    BY <1>7, <2>1 DEF FlowInv, FlowShapes, TaskShape
  <2>3. Hearing'
    BY <1>7 DEF FlowInv, Hearing, IsImport
  <2>4. InOrder' /\ InOnePlace' /\ Unfinished'
    BY <1>7, <2>1 DEF FlowInv, InOrder, InOnePlace, Unfinished, IsImport
  <2>5. Staged'
    BY <1>1, <1>2, <1>6, <1>7, <2>1 DEF FlowInv, Staged, IsImport
  <2> QED
    BY <2>2, <2>3, <2>4, <2>5 DEF FlowInv
<1>8. CASE /\ doomed' = doomed \cup gone
           /\ F!SpawnImport(r, new, w.staged, others, 1) /\ waiting' = waiting
  <2>1. doomed' \subseteq 1 .. asked.dirs + 1
    <3>1. doomed \cup gone \subseteq 1 .. asked.dirs
      BY <1>6 DEF FlowInv, Staged
    <3>2. 1 .. asked.dirs \subseteq 1 .. asked.dirs + 1
      BY <1>1
    <3> QED
      BY <1>8, <3>1, <3>2
  <2>2. \A u \in others : IsImport(u) /\ u.out = "none" /\ u.dir # Nothing => u.dir \in staging' /\ u.dir \notin doomed'
    BY <1>2, <1>6, <1>8 DEF FlowInv, Staged
  <2>3. new # Nothing =>
              /\ new \in 1 .. asked.dirs + 1 /\ new \in staging' /\ new \notin doomed'
              /\ \A u \in others : IsImport(u) => u.dir # new
              /\ waiting' # Nothing => waiting.dir # new
    BY <1>1, <1>2, <1>6, <1>8 DEF FlowInv, Staged
  <2>4. waiting' \in {waiting, Nothing} /\ 1 \in {0, 1} /\ r <= asked.reqs + 1
    BY <1>1, <1>8
  <2> QED
    BY <1>8, <2>1, <2>2, <2>3, <2>4, Spawned
<1>9. CASE /\ doomed' = doomed \cup gone
           /\ importing' = FALSE /\ tasks' = others
           /\ waiting' = w
           /\ asked' = [asked EXCEPT !.dirs = @ + 1]
  <2>1. asked'.reqs = asked.reqs /\ asked'.dirs = asked.dirs + 1 /\ asked' \in [reqs : Nat, dirs : Nat, tries : Nat]
    BY <1>1, <1>9
  <2>2. FlowShapes'
    BY <1>4, <1>9, <2>1 DEF FlowInv, FlowShapes, TaskShape
  <2>3. Hearing'
    BY <1>9 DEF FlowInv, Hearing, IsImport
  <2>4. InOrder' /\ InOnePlace' /\ Unfinished'
    BY <1>1, <1>4, <1>9, <2>1 DEF FlowInv, InOrder, InOnePlace, Unfinished, IsImport
  <2>5. Staged'
    BY <1>1, <1>2, <1>4, <1>6, <1>9, <2>1 DEF FlowInv, Staged, IsImport
  <2> QED
    BY <2>2, <2>3, <2>4, <2>5 DEF FlowInv
<1> QED
  BY <1>2, <1>3, <1>4, <1>5, <1>7, <1>8, <1>9 DEF F!OpenManualDownloads

-----------------------------------------------------------------------------

\* Tasks that no one hears any more are otherwise as they were.
LEMMA UnheardFields ==
    ASSUME FlowInv
    PROVE  /\ \A x \in F!Unheard :
                /\ TaskShape(x) /\ ~(IsImport(x) /\ x.heard)
                /\ \E t \in tasks : x.kind = t.kind /\ x.req = t.req /\ x.dir = t.dir /\ x.out = t.out
           /\ \A x, y \in F!Unheard : IsImport(x) /\ x.req = y.req => x = y
           /\ \A x, y \in F!Unheard : IsImport(x) /\ IsImport(y) /\ x.dir # Nothing /\ x.dir = y.dir => x = y
<1> DEFINE Un(t) == [t EXCEPT !.heard = t.heard /\ t.kind # "import"]
<1>1. \A x \in F!Unheard : \E t \in tasks : x = Un(t)
  BY DEF F!Unheard
<1>2. ASSUME NEW t \in tasks
      PROVE  /\ TaskShape(Un(t)) /\ ~(IsImport(Un(t)) /\ Un(t).heard)
             /\ Un(t).kind = t.kind /\ Un(t).req = t.req /\ Un(t).dir = t.dir /\ Un(t).out = t.out
  <2>1. TaskShape(t)
    BY DEF FlowInv, FlowShapes
  <2>2. PICK b \in BOOLEAN : b = (t.heard /\ t.kind # "import")
    BY <2>1 DEF TaskShape
  <2>3. Un(t) = [n |-> t.n, kind |-> t.kind, req |-> t.req, dir |-> t.dir, files |-> t.files, heard |-> b,
                 out |-> t.out, missing |-> t.missing]
    BY <2>1, <2>2 DEF TaskShape
  <2>4. t.kind = "import" => b = FALSE
    BY <2>2
  <2> HIDE DEF Un
  <2> QED
    BY <2>3, <2>4 DEF TaskShape, IsImport
<1> HIDE DEF Un
<1>3. ASSUME NEW x \in F!Unheard, NEW y \in F!Unheard, IsImport(x), x.req = y.req PROVE x = y
  BY <1>1, <1>2, <1>3 DEF FlowInv, InOnePlace, IsImport
<1>4. ASSUME NEW x \in F!Unheard, NEW y \in F!Unheard, IsImport(x), IsImport(y), x.dir # Nothing, x.dir = y.dir PROVE x = y
  BY <1>1, <1>2, <1>4 DEF FlowInv, Staged, IsImport
<1> QED
  BY <1>1, <1>2, <1>3, <1>4

LEMMA CloseKeeps == ASSUME FlowInv, F!CloseForm PROVE FlowInv'
<1>1. /\ importing' = FALSE /\ tasks' = F!Unheard
      /\ UNCHANGED <<preflight, imported, waiting, shopping, staging, doomed, adopted, asked, cancelled>>
  BY DEF F!CloseForm
<1>2. FlowShapes' /\ Hearing'
  BY <1>1, UnheardFields DEF FlowInv, FlowShapes, TaskShape, Hearing, IsImport
<1>3. InOrder' /\ InOnePlace' /\ Unfinished' /\ Staged'
  BY <1>1, UnheardFields DEF FlowInv, InOrder, InOnePlace, Unfinished, Staged, IsImport
<1> QED
  BY <1>2, <1>3 DEF FlowInv

LEMMA StartImportKeeps == ASSUME FlowInv, F!StartImport PROVE FlowInv'
<1> PICK r : r = asked.reqs + 1
  OBVIOUS
<1>1. /\ ~importing /\ preflight = Nothing /\ waiting = Nothing
      /\ UNCHANGED <<waiting, shopping, staging, doomed, adopted, cancelled>>
      /\ r \in 1 .. MaxRequests /\ asked \in [reqs : Nat, dirs : Nat, tries : Nat] /\ r <= asked.reqs + 1
  BY FlowAssumption DEF F!StartImport, F!manual_or_import_blocked, FlowInv, FlowShapes
<1>2. CASE /\ preflight' = [req |-> r, found |-> Nothing]
           /\ importing' = TRUE
           /\ asked' = [asked EXCEPT !.reqs = r]
           /\ UNCHANGED <<imported, tasks>>
  <2>1. /\ asked'.reqs = r /\ asked'.dirs = asked.dirs /\ asked' \in [reqs : Nat, dirs : Nat, tries : Nat]
        /\ preflight'.req = r /\ preflight' = [req |-> preflight'.req, found |-> preflight'.found]
    BY <1>1, <1>2
  <2>2. FlowShapes' /\ Hearing'
    BY <1>1, <1>2, <2>1 DEF FlowInv, FlowShapes, TaskShape, Hearing, IsImport
  <2>3. InOrder' /\ InOnePlace' /\ Unfinished' /\ Staged'
    BY FlowAssumption, <1>1, <1>2, <2>1 DEF FlowInv, InOrder, InOnePlace, Unfinished, Staged, IsImport
  <2> QED
    BY <2>2, <2>3 DEF FlowInv
<1>3. CASE F!SpawnImport(r, Nothing, {}, tasks, 0) /\ UNCHANGED preflight
  <2>1. \A u \in tasks : ~(IsImport(u) /\ u.heard) /\ u.req # r
    BY <1>1 DEF FlowInv, Hearing, InOrder
  <2>2. /\ shopping.check # Nothing => shopping.check # r
        /\ adopted[r] = 0 /\ r \notin cancelled
    BY <1>1 DEF FlowInv, InOrder, Unfinished
  <2>3. /\ doomed' \subseteq 1 .. asked.dirs + 0
        /\ \A u \in tasks : IsImport(u) /\ u.out = "none" /\ u.dir # Nothing => u.dir \in staging' /\ u.dir \notin doomed'
    BY <1>1 DEF FlowInv, Staged
  <2>4. waiting' \in {waiting, Nothing} /\ waiting' = Nothing /\ 0 \in {0, 1} /\ preflight' = Nothing
    BY <1>1, <1>3
  <2> QED
    BY <1>1, <1>3, <2>1, <2>2, <2>3, <2>4, Spawned
<1> QED
  BY <1>1, <1>2, <1>3 DEF F!StartImport

LEMMA PreflightEndsKeeps == ASSUME FlowInv, F!PreflightEnds PROVE FlowInv'
<1>1. PICK found_ : preflight' = [preflight EXCEPT !.found = found_]
  BY DEF F!PreflightEnds
<1>2. /\ preflight # Nothing
      /\ UNCHANGED <<importing, imported, waiting, shopping, tasks, staging, doomed, adopted, asked, cancelled>>
  BY DEF F!PreflightEnds
<1>3. preflight'.req = preflight.req /\ preflight' = [req |-> preflight'.req, found |-> preflight'.found]
  BY <1>1, <1>2 DEF FlowInv, FlowShapes
<1>4. FlowShapes' /\ Hearing'
  BY <1>2, <1>3 DEF FlowInv, FlowShapes, TaskShape, Hearing, IsImport
<1>5. InOrder' /\ InOnePlace' /\ Unfinished' /\ Staged'
  BY <1>2, <1>3 DEF FlowInv, InOrder, InOnePlace, Unfinished, Staged, IsImport
<1> QED
  BY <1>4, <1>5 DEF FlowInv

LEMMA PollPreflightKeeps == ASSUME FlowInv, F!PollPreflight PROVE FlowInv'
<1> PICK r : r = preflight.req
  OBVIOUS
<1>1. /\ preflight # Nothing /\ preflight' = Nothing
      /\ UNCHANGED <<shopping, adopted, cancelled>>
      /\ r \in 1 .. MaxRequests /\ r <= asked.reqs /\ r <= asked.reqs + 1
  BY FlowAssumption DEF F!PollPreflight, FlowInv, FlowShapes, InOrder
<1>2. /\ \A u \in tasks : ~(IsImport(u) /\ u.heard) /\ u.req # r
      /\ waiting # Nothing => waiting.cont = "discover" /\ waiting.req # r
      /\ shopping.check # Nothing => shopping.check # r
      /\ adopted[r] = 0 /\ r \notin cancelled
  BY <1>1 DEF FlowInv, Hearing, InOnePlace, Unfinished
<1>3. CASE importing' = FALSE /\ UNCHANGED <<imported, waiting, tasks, staging, doomed, asked>>
  <2>1. FlowShapes' /\ Hearing'
    BY <1>1, <1>2, <1>3 DEF FlowInv, FlowShapes, TaskShape, Hearing, IsImport
  <2>2. InOrder' /\ InOnePlace' /\ Unfinished' /\ Staged'
    BY <1>1, <1>3 DEF FlowInv, InOrder, InOnePlace, Unfinished, Staged, IsImport
  <2> QED
    BY <2>1, <2>2 DEF FlowInv
<1>4. CASE F!SpawnImport(r, Nothing, {}, tasks, 0) /\ UNCHANGED <<waiting, staging, doomed>>
  <2>1. /\ doomed' \subseteq 1 .. asked.dirs + 0
        /\ \A u \in tasks : IsImport(u) /\ u.out = "none" /\ u.dir # Nothing => u.dir \in staging' /\ u.dir \notin doomed'
    BY <1>4 DEF FlowInv, FlowShapes, Staged
  <2>2. waiting' \in {waiting, Nothing} /\ (waiting' # Nothing => waiting.cont = "discover" /\ waiting.req # r) /\ 0 \in {0, 1}
    BY <1>2, <1>4
  <2> QED
    BY <1>1, <1>2, <1>4, <2>1, <2>2, Spawned
<1>5. CASE \E needed : F!OpenManualDownloads(r, needed, {}, Nothing, tasks, imported)
  BY <1>1, <1>2, <1>5, Opened
<1> QED
  BY <1>3, <1>4, <1>5 DEF F!PollPreflight

\* A task that has ended is the same task.
LEMMA TaskEndsKeeps == ASSUME FlowInv, NEW t \in tasks, F!TaskEnds(t) PROVE FlowInv'
<1>1. PICK out \in {"ok", "error", "manual"}, missing \in SUBSET Files : tasks' = (tasks \ {t}) \cup {[t EXCEPT !.out = out, !.missing = missing]}
  BY DEF F!TaskEnds
<1>0. PICK u : u = [t EXCEPT !.out = out, !.missing = missing]
  OBVIOUS
<1>2. UNCHANGED <<importing, preflight, imported, waiting, shopping, staging, doomed, adopted, asked, cancelled>>
  BY DEF F!TaskEnds
<1>3. TaskShape(t)
  BY DEF FlowInv, FlowShapes
<1>4. /\ u.kind = t.kind /\ u.req = t.req /\ u.dir = t.dir /\ u.heard = t.heard /\ u.out # "none"
      /\ TaskShape(u)
  BY <1>0, <1>3 DEF TaskShape
<1>5. tasks' = (tasks \ {t}) \cup {u}
  BY <1>0, <1>1
<1>6. FlowShapes'
  BY <1>2, <1>4, <1>5 DEF FlowInv, FlowShapes, TaskShape
<1>7. \A x \in tasks' : (x \in tasks /\ x # t) \/ x = u
  BY <1>5
<1>8. Hearing'
  <2>1. \A x, y \in tasks' : IsImport(x) /\ x.heard /\ IsImport(y) /\ y.heard => x = y
    BY <1>4, <1>7 DEF FlowInv, Hearing, IsImport
  <2>2. \A x \in tasks' : IsImport(x) /\ x.heard =>
           /\ importing /\ preflight = Nothing
           /\ waiting # Nothing => waiting.cont = "discover"
           /\ imported.req = x.req /\ imported.dir = x.dir
    BY <1>4, <1>7 DEF FlowInv, Hearing, IsImport
  <2> QED
    BY <1>2, <2>1, <2>2 DEF FlowInv, Hearing
<1>9. InOrder'
  BY <1>2, <1>4, <1>7 DEF FlowInv, InOrder
<1>10. InOnePlace'
  <2>0. \A x \in tasks : IsImport(x) \/ IsImport(t) => x.req # t.req \/ x = t
    BY DEF FlowInv, InOnePlace
  <2>1. ASSUME NEW x \in tasks', NEW y \in tasks', IsImport(x), x.req = y.req PROVE x = y
    <3>1. CASE x = u
      BY <1>4, <1>7, <2>0, <2>1, <3>1 DEF IsImport
    <3>2. CASE x \in tasks /\ x # t
      BY <1>4, <1>7, <2>0, <2>1, <3>2 DEF FlowInv, InOnePlace, IsImport
    <3> QED
      BY <1>7, <3>1, <3>2
  <2> QED
    BY <1>2, <1>4, <1>7, <2>1 DEF FlowInv, InOnePlace, IsImport
<1>11. Unfinished'
  BY <1>2, <1>4, <1>7 DEF FlowInv, Unfinished, IsImport
<1>12. Staged'
  <2>0. \A x \in tasks : IsImport(x) /\ IsImport(t) /\ x.dir # Nothing => x.dir # t.dir \/ x = t
    BY DEF FlowInv, Staged
  <2>1. ASSUME NEW x \in tasks', NEW y \in tasks', IsImport(x), IsImport(y), x.dir # Nothing, x.dir = y.dir PROVE x = y
    <3>1. CASE x = u
      BY <1>4, <1>7, <2>0, <2>1, <3>1 DEF IsImport
    <3>2. CASE x \in tasks /\ x # t
      BY <1>4, <1>7, <2>0, <2>1, <3>2 DEF FlowInv, Staged, IsImport
    <3> QED
      BY <1>7, <3>1, <3>2
  <2> QED
    BY <1>2, <1>4, <1>7, <2>1 DEF FlowInv, Staged, IsImport
<1> QED
  BY <1>6, <1>8, <1>9, <1>10, <1>11, <1>12 DEF FlowInv

LEMMA ForgottenKeeps == ASSUME FlowInv, NEW t \in tasks, F!Forgotten(t) PROVE FlowInv'
<1>1. tasks' \subseteq tasks
  BY DEF F!Forgotten
<1>2. UNCHANGED <<importing, preflight, imported, waiting, shopping, staging, doomed, adopted, asked, cancelled>>
  BY DEF F!Forgotten
<1>3. FlowShapes' /\ Hearing'
  BY <1>1, <1>2 DEF FlowInv, FlowShapes, TaskShape, Hearing, IsImport
<1>4. InOrder' /\ InOnePlace' /\ Unfinished' /\ Staged'
  BY <1>1, <1>2 DEF FlowInv, InOrder, InOnePlace, Unfinished, Staged, IsImport
<1> QED
  BY <1>3, <1>4 DEF FlowInv

\* An import that has ended has an instance, or waits under its own request.
LEMMA PollImportKeeps == ASSUME FlowInv, NEW t \in tasks, F!PollImport(t) PROVE FlowInv'
<1> PICK r, dir : r = t.req /\ dir = t.dir
  OBVIOUS
<1>1. /\ IsImport(t) /\ t.heard /\ preflight = Nothing /\ preflight' = Nothing
      /\ waiting # Nothing => waiting.cont = "discover"
      /\ imported.req = r /\ imported.dir = dir
      /\ UNCHANGED <<shopping, cancelled>>
      /\ r \in 1 .. MaxRequests /\ r <= asked.reqs
  BY FlowAssumption DEF F!PollImport, IsImport, FlowInv, FlowShapes, Hearing, InOrder
<1>2. /\ \A u \in tasks \ {t} : ~(IsImport(u) /\ u.heard) /\ u.req # r
      /\ waiting # Nothing => waiting.req # r
      /\ shopping.check # Nothing => shopping.check # r
      /\ adopted[r] = 0 /\ r \notin cancelled
      /\ dir # Nothing => dir \in 1 .. asked.dirs /\ \A u \in tasks \ {t} : IsImport(u) => u.dir # dir
  BY <1>1 DEF FlowInv, Hearing, InOnePlace, Unfinished, Staged, IsImport
<1>3. CASE \E needed, kept : F!OpenManualDownloads(r, needed, kept, dir, tasks \ {t}, Nothing) /\ UNCHANGED adopted
  <2>1. tasks \ {t} \in SUBSET tasks
    OBVIOUS
  <2> QED
    BY <1>1, <1>2, <1>3, <2>1, Opened
<1>4. CASE /\ importing' = FALSE /\ imported' = Nothing /\ tasks' = tasks \ {t} /\ waiting' = Nothing
           /\ doomed' = doomed \cup F!CleanupWaiting
                              \cup (IF t.out = "ok" /\ imported # Nothing THEN F!CleanupStaging(dir) ELSE {})
           /\ adopted' = [adopted EXCEPT ![r] = @ + 1] \/ adopted' = adopted
           /\ UNCHANGED <<staging, asked>>
  <2>1. \A d \in doomed' : d \in doomed \/ (d = dir /\ dir # Nothing) \/ (waiting # Nothing /\ d = waiting.dir)
    BY <1>4 DEF F!CleanupStaging, F!CleanupWaiting
  <2>2. adopted' \in [1 .. MaxRequests -> Nat] /\ \A o \in 1 .. MaxRequests : o # r => adopted'[o] = adopted[o]
    <3>1. adopted \in [1 .. MaxRequests -> Nat] /\ adopted[r] + 1 \in Nat
      BY <1>1 DEF FlowInv, FlowShapes
    <3>2. CASE adopted' = [adopted EXCEPT ![r] = @ + 1]
      BY <1>1, <3>1, <3>2
    <3>3. CASE adopted' = adopted
      BY <3>1, <3>3
    <3> QED
      BY <1>4, <3>2, <3>3
  <2>3. FlowShapes' /\ Hearing'
    BY <1>1, <1>2, <1>4, <2>2 DEF FlowInv, FlowShapes, TaskShape, Hearing, IsImport
  <2>4. InOrder' /\ InOnePlace'
    BY <1>1, <1>4 DEF FlowInv, InOrder, InOnePlace, IsImport
  <2>5. asked.reqs \in Nat /\ MaxRequests \in Nat /\ asked.reqs <= MaxRequests
    BY FlowAssumption DEF FlowInv, FlowShapes, InOrder
  <2>6. Unfinished'
    <3>1. \A o \in 1 .. asked.reqs : o # r => adopted'[o] = adopted[o]
      BY <2>2, <2>5
    <3>2. \A o \in 1 .. MaxRequests : o > asked.reqs => adopted'[o] = 0
      BY <1>1, <2>2, <2>5 DEF FlowInv, Unfinished
    <3>3. \A o \in cancelled : adopted'[o] = 0
      BY <1>2, <3>1 DEF FlowInv, Unfinished, InOrder
    <3>4. \A u \in tasks \ {t} : u.req \notin cancelled /\ (IsImport(u) => adopted'[u.req] = 0)
      BY <1>2, <3>1 DEF FlowInv, Unfinished, InOrder
    <3>5. shopping.check # Nothing => shopping.check \notin cancelled /\ adopted'[shopping.check] = 0
      BY <1>2, <3>1 DEF FlowInv, Unfinished, InOrder
    <3> QED
      BY <1>1, <1>4, <3>2, <3>3, <3>4, <3>5 DEF Unfinished
  <2>7. Staged'
    BY <1>1, <1>2, <1>4, <2>1 DEF FlowInv, Staged, IsImport
  <2> QED
    BY <2>3, <2>4, <2>6, <2>7 DEF FlowInv
<1> QED
  BY <1>1, <1>3, <1>4 DEF F!PollImport

-----------------------------------------------------------------------------

\* An installation begins, while the wait there is goes on, is over, or is its own.
LEMMA Installing ==
    ASSUME FlowInv, NEW r \in 1 .. MaxRequests, NEW dir, F!SpawnInstall(r, dir),
           UNCHANGED <<importing, preflight, imported, adopted, cancelled>>,
           \A u \in tasks : IsImport(u) => u.req # r,
           preflight # Nothing => preflight.req # r,
           r \notin cancelled,
           asked' \in [reqs : Nat, dirs : Nat, tries : Nat],
           asked.reqs <= asked'.reqs, asked'.reqs <= MaxRequests, r <= asked'.reqs, asked.dirs <= asked'.dirs,
           waiting' # Nothing =>
              \/ /\ waiting' = waiting
                 /\ waiting.cont = "import" => waiting.req # r /\ waiting.dir \notin doomed'
              \/ /\ waiting' = [cont |-> "discover", req |-> waiting'.req, needed |-> waiting'.needed,
                                staged |-> waiting'.staged, dir |-> waiting'.dir, scan |-> waiting'.scan,
                                found |-> waiting'.found]
                 /\ waiting'.req = r /\ adopted[r] = 0
                 /\ waiting'.dir \in 1 .. asked'.dirs
                 /\ \A u \in tasks : IsImport(u) /\ u.dir # Nothing => u.dir # waiting'.dir,
           staging \subseteq staging', doomed' \subseteq 1 .. asked'.dirs,
           \A u \in tasks : IsImport(u) /\ u.out = "none" /\ u.dir # Nothing => u.dir \notin doomed'
    PROVE  FlowInv'
<1>0. PICK new : new = F!NewTask("discover", r, dir, {})
  OBVIOUS
<1>1. /\ ~IsImport(new) /\ new.req = r /\ TaskShape(new)
  BY <1>0 DEF F!NewTask, TaskShape, IsImport
<1>2. /\ tasks' = tasks \cup {new}
      /\ shopping'.check = Nothing /\ shopping' = [busy |-> shopping'.busy, check |-> shopping'.check]
  BY <1>0 DEF F!SpawnInstall
<1>3. /\ asked.reqs \in Nat /\ asked.dirs \in Nat /\ MaxRequests \in Nat /\ r \in Nat
      /\ asked'.reqs \in Nat /\ asked'.dirs \in Nat /\ r \in 1 .. asked'.reqs
  BY FlowAssumption DEF FlowInv, FlowShapes
<1>4. 1 .. asked.reqs \subseteq 1 .. asked'.reqs /\ 1 .. asked.dirs \subseteq 1 .. asked'.dirs
  BY <1>3
<1>5. \A x \in tasks' : x \in tasks \/ x = new
  BY <1>2
<1>6. FlowShapes'
  <2>1. \A t \in tasks' : TaskShape(t)
    BY <1>1, <1>5 DEF FlowInv, FlowShapes
  <2>2. waiting' # Nothing =>
           /\ waiting' = [cont |-> waiting'.cont, req |-> waiting'.req, needed |-> waiting'.needed,
                          staged |-> waiting'.staged, dir |-> waiting'.dir, scan |-> waiting'.scan,
                          found |-> waiting'.found]
           /\ waiting'.cont \in {"import", "discover"}
    BY DEF FlowInv, FlowShapes
  <2> QED
    BY <1>2, <2>1, <2>2 DEF FlowInv, FlowShapes, TaskShape
<1>7. Hearing'
  BY <1>1, <1>5 DEF FlowInv, Hearing, IsImport
<1>8. InOrder'
  BY <1>1, <1>2, <1>3, <1>4, <1>5 DEF FlowInv, InOrder
<1>9. InOnePlace'
  BY <1>1, <1>2, <1>5 DEF FlowInv, InOnePlace, IsImport
<1>10. Unfinished'
  BY <1>1, <1>2, <1>3, <1>5 DEF FlowInv, Unfinished, IsImport
<1>11. Staged'
  BY <1>1, <1>3, <1>4, <1>5 DEF FlowInv, Staged, IsImport
<1> QED
  BY <1>6, <1>7, <1>8, <1>9, <1>10, <1>11 DEF FlowInv

LEMMA StartInstallKeeps == ASSUME FlowInv, F!StartInstall PROVE FlowInv'
<1>0. PICK r : r = asked.reqs + 1
  OBVIOUS
<1>1. /\ ~importing /\ preflight = Nothing /\ waiting = Nothing /\ shopping.check = Nothing
      /\ UNCHANGED <<importing, preflight, imported, waiting, staging, doomed, adopted, cancelled>>
      /\ r \in 1 .. MaxRequests /\ asked \in [reqs : Nat, dirs : Nat, tries : Nat] /\ asked.reqs <= r
      /\ 1 .. asked.reqs \subseteq 1 .. r /\ r \notin 1 .. asked.reqs /\ r > asked.reqs
  BY <1>0, FlowAssumption DEF F!StartInstall, F!manual_or_import_blocked, FlowInv, FlowShapes
<1>2. CASE /\ shopping' = [busy |-> TRUE, check |-> r]
           /\ asked' = [asked EXCEPT !.reqs = r]
           /\ UNCHANGED tasks
  <2>1. /\ asked'.reqs = r /\ asked'.dirs = asked.dirs /\ asked' \in [reqs : Nat, dirs : Nat, tries : Nat]
        /\ shopping'.check = r /\ shopping' = [busy |-> shopping'.busy, check |-> shopping'.check]
    BY <1>1, <1>2
  <2>2. FlowShapes' /\ Hearing'
    BY <1>1, <1>2, <2>1 DEF FlowInv, FlowShapes, TaskShape, Hearing, IsImport
  <2>3. InOrder' /\ InOnePlace' /\ Unfinished' /\ Staged'
    BY FlowAssumption, <1>1, <1>2, <2>1 DEF FlowInv, InOrder, InOnePlace, Unfinished, Staged, IsImport
  <2> QED
    BY <2>2, <2>3 DEF FlowInv
<1>3. CASE F!SpawnInstall(r, Nothing) /\ asked' = [asked EXCEPT !.reqs = r, !.tries = @ + 1]
  <2>1. /\ asked' \in [reqs : Nat, dirs : Nat, tries : Nat] /\ asked'.reqs = r /\ asked'.dirs = asked.dirs
        /\ asked.reqs <= asked'.reqs /\ asked'.reqs <= MaxRequests /\ r <= asked'.reqs /\ asked.dirs <= asked'.dirs
    <3>1. asked.tries + 1 \in Nat /\ r \in Nat /\ asked.dirs \in Nat /\ asked.reqs \in Nat
      BY <1>1, FlowAssumption
    <3>2. asked' \in [reqs : Nat, dirs : Nat, tries : Nat] /\ asked'.reqs = r /\ asked'.dirs = asked.dirs
      BY <1>1, <1>3, <3>1
    <3> QED
      BY <1>1, <3>1, <3>2, FlowAssumption
  <2>2. (\A u \in tasks : u.req # r) /\ r \notin cancelled
    BY <1>1 DEF FlowInv, InOrder
  <2>3. /\ staging \subseteq staging' /\ doomed' \subseteq 1 .. asked'.dirs
        /\ \A u \in tasks : IsImport(u) /\ u.out = "none" /\ u.dir # Nothing => u.dir \notin doomed'
    BY <1>1, <2>1 DEF FlowInv, Staged
  <2> QED
    BY <1>1, <1>3, <2>1, <2>2, <2>3, Installing
<1> QED
  BY <1>0, <1>1, <1>2, <1>3 DEF F!StartInstall

LEMMA PollInstallCheckKeeps == ASSUME FlowInv, F!PollInstallCheck PROVE FlowInv'
<1>0. PICK r, w, new : r = shopping.check /\ w = F!Wait("discover", r, {F!Package}, {}) /\ new = asked.dirs + 1
  OBVIOUS
<1>1. /\ shopping.check # Nothing
      /\ UNCHANGED <<importing, preflight, imported, adopted, cancelled>>
      /\ r \in 1 .. MaxRequests /\ r <= asked.reqs
      /\ asked \in [reqs : Nat, dirs : Nat, tries : Nat]
  BY <1>0, FlowAssumption DEF F!PollInstallCheck, FlowInv, FlowShapes, InOrder
<1>2. /\ \A u \in tasks : u.req # r
      /\ preflight # Nothing => preflight.req # r
      /\ waiting # Nothing => waiting.req # r
      /\ adopted[r] = 0 /\ r \notin cancelled
  BY <1>0, <1>1 DEF FlowInv, InOnePlace, Unfinished
<1>3. /\ w = [cont |-> "discover", req |-> w.req, needed |-> w.needed, staged |-> w.staged, dir |-> w.dir,
              scan |-> w.scan, found |-> w.found]
      /\ w.cont = "discover" /\ w.req = r /\ w.dir = new
  BY <1>0 DEF F!Wait, F!NewStaging
<1>4. /\ new \notin doomed /\ new \in 1 .. asked.dirs + 1 /\ 1 .. asked.dirs \subseteq 1 .. asked.dirs + 1
      /\ \A u \in tasks : IsImport(u) /\ u.dir # Nothing => u.dir # new
      /\ waiting # Nothing => waiting.dir # new
  BY <1>0, <1>1 DEF FlowInv, Staged
<1>5. CASE /\ shopping' = [busy |-> FALSE, check |-> Nothing]
           /\ \/ UNCHANGED <<staging, doomed, asked>>
              \/ /\ staging' = staging \cup {new} /\ doomed' = doomed \cup {new}
                 /\ asked' = [asked EXCEPT !.dirs = @ + 1]
           /\ UNCHANGED <<waiting, tasks>>
  <2>1. /\ asked'.reqs = asked.reqs /\ asked' \in [reqs : Nat, dirs : Nat, tries : Nat]
        /\ 1 .. asked.dirs \subseteq 1 .. asked'.dirs /\ doomed' \subseteq 1 .. asked'.dirs
        /\ staging \subseteq staging' /\ \A d \in doomed' : d \in doomed \/ d = new
    BY <1>1, <1>4, <1>5 DEF FlowInv, Staged
  <2>2. shopping'.check = Nothing /\ shopping' = [busy |-> shopping'.busy, check |-> shopping'.check]
    BY <1>5
  <2>3. FlowShapes' /\ Hearing'
    BY <1>1, <1>5, <2>1, <2>2 DEF FlowInv, FlowShapes, TaskShape, Hearing, IsImport
  <2>4. InOrder' /\ InOnePlace' /\ Unfinished'
    BY <1>1, <1>5, <2>1, <2>2 DEF FlowInv, InOrder, InOnePlace, Unfinished, IsImport
  <2>5. Staged'
    BY <1>4, <1>5, <2>1 DEF FlowInv, Staged, IsImport
  <2> QED
    BY <2>3, <2>4, <2>5 DEF FlowInv
<1>6. CASE F!SpawnInstall(r, Nothing) /\ asked' = [asked EXCEPT !.tries = @ + 1] /\ UNCHANGED <<waiting, staging, doomed>>
  <2>1. /\ asked' \in [reqs : Nat, dirs : Nat, tries : Nat] /\ asked'.reqs = asked.reqs /\ asked'.dirs = asked.dirs
        /\ asked.reqs <= asked'.reqs /\ asked'.reqs <= MaxRequests /\ r <= asked'.reqs /\ asked.dirs <= asked'.dirs
    BY <1>1, <1>6 DEF FlowInv, InOrder
  <2>2. /\ staging \subseteq staging' /\ doomed' \subseteq 1 .. asked'.dirs
        /\ waiting # Nothing /\ waiting.cont = "import" => waiting.dir \notin doomed'
        /\ \A u \in tasks : IsImport(u) /\ u.out = "none" /\ u.dir # Nothing => u.dir \notin doomed'
    BY <1>6, <2>1 DEF FlowInv, Staged
  <2> QED
    BY <1>1, <1>2, <1>6, <2>1, <2>2, Installing
<1>7. CASE /\ F!SpawnInstall(r, w.dir) /\ asked' = [asked EXCEPT !.dirs = @ + 1, !.tries = @ + 1]
           /\ waiting' = w /\ staging' = staging \cup {new} /\ doomed' = doomed
  <2>1. /\ asked' \in [reqs : Nat, dirs : Nat, tries : Nat] /\ asked'.reqs = asked.reqs /\ asked'.dirs = asked.dirs + 1
        /\ asked.reqs <= asked'.reqs /\ asked'.reqs <= MaxRequests /\ r <= asked'.reqs /\ asked.dirs <= asked'.dirs
    <3>1. asked.dirs + 1 \in Nat /\ asked.tries + 1 \in Nat /\ asked.reqs \in Nat /\ asked.dirs \in Nat
          /\ r \in Nat /\ asked.reqs <= MaxRequests
      BY <1>1, FlowAssumption DEF FlowInv, InOrder
    <3>2. asked' \in [reqs : Nat, dirs : Nat, tries : Nat] /\ asked'.reqs = asked.reqs /\ asked'.dirs = asked.dirs + 1
      BY <1>1, <1>7, <3>1
    <3> QED
      BY <1>1, <3>1, <3>2
  <2>2. /\ staging \subseteq staging' /\ doomed' \subseteq 1 .. asked'.dirs
        /\ \A u \in tasks : IsImport(u) /\ u.out = "none" /\ u.dir # Nothing => u.dir \notin doomed'
    BY <1>4, <1>7, <2>1 DEF FlowInv, Staged
  <2>3. /\ waiting' = [cont |-> "discover", req |-> waiting'.req, needed |-> waiting'.needed,
                       staged |-> waiting'.staged, dir |-> waiting'.dir, scan |-> waiting'.scan,
                       found |-> waiting'.found]
        /\ waiting'.req = r /\ adopted[r] = 0
        /\ waiting'.dir \in 1 .. asked'.dirs
        /\ \A u \in tasks : IsImport(u) /\ u.dir # Nothing => u.dir # waiting'.dir
    BY <1>2, <1>3, <1>4, <1>7, <2>1
  <2> QED
    BY <1>1, <1>2, <1>7, <2>1, <2>2, <2>3, Installing
<1>8. CASE /\ waiting' = w /\ staging' = staging \cup {new} /\ doomed' = doomed
           /\ shopping' = [busy |-> TRUE, check |-> Nothing]
           /\ asked' = [asked EXCEPT !.dirs = @ + 1]
           /\ UNCHANGED tasks
  <2>1. /\ asked'.reqs = asked.reqs /\ asked' \in [reqs : Nat, dirs : Nat, tries : Nat] /\ asked'.dirs = asked.dirs + 1
        /\ 1 .. asked.dirs \subseteq 1 .. asked'.dirs /\ new \in 1 .. asked'.dirs
    BY <1>1, <1>4, <1>8
  <2>2. shopping'.check = Nothing /\ shopping' = [busy |-> shopping'.busy, check |-> shopping'.check]
    BY <1>8
  <2>3. FlowShapes' /\ Hearing'
    BY <1>1, <1>3, <1>8, <2>1, <2>2 DEF FlowInv, FlowShapes, TaskShape, Hearing, IsImport
  <2>4. InOrder' /\ InOnePlace' /\ Unfinished'
    BY <1>1, <1>2, <1>3, <1>8, <2>1, <2>2 DEF FlowInv, InOrder, InOnePlace, Unfinished, IsImport
  <2>5. Staged'
    BY <1>3, <1>4, <1>8, <2>1 DEF FlowInv, Staged, IsImport
  <2> QED
    BY <2>3, <2>4, <2>5 DEF FlowInv
<1> QED
  BY <1>0, <1>3, <1>5, <1>6, <1>7, <1>8 DEF F!PollInstallCheck

\* The first result ends the wait, whosever it is.
LEMMA PollInstallKeeps == ASSUME FlowInv, NEW t \in tasks, F!PollInstall(t) PROVE FlowInv'
<1>0. PICK r : r = t.req
  OBVIOUS
<1>1. /\ ~IsImport(t) /\ waiting' = Nothing /\ tasks' \subseteq tasks
      /\ shopping' = [shopping EXCEPT !.busy = FALSE]
      /\ doomed' = doomed \cup F!CleanupWaiting
      /\ UNCHANGED <<importing, preflight, imported, staging, asked, cancelled>>
  BY DEF F!PollInstall, IsImport
<1>2. r \in 1 .. MaxRequests /\ r \in 1 .. asked.reqs /\ asked.reqs \in Nat /\ MaxRequests \in Nat
  BY <1>0, FlowAssumption DEF FlowInv, FlowShapes, InOrder
<1>3. /\ adopted' \in [1 .. MaxRequests -> Nat]
      /\ \A o \in 1 .. MaxRequests : o # r => adopted'[o] = adopted[o]
  <2>1. PICK k \in {0, 1} : adopted' = [adopted EXCEPT ![r] = @ + k]
    <3>1. PICK k : k = IF t.out = "ok" THEN 1 ELSE 0
      OBVIOUS
    <3> QED
      BY <1>0, <3>1 DEF F!PollInstall
  <2>2. adopted \in [1 .. MaxRequests -> Nat] /\ adopted[r] + k \in Nat
    BY <1>2 DEF FlowInv, FlowShapes
  <2> QED
    BY <1>2, <2>1, <2>2
<1>4. shopping'.check = shopping.check /\ shopping' = [busy |-> shopping'.busy, check |-> shopping'.check]
  BY <1>1 DEF FlowInv, FlowShapes
<1>5. \A d \in doomed' : d \in doomed \/ (waiting # Nothing /\ d = waiting.dir)
  BY <1>1 DEF F!CleanupWaiting
<1>6. FlowShapes' /\ Hearing'
  BY <1>1, <1>3, <1>4 DEF FlowInv, FlowShapes, TaskShape, Hearing, IsImport
<1>7. InOrder' /\ InOnePlace'
  BY <1>1, <1>4 DEF FlowInv, InOrder, InOnePlace, IsImport
<1>8. Unfinished'
  <2>1. /\ r \notin cancelled /\ \A u \in tasks : IsImport(u) => u.req # r
        /\ preflight # Nothing => preflight.req # r
        /\ shopping.check # Nothing => shopping.check # r
    BY <1>0, <1>1 DEF FlowInv, InOnePlace, Unfinished
  <2>2. asked.reqs <= MaxRequests /\ 1 .. asked.reqs \subseteq 1 .. MaxRequests
    BY <1>2 DEF FlowInv, InOrder
  <2>3. \A o \in 1 .. asked.reqs : o # r => adopted'[o] = adopted[o]
    BY <1>3, <2>2
  <2>4. \A o \in 1 .. MaxRequests : o > asked.reqs => adopted'[o] = 0
    BY <1>2, <1>3 DEF FlowInv, Unfinished
  <2>5. \A o \in cancelled : adopted'[o] = 0
    BY <2>1, <2>3 DEF FlowInv, Unfinished, InOrder
  <2>6. \A u \in tasks : u.req \notin cancelled /\ (IsImport(u) => adopted'[u.req] = 0)
    BY <2>1, <2>3 DEF FlowInv, Unfinished, InOrder
  <2>7. preflight # Nothing => preflight.req \notin cancelled /\ adopted'[preflight.req] = 0
    BY <2>1, <2>3 DEF FlowInv, Unfinished, InOrder
  <2>8. shopping.check # Nothing => shopping.check \notin cancelled /\ adopted'[shopping.check] = 0
    BY <2>1, <2>3 DEF FlowInv, Unfinished, InOrder
  <2> QED
    BY <1>1, <1>4, <2>4, <2>5, <2>6, <2>7, <2>8 DEF Unfinished
<1>9. Staged'
  BY <1>1, <1>5 DEF FlowInv, Staged, IsImport
<1> QED
  BY <1>6, <1>7, <1>8, <1>9 DEF FlowInv

\* A wait is the same one while it is scanned for.
LEMMA SameWait ==
    ASSUME FlowInv, waiting # Nothing,
           waiting' = [cont |-> waiting'.cont, req |-> waiting'.req, needed |-> waiting'.needed,
                       staged |-> waiting'.staged, dir |-> waiting'.dir, scan |-> waiting'.scan, found |-> waiting'.found],
           waiting'.cont = waiting.cont, waiting'.req = waiting.req, waiting'.dir = waiting.dir,
           UNCHANGED <<importing, preflight, imported, shopping, tasks, staging, doomed, adopted, asked, cancelled>>
    PROVE  FlowInv'
<1>1. FlowShapes' /\ Hearing'
  BY DEF FlowInv, FlowShapes, TaskShape, Hearing, IsImport
<1>2. InOrder' /\ InOnePlace' /\ Unfinished' /\ Staged'
  BY DEF FlowInv, InOrder, InOnePlace, Unfinished, Staged, IsImport
<1> QED
  BY <1>1, <1>2 DEF FlowInv

LEMMA ScanKeeps == ASSUME FlowInv, F!StartScan \/ F!ScanEnds PROVE FlowInv'
<1>1. /\ waiting # Nothing
      /\ UNCHANGED <<importing, preflight, imported, shopping, tasks, staging, doomed, adopted, asked, cancelled>>
  BY DEF F!StartScan, F!ScanEnds, F!waitOnly
<1>2. PICK scan, found_ : waiting' = [waiting EXCEPT !.scan = scan] \/ waiting' = [waiting EXCEPT !.scan = scan, !.found = found_]
  BY DEF F!StartScan, F!ScanEnds
<1>3. /\ waiting' = [cont |-> waiting'.cont, req |-> waiting'.req, needed |-> waiting'.needed,
                     staged |-> waiting'.staged, dir |-> waiting'.dir, scan |-> waiting'.scan, found |-> waiting'.found]
      /\ waiting'.cont = waiting.cont /\ waiting'.req = waiting.req /\ waiting'.dir = waiting.dir
  BY <1>1, <1>2 DEF FlowInv, FlowShapes
<1> QED
  BY <1>1, <1>3, SameWait

LEMMA PollScanKeeps == ASSUME FlowInv, F!PollScan PROVE FlowInv'
<1>1. waiting # Nothing /\ UNCHANGED <<preflight, staging, adopted, cancelled>>
  BY DEF F!PollScan, F!waitOnly
<1>2. PICK failed \in BOOLEAN :
         \/ F!Resume(F!Scanned(failed)) /\ waiting' = Nothing
         \/ waiting' = F!Scanned(failed) /\ UNCHANGED <<importing, imported, shopping, tasks, doomed, asked>>
  BY DEF F!PollScan
<1>3. PICK w : w = F!Scanned(failed)
  OBVIOUS
<1>4. /\ w = [cont |-> w.cont, req |-> w.req, needed |-> w.needed, staged |-> w.staged, dir |-> w.dir,
              scan |-> w.scan, found |-> w.found]
      /\ w.cont = waiting.cont /\ w.req = waiting.req /\ w.dir = waiting.dir
  BY <1>1, <1>3 DEF F!Scanned, FlowInv, FlowShapes
<1>5. PICK r, dir : r = waiting.req /\ dir = waiting.dir
  OBVIOUS
<1>6. /\ r \in 1 .. MaxRequests /\ r <= asked.reqs /\ r <= asked.reqs + 1
      /\ asked \in [reqs : Nat, dirs : Nat, tries : Nat] /\ asked.reqs <= MaxRequests
      /\ preflight # Nothing => preflight.req # r
      /\ \A u \in tasks : IsImport(u) => u.req # r
      /\ r \notin cancelled /\ adopted[r] = 0
      /\ shopping.check # Nothing => shopping.check # r
  BY <1>1, <1>5, FlowAssumption DEF FlowInv, FlowShapes, InOrder, InOnePlace, Unfinished
<1>7. CASE waiting' = w /\ UNCHANGED <<importing, imported, shopping, tasks, doomed, asked>>
  BY <1>1, <1>4, <1>7, SameWait
<1>8. CASE /\ waiting.cont = "import" /\ F!SpawnImport(r, dir, w.staged, tasks, 0)
           /\ waiting' = Nothing /\ UNCHANGED <<doomed, shopping>>
  <2>1. /\ preflight' = Nothing
        /\ \A u \in tasks : ~(IsImport(u) /\ u.heard) /\ u.req # r
    BY <1>1, <1>5, <1>8 DEF FlowInv, Hearing, InOnePlace
  <2>2. /\ dir # Nothing =>
              /\ dir \in 1 .. asked.dirs + 0 /\ dir \in staging' /\ dir \notin doomed'
              /\ \A u \in tasks : IsImport(u) => u.dir # dir
        /\ doomed' \subseteq 1 .. asked.dirs + 0
        /\ \A u \in tasks : IsImport(u) /\ u.out = "none" /\ u.dir # Nothing => u.dir \in staging' /\ u.dir \notin doomed'
    <3>1. asked.dirs + 0 = asked.dirs
      BY <1>6
    <3> QED
      BY <1>1, <1>5, <1>8, <3>1 DEF FlowInv, Staged
  <2>3. waiting' \in {waiting, Nothing} /\ 0 \in {0, 1} /\ ~(waiting' # Nothing)
    BY <1>8
  <2> QED
    BY <1>1, <1>6, <1>8, <2>1, <2>2, <2>3, Spawned
<1>9. CASE /\ F!SpawnInstall(r, dir) /\ doomed' = doomed \cup {dir} /\ asked' = [asked EXCEPT !.tries = @ + 1]
           /\ waiting' = Nothing /\ UNCHANGED <<importing, imported>>
  <2>1. /\ asked' \in [reqs : Nat, dirs : Nat, tries : Nat] /\ asked'.reqs = asked.reqs /\ asked'.dirs = asked.dirs
        /\ asked.reqs <= asked'.reqs /\ asked'.reqs <= MaxRequests /\ r <= asked'.reqs /\ asked.dirs <= asked'.dirs
    BY <1>6, <1>9
  <2>2. /\ staging \subseteq staging' /\ doomed' \subseteq 1 .. asked'.dirs
        /\ \A u \in tasks : IsImport(u) /\ u.out = "none" /\ u.dir # Nothing => u.dir \notin doomed'
    BY <1>1, <1>5, <1>9, <2>1 DEF FlowInv, Staged
  <2>3. ~(waiting' # Nothing)
    BY <1>9
  <2> QED
    BY <1>1, <1>6, <1>9, <2>1, <2>2, <2>3, Installing
<1>10. F!Resume(w) /\ waiting' = Nothing =>
         \/ /\ waiting.cont = "import" /\ F!SpawnImport(r, dir, w.staged, tasks, 0)
            /\ waiting' = Nothing /\ UNCHANGED <<doomed, shopping>>
         \/ /\ F!SpawnInstall(r, dir) /\ doomed' = doomed \cup {dir} /\ asked' = [asked EXCEPT !.tries = @ + 1]
            /\ waiting' = Nothing /\ UNCHANGED <<importing, imported>>
  BY <1>4, <1>5 DEF F!Resume
<1> QED
  BY <1>2, <1>3, <1>7, <1>8, <1>9, <1>10

\* What is cancelled has no task; its directory is no one else's.
LEMMA CancelKeeps == ASSUME FlowInv, F!CancelWait PROVE FlowInv'
<1>1. /\ waiting # Nothing /\ waiting' = Nothing /\ doomed' = doomed \cup {waiting.dir}
      /\ UNCHANGED <<preflight, imported, staging, adopted, asked>>
  BY DEF F!CancelWait, F!CleanupWaiting
<1>2. /\ \A r \in cancelled' : r \in cancelled \/ (r = waiting.req /\ \A t \in tasks : t.req # r)
  BY DEF F!CancelWait
<1>3. shopping'.check = shopping.check /\ shopping' = [busy |-> shopping'.busy, check |-> shopping'.check]
  <2>1. PICK b : b = (shopping.busy /\ waiting.cont # "discover")
    OBVIOUS
  <2>2. shopping' = [shopping EXCEPT !.busy = b]
    BY <2>1 DEF F!CancelWait
  <2> QED
    BY <2>2 DEF FlowInv, FlowShapes
<1>4. (importing' = FALSE /\ tasks' = F!Unheard) \/ UNCHANGED <<importing, tasks>>
  BY DEF F!CancelWait
<1>5. /\ \A x \in tasks' : TaskShape(x) /\ (IsImport(x) /\ x.heard => UNCHANGED <<importing, tasks>>)
      /\ \A x \in tasks' : \E t \in tasks : x.kind = t.kind /\ x.req = t.req /\ x.dir = t.dir /\ x.out = t.out
      /\ \A x, y \in tasks' : IsImport(x) /\ x.req = y.req => x = y
      /\ \A x, y \in tasks' : IsImport(x) /\ IsImport(y) /\ x.dir # Nothing /\ x.dir = y.dir => x = y
  <2>1. CASE importing' = FALSE /\ tasks' = F!Unheard
    BY <2>1, UnheardFields
  <2>2. CASE UNCHANGED <<importing, tasks>>
    BY <2>2 DEF FlowInv, FlowShapes, InOnePlace, Staged
  <2> QED
    BY <1>4, <2>1, <2>2
<1>6. FlowShapes'
  BY <1>1, <1>3, <1>5 DEF FlowInv, FlowShapes, TaskShape
<1>7. Hearing'
  BY <1>1, <1>5 DEF FlowInv, Hearing, IsImport
<1>8. InOrder' /\ InOnePlace'
  BY <1>1, <1>2, <1>3, <1>5 DEF FlowInv, InOrder, InOnePlace, IsImport
<1>9. Unfinished'
  BY <1>1, <1>2, <1>3, <1>5 DEF FlowInv, Unfinished, InOnePlace, IsImport
<1>10. Staged'
  <2>1. doomed' \subseteq 1 .. asked.dirs
    BY <1>1 DEF FlowInv, Staged
  <2>2. \A x \in tasks' : IsImport(x) /\ x.dir # Nothing => x.dir \in 1 .. asked.dirs /\ x.dir # waiting.dir
    BY <1>1, <1>5 DEF FlowInv, Staged, IsImport
  <2>3. \A x \in tasks' : IsImport(x) /\ x.out = "none" /\ x.dir # Nothing => x.dir \in staging /\ x.dir \notin doomed
    BY <1>5 DEF FlowInv, Staged, IsImport
  <2>4. \A x \in tasks' : IsImport(x) /\ x.out = "none" /\ x.dir # Nothing => x.dir \in staging /\ x.dir \notin doomed'
    BY <1>1, <2>2, <2>3
  <2>5. \A x, y \in tasks' : IsImport(x) /\ IsImport(y) /\ x.dir # Nothing /\ x.dir = y.dir => x = y
    BY <1>5
  <2> QED
    BY <1>1, <2>1, <2>2, <2>4, <2>5 DEF Staged
<1> QED
  BY <1>6, <1>7, <1>8, <1>9, <1>10 DEF FlowInv

LEMMA RemoveKeeps == ASSUME FlowInv, NEW d \in doomed, F!RemoveStaging(d) PROVE FlowInv'
<1>1. /\ doomed' = doomed \ {d} /\ staging' = staging \ {d}
      /\ UNCHANGED <<importing, preflight, imported, waiting, shopping, tasks, adopted, asked, cancelled>>
  BY DEF F!RemoveStaging
<1>2. FlowShapes' /\ Hearing' /\ InOrder' /\ InOnePlace' /\ Unfinished'
  BY <1>1 DEF FlowInv, FlowShapes, TaskShape, Hearing, InOrder, InOnePlace, Unfinished, IsImport
<1>3. Staged'
  BY <1>1 DEF FlowInv, Staged, IsImport
<1> QED
  BY <1>2, <1>3 DEF FlowInv

\* The page of Discover and its progress say nothing of what runs.
LEMMA PageKeeps == ASSUME FlowInv, F!OpenOther \/ F!Tell \/ F!PollProgress PROVE FlowInv'
<1>1. UNCHANGED <<importing, preflight, imported, waiting, tasks, staging, doomed, adopted, asked, cancelled>>
  BY DEF F!OpenOther, F!Tell, F!PollProgress
<1>2. shopping' = shopping \/ \E b : shopping' = [shopping EXCEPT !.busy = b]
  BY DEF F!OpenOther, F!Tell, F!PollProgress
<1>3. shopping'.check = shopping.check /\ shopping' = [busy |-> shopping'.busy, check |-> shopping'.check]
  BY <1>2 DEF FlowInv, FlowShapes
<1>4. FlowShapes' /\ Hearing'
  BY <1>1, <1>3 DEF FlowInv, FlowShapes, TaskShape, Hearing, IsImport
<1>5. InOrder' /\ InOnePlace' /\ Unfinished' /\ Staged'
  BY <1>1, <1>3 DEF FlowInv, InOrder, InOnePlace, Unfinished, Staged, IsImport
<1> QED
  BY <1>4, <1>5 DEF FlowInv

\* What the dialog shows.
LEMMA FormStep == FormInv /\ [F!Next]_flowVars => FormInv'
<1> SUFFICES ASSUME FormInv, [F!Next]_flowVars PROVE FormInv'
  OBVIOUS
<1>1. CASE form' = form
  BY <1>1 DEF FormInv, F!PreviewIsLast
<1>2. CASE form' = F!Closed
  BY <1>2 DEF FormInv, F!PreviewIsLast, F!Closed
<1>3. CASE F!OpenForm \/ F!Inspect \/ \E p \in Sources \cup {Nothing} : F!EditPath(p)
  <2>1. CASE F!OpenForm
    BY <2>1 DEF F!OpenForm, FormInv, F!PreviewIsLast
  <2>2. CASE F!Inspect
    BY <2>2 DEF F!Inspect, F!LoadPreview, FormInv, F!PreviewIsLast
  <2>3. ASSUME NEW p, F!EditPath(p) PROVE FormInv'
    BY <2>3 DEF F!EditPath, FormInv, F!PreviewIsLast
  <2> QED
    BY <1>3, <2>1, <2>2, <2>3
<1>4. ASSUME NEW p \in previews, F!PollPreview(p) PROVE FormInv'
  BY <1>1, <1>4 DEF F!PollPreview, FormInv, F!PreviewIsLast
<1>5. ASSUME NEW p, F!DropPack(p) PROVE FormInv'
  BY <1>5 DEF F!DropPack, F!Closed, FormInv, F!PreviewIsLast
<1>6. CASE UNCHANGED flowVars
  BY <1>1, <1>6 DEF flowVars
<1>7. CASE F!CloseForm \/ F!StartImport \/ F!PreflightEnds \/ F!PollPreflight
  BY <1>1, <1>2, <1>7 DEF F!CloseForm, F!StartImport, F!PreflightEnds, F!PollPreflight
<1>8. ASSUME NEW t \in tasks, F!TaskEnds(t) \/ F!PollImport(t) \/ F!PollInstall(t) \/ F!Forgotten(t) PROVE FormInv'
  BY <1>1, <1>2, <1>8 DEF F!TaskEnds, F!PollImport, F!PollInstall, F!Forgotten
<1>9. CASE F!StartInstall \/ F!PollInstallCheck \/ F!StartScan \/ F!ScanEnds \/ F!PollScan \/ F!CancelWait
  BY <1>1, <1>2, <1>9 DEF F!StartInstall, F!PollInstallCheck, F!StartScan, F!ScanEnds, F!PollScan, F!CancelWait, F!waitOnly
<1>10. ASSUME NEW f, F!Download(f) PROVE FormInv'
  BY <1>1, <1>10 DEF F!Download, F!waitOnly
<1>11. ASSUME NEW d \in doomed, F!RemoveStaging(d) PROVE FormInv'
  BY <1>1, <1>11 DEF F!RemoveStaging
<1>12. CASE F!OpenOther \/ F!Tell \/ F!PollProgress
  BY <1>1, <1>12 DEF F!OpenOther, F!Tell, F!PollProgress
<1> QED
  BY <1>3, <1>4, <1>5, <1>6, <1>7, <1>8, <1>9, <1>10, <1>11, <1>12 DEF F!Next

LEMMA FlowStep == FlowInv /\ [F!Next]_flowVars => FlowInv'
<1> SUFFICES ASSUME FlowInv, [F!Next]_flowVars PROVE FlowInv'
  OBVIOUS
<1>1. CASE UNCHANGED coreVars
  BY <1>1, CoreKept
<1>2. CASE F!OpenForm \/ F!Inspect \/ UNCHANGED flowVars
  BY <1>1, <1>2 DEF F!OpenForm, F!Inspect, F!formOnly, flowVars, coreVars
<1>3. ASSUME NEW p, F!DropPack(p) \/ F!EditPath(p) \/ F!PollPreview(p) PROVE FlowInv'
  BY <1>1, <1>3 DEF F!DropPack, F!EditPath, F!PollPreview, F!formOnly, coreVars
<1>4. ASSUME NEW f, F!Download(f) PROVE FlowInv'
  BY <1>1, <1>4 DEF F!Download, F!waitOnly, coreVars
<1>5. CASE F!CloseForm \/ F!StartImport \/ F!PreflightEnds \/ F!PollPreflight
  BY <1>5, CloseKeeps, StartImportKeeps, PreflightEndsKeeps, PollPreflightKeeps
<1>6. ASSUME NEW t \in tasks, F!TaskEnds(t) \/ F!PollImport(t) \/ F!PollInstall(t) \/ F!Forgotten(t) PROVE FlowInv'
  BY <1>6, TaskEndsKeeps, PollImportKeeps, PollInstallKeeps, ForgottenKeeps
<1>7. CASE F!StartInstall \/ F!PollInstallCheck \/ F!StartScan \/ F!ScanEnds \/ F!PollScan \/ F!CancelWait
  BY <1>7, StartInstallKeeps, PollInstallCheckKeeps, ScanKeeps, PollScanKeeps, CancelKeeps
<1>8. ASSUME NEW d \in doomed, F!RemoveStaging(d) PROVE FlowInv'
  BY <1>8, RemoveKeeps
<1>9. CASE F!OpenOther \/ F!Tell \/ F!PollProgress
  BY <1>9, PageKeeps
<1> QED
  BY <1>2, <1>3, <1>4, <1>5, <1>6, <1>7, <1>8, <1>9 DEF F!Next

-----------------------------------------------------------------------------
(* Imports, packs and folders at once.                                      *)

allVars == <<vars, flowVars, packVars, sourceVars, part>>
ImportInv == FlowInv /\ FormInv /\ PackInv /\ FolderInv

\* A step of one part is a step or a stutter of each of the others.
LEMMA OnlyItsPart == [MCNext]_allVars => [F!Next]_flowVars /\ [P!Next]_packVars /\ [P!Inspect]_sourceVars
<1> SUFFICES ASSUME [MCNext]_allVars PROVE [F!Next]_flowVars /\ [P!Next]_packVars /\ [P!Inspect]_sourceVars
  OBVIOUS
<1>1. CASE UNCHANGED allVars
  BY <1>1 DEF allVars
<1>2. CASE MCNext
  BY <1>2 DEF MCNext
<1> QED
  BY <1>1, <1>2

\* Always, for any files, packs, requests and folders: the dialog shows what was inspected
\* last; one import is heard and none runs twice; what was downloaded for it is there until
\* it ends; what was cancelled does not appear (flows.rs, import_flow.rs, discover_flow.rs);
\* an import that ends well is whole and one that does not leaves nothing unless deleting
\* failed (import_instance_modal); and what is read from another launcher's folder fits
\* together (inspection.rs).
THEOREM ImportsStaySound == MCSpec => []ImportIsSound
<1>1. MCInit => ImportInv
  BY FlowStart, PackStart, FolderStart DEF MCInit, ImportInv
<1>2. ImportInv /\ [MCNext]_allVars => ImportInv'
  BY OnlyItsPart, FlowStep, FormStep, PackStep, FolderStep DEF ImportInv
<1>3. ImportInv => ImportIsSound
  BY FlowInvIsSound, PackInvIsWhole DEF ImportInv, FolderInv, ImportIsSound
<1>4. MCSpec => MCInit /\ [][MCNext]_allVars
  BY PTL DEF MCSpec, allVars
<1> QED
  BY <1>1, <1>2, <1>3, <1>4, PTL
=============================================================================
