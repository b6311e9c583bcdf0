-------------------------- MODULE WorldSync_proofs --------------------------
(***************************************************************************)
(* Proofs about shared worlds, for any number of instances, saves and      *)
(* failures: the last save survives, passes converge and the store agrees  *)
(* with the disk.                                                          *)
(***************************************************************************)
EXTENDS WorldSync, WellFoundedInduction, TLAPS

Entry == [kind : {"none", "link", "dir"}, time : Nat, whole : BOOLEAN]
Modes == {"out", "symlink", "mirror"}
MirrorPcs == {"survey", "copy", "fill", "swapOut", "swapIn", "compare", "refresh"}
ReplacePcs == {"copy", "fill", "swapOut", "swapIn"}
ChangePcs == {"detach", "restore", "move", "placeBack", "place", "reply"}
Pcs == {"idle"} \cup MirrorPcs \cup ChangePcs
Jobs == {"none", "pass", "members", "disable", "enable"}
Locals == [pc : Pcs, job : Jobs,
           still : SUBSET Instances, mode : [Instances -> Modes],
           mirrors : SUBSET Instances, todo : SUBSET Instances, added : SUBSET Instances,
           src : Places, dst : Places, fresh : Nat]

DiskTyped ==
    /\ disk \in [Places -> Entry]
    /\ staging \in [Places -> Entry]
    /\ backup \in [Places -> Entry]
    /\ \A p \in Places :
          /\ disk[p].kind = "dir" <=> disk[p].time # 0
          /\ staging[p].kind = "dir" <=> staging[p].time # 0
          /\ backup[p].kind = "dir" <=> backup[p].time # 0

StoreTyped ==
    /\ listed \in BOOLEAN
    /\ members \in [Instances -> Modes]
    /\ loaded \in [Instances -> Nat]
    /\ clock \in Nat \ {0}
    /\ failures \in Nat
    /\ everSynced \in BOOLEAN

WorldTyped ==
    /\ DiskTyped
    /\ StoreTyped
    /\ thread \in [Threads -> Locals]
    /\ trouble \subseteq {"clash", "late save", "wait", "overlap", "again", "abandoned"}

Working(t) == thread[t].pc # "idle"
IsDir(p) == disk[p].kind = "dir"
IsLink(i) == disk[i].kind = "link"

\* t is making the copy it will put in a directory's place.
Copying(t) == thread[t].pc \in {"copy", "fill"}
\* t is going to take away what is at p.
Heading(t, p) == thread[t].pc \in {"copy", "fill", "swapOut"} /\ thread[t].dst = p
\* t refreshes mirrors from the shared copy.
Refreshing(t) ==
    \/ thread[t].pc = "refresh"
    \/ thread[t].pc \in ReplacePcs /\ thread[t].dst # Shared

-----------------------------------------------------------------------------
(* Where the threads can be, whatever happens.                              *)

Unsynced ==
    ~everSynced =>
        /\ ~listed
        /\ \A t \in Threads : ~Working(t)
        /\ disk[Shared].kind = "none"
        /\ \A i \in Instances : members[i] = "out" /\ ~IsLink(i)

\* What a pass takes away is a mirror it read, or the shared copy for a mirror.
Mirrors ==
    \A t \in Threads :
        /\ thread[t].pc \in ReplacePcs /\ thread[t].dst = Shared =>
              thread[t].src \in thread[t].still /\ thread[t].mode[thread[t].src] = "mirror"
        /\ thread[t].pc \in ReplacePcs /\ thread[t].dst # Shared =>
              /\ thread[t].dst \in thread[t].still
              /\ thread[t].mode[thread[t].dst] = "mirror"
              /\ thread[t].src = Shared
              /\ thread[t].fresh # 0
        /\ thread[t].pc \in MirrorPcs \ {"survey"} =>
              \A i \in thread[t].mirrors : i \in thread[t].still /\ thread[t].mode[i] = "mirror"

PassJob ==
    Working(Passer) => thread[Passer].pc \in MirrorPcs /\ thread[Passer].job = "pass"

Enabling ==
    Working(Changer) /\ thread[Changer].job = "enable" =>
        /\ thread[Changer].pc \in {"move", "placeBack", "place", "reply"}
        /\ ~listed
        /\ ~Working(Passer)
        /\ \A i \in Instances : members[i] = "out"
        /\ thread[Changer].pc = "move" =>
              /\ disk[Shared].kind = "none"
              /\ \A i \in Instances : ~IsLink(i)
              /\ \E s \in Instances : thread[Changer].todo = {s} /\ IsDir(s)
        /\ thread[Changer].pc = "placeBack" =>
              /\ IsDir(Shared)
              /\ \A i \in Instances : ~IsLink(i)
              /\ \E s \in Instances : thread[Changer].todo = {s} /\ disk[s].kind = "none"

Changing ==
    Working(Changer) /\ thread[Changer].job # "enable" =>
        /\ thread[Changer].job \in {"members", "disable"}
        /\ thread[Changer].pc \notin {"move", "placeBack"}
        /\ thread[Changer].job = "disable" => thread[Changer].pc # "place"
        /\ listed
        /\ thread[Changer].pc \notin {"place", "reply"} =>
              /\ \A i \in thread[Changer].todo : thread[Changer].mode[i] = members[i]
              /\ thread[Changer].job = "disable" =>
                    \A i \in Instances : thread[Changer].mode[i] # "out" => i \in thread[Changer].todo
        /\ thread[Changer].pc = "restore" =>
              /\ thread[Changer].dst \in Instances
              /\ thread[Changer].mode[thread[Changer].dst] = "out"
              /\ ~IsLink(thread[Changer].dst)

Adding ==
    Working(Changer) =>
        /\ \A i \in thread[Changer].added : members[i] = "out"
        /\ \A i \in Instances : thread[Changer].mode[i] = "symlink" => members[i] # "mirror"

Control ==
    /\ disk[Shared].kind # "link"
    /\ Unsynced /\ Mirrors /\ PassJob /\ Enabling /\ Changing /\ Adding

-----------------------------------------------------------------------------
(* What the history rules out.                                              *)

\* t has not looked at the directories yet, nor changed any.
Waits(t) == thread[t].pc \in {"idle", "survey"}

\* Of jobs that never met one waits; and nobody takes the other's copies.
Alone ==
    /\ "wait" \notin trouble => \E t \in Threads : ~Working(t)
    /\ "overlap" \notin trouble =>
          /\ \E t \in Threads : Waits(t)
          /\ \A t \in Threads :
                thread[t].pc \in {"swapOut", "swapIn"} => staging[thread[t].dst].kind = "dir"

\* The store, or the change at work, knows of every link.
LinksAreKnown ==
    "abandoned" \notin trouble =>
        /\ \A i \in Instances : IsLink(i) =>
              /\ thread[Changer].pc \notin {"place", "reply"} => members[i] = "symlink"
              /\ Working(Changer) => thread[Changer].mode[i] = "symlink"
        /\ thread[Changer].pc = "restore" => members[thread[Changer].dst] = "symlink"

\* Nothing failed, and no two jobs met.
Quiet == failures = 0 /\ trouble \subseteq {"late save", "again"}

\* Every link the store, or the change at work, knows of is there.
LinksAreThere ==
    Quiet =>
        /\ \A i \in Instances :
              (IF NoChange THEN members[i] ELSE thread[Changer].mode[i]) = "symlink" => IsLink(i)
        /\ Working(Passer) => thread[Passer].mode = members

\* A running game finds what it last loaded or saved.
Intact ==
    "clash" \notin trouble =>
        \A i \in Instances : loaded[i] # 0 => At(i).whole /\ Fresh(i) = loaded[i]

\* No job works on a running game's instance.
Unplayed ==
    "clash" \notin trouble =>
        \A i \in Instances : loaded[i] # 0 =>
            /\ \A t \in Threads : Working(t) => i \notin thread[t].still
            /\ Working(Changer) => i \notin thread[Changer].todo /\ i \notin thread[Changer].added
            /\ thread[Changer].pc = "restore" => thread[Changer].dst # i

-----------------------------------------------------------------------------
(* No directory looks newer than the last save.                             *)

Times ==
    Judged =>
        /\ \A p \in Places : disk[p].time <= Newest
        /\ \A t \in Threads :
              /\ Working(t) => thread[t].fresh <= Newest
              /\ thread[t].pc \in {"swapOut", "swapIn"} => staging[thread[t].dst].time <= Newest

\* The mirror that is copied to the shared directory is there.
Sources ==
    Judged => \A t \in Threads :
        Copying(t) /\ thread[t].dst = Shared => IsDir(thread[t].src)

-----------------------------------------------------------------------------
(* Where the last save is.                                                  *)

\* It is at p, and no thread is going to take it away.
Safe(p) ==
    /\ disk[p].whole /\ disk[p].time = Newest
    /\ \A t \in Threads : ~Heading(t, p)
    /\ ~(thread[Changer].pc = "restore" /\ thread[Changer].dst = p)

\* No pass at work takes i for a mirror.
Unmirrored(i) ==
    \A t \in Threads : Working(t) => i \notin thread[t].still \/ thread[t].mode[i] # "mirror"

\* Someone will have a copy of the shared directory before it is deleted.
Anchored ==
    \/ \E l \in Instances : IsLink(l) /\ Unmirrored(l)
    \/ thread[Changer].pc = "restore" /\ Unmirrored(thread[Changer].dst)
    \/ thread[Changer].pc = "placeBack"
    \/ NoChange /\ ~listed /\ everSynced

\* The save was made in the shared directory a pass had decided to replace.
SetAside ==
    \/ /\ disk[Shared].whole /\ disk[Shared].time = Newest
       /\ \E t \in Threads : Heading(t, Shared)
    \/ /\ backup[Shared].whole /\ backup[Shared].time = Newest
       /\ \A t \in Threads : thread[t].pc # "survey" /\ ~Heading(t, Shared)

Held ==
    \/ \E i \in Instances : Safe(i)
    \/ Safe(Shared) /\ Anchored
    \/ "late save" \in trouble /\ SetAside

NewestIsSafe == Judged => Held

-----------------------------------------------------------------------------
(* What one job does that nothing disturbs.                                 *)

Untroubled == Calm /\ failures = 0

Newer ==
    Calm => \A t \in Threads :
        LET th == thread[t]
        IN  /\ Copying(t) /\ th.dst = Shared =>
                  IsDir(th.src) /\ disk[th.src].time > disk[Shared].time
            /\ Copying(t) /\ th.dst # Shared => th.fresh > Fresh(th.dst)
            /\ th.pc = "swapOut" => staging[th.dst].time > Fresh(th.dst)
            /\ th.pc = "swapIn" /\ backup[th.dst].kind = "dir" =>
                  backup[th.dst].time < staging[th.dst].time
            /\ Refreshing(t) => th.fresh = disk[Shared].time

\* The shared copy is brought up to the newest mirror.
Gathering ==
    Untroubled => \A t \in Threads :
        LET th == thread[t]
        IN  /\ th.pc = "compare" \/ (th.pc \in ReplacePcs /\ th.dst = Shared) =>
                  th.mirrors = MirrorsOf(t)
            /\ Copying(t) /\ th.dst = Shared =>
                  \A j \in MirrorsOf(t) : disk[j].time <= disk[th.src].time
            /\ th.pc \in {"swapOut", "swapIn"} /\ th.dst = Shared =>
                  \A j \in MirrorsOf(t) : disk[j].time <= staging[Shared].time
            /\ th.pc = "swapIn" /\ th.dst = Shared => disk[Shared].kind = "none"
            /\ th.pc = "compare" => \A j \in MirrorsOf(t) : disk[j].time <= disk[Shared].time

\* The mirrors are brought up to the shared copy, each in its turn.
Spreading ==
    Untroubled => \A t \in Threads :
        LET th == thread[t]
        IN  /\ Refreshing(t) =>
                  /\ th.mirrors \subseteq MirrorsOf(t)
                  /\ \A j \in MirrorsOf(t) :
                        /\ disk[j].time <= th.fresh
                        /\ j \in th.mirrors \/ Heading(t, j) \/ disk[j].time = th.fresh
            /\ th.pc \in ReplacePcs /\ th.dst # Shared => th.dst \notin th.mirrors
            /\ th.pc \in {"copy", "fill", "swapOut"} /\ th.dst # Shared => IsDir(th.dst)
            /\ th.pc = "swapIn" /\ th.dst # Shared => disk[th.dst].kind = "none"
            /\ th.pc \in {"swapOut", "swapIn"} /\ th.dst # Shared => staging[th.dst].time = th.fresh

WorldInv ==
    /\ WorldTyped
    /\ Control
    /\ Alone /\ LinksAreKnown /\ LinksAreThere
    /\ Intact /\ Unplayed
    /\ Times /\ Sources /\ NewestIsSafe
    /\ Newer /\ Gathering /\ Spreading

-----------------------------------------------------------------------------
(* Types, and what each step changes.                                       *)

\* What the proofs use of the types.
LEMMA WorldTypes ==
    ASSUME WorldTyped
    PROVE  /\ \A p \in Places : /\ disk[p] \in Entry /\ staging[p] \in Entry /\ backup[p] \in Entry
                                /\ disk[p].kind \in {"none", "link", "dir"}
                                /\ disk[p].time \in Nat /\ disk[p].whole \in BOOLEAN
                                /\ staging[p].kind \in {"none", "link", "dir"}
                                /\ staging[p].time \in Nat /\ staging[p].whole \in BOOLEAN
                                /\ backup[p].time \in Nat
                                /\ disk[p].kind = "dir" <=> disk[p].time # 0
                                /\ staging[p].kind = "dir" <=> staging[p].time # 0
                                /\ backup[p].kind = "dir" <=> backup[p].time # 0
                                /\ Fresh(p) \in Nat /\ At(p) \in Entry
                                /\ Exists(p) <=> Fresh(p) # 0
           /\ \A i \in Instances : members[i] \in Modes /\ loaded[i] \in Nat
           /\ \A t \in Threads : /\ thread[t] \in Locals
                                 /\ thread[t].pc \in Pcs
                                 /\ thread[t].still \subseteq Instances
                                 /\ thread[t].mirrors \subseteq Instances
                                 /\ thread[t].todo \subseteq Instances
                                 /\ thread[t].added \subseteq Instances
                                 /\ thread[t].mode \in [Instances -> Modes]
                                 /\ thread[t].src \in Places /\ thread[t].dst \in Places
                                 /\ thread[t].fresh \in Nat
           /\ clock \in Nat /\ clock # 0 /\ Newest \in Nat /\ Newest # 0
           /\ Shared \in Places /\ Instances \subseteq Places /\ Shared \notin Instances
           /\ Passer \in Threads /\ Changer \in Threads /\ Passer # Changer
  <1>1. \A p \in Places : /\ disk[p] \in Entry /\ staging[p] \in Entry /\ backup[p] \in Entry
                          /\ disk[p].kind \in {"none", "link", "dir"}
                          /\ disk[p].time \in Nat /\ disk[p].whole \in BOOLEAN
                          /\ staging[p].kind \in {"none", "link", "dir"}
                          /\ staging[p].time \in Nat /\ staging[p].whole \in BOOLEAN
                          /\ backup[p].time \in Nat
                          /\ disk[p].kind = "dir" <=> disk[p].time # 0
                          /\ staging[p].kind = "dir" <=> staging[p].time # 0
                          /\ backup[p].kind = "dir" <=> backup[p].time # 0
    BY DEF WorldTyped, DiskTyped, Entry
  <1>2. \A p \in Places : /\ Fresh(p) \in Nat /\ At(p) \in Entry
                          /\ Exists(p) <=> Fresh(p) # 0
    BY <1>1 DEF At, Fresh, Exists, Places
  <1>3. \A t \in Threads : thread[t] \in Locals
    BY DEF WorldTyped
  <1>4. clock \in Nat /\ clock # 0 /\ Newest \in Nat /\ Newest # 0
    <2>1. clock \in Nat /\ clock # 0
      BY DEF WorldTyped, StoreTyped
    <2> QED
      BY <2>1 DEF Newest
  <1>5. Shared \notin Instances /\ Passer # Changer
    BY WorldAssumption
  <1>6. \A i \in Instances : members[i] \in Modes /\ loaded[i] \in Nat
    BY DEF WorldTyped, StoreTyped
  <1> QED
    BY <1>1, <1>2, <1>3, <1>4, <1>5, <1>6 DEF Locals, Places, Threads

\* The fields of a thread that belong to its job, and to where it is in it.
SameJob(t) ==
    /\ thread'[t].job = thread[t].job /\ thread'[t].still = thread[t].still
    /\ thread'[t].mode = thread[t].mode /\ thread'[t].todo = thread[t].todo
    /\ thread'[t].added = thread[t].added
SameCopy(t) ==
    /\ thread'[t].mirrors = thread[t].mirrors /\ thread'[t].src = thread[t].src
    /\ thread'[t].dst = thread[t].dst /\ thread'[t].fresh = thread[t].fresh
Others(t) == \A u \in Threads : u # t => thread'[u] = thread[u]
SameDisk == UNCHANGED <<disk, staging, backup>>
SameStore == UNCHANGED <<listed, members>>
SameGames == UNCHANGED <<loaded, clock>>

\* Copies of a directory are directories as new as it is, and other copies look
\* one tick newer than the last save at most.
LEMMA CopyEntries ==
    ASSUME WorldTyped, NEW p \in Places
    PROVE  /\ Exists(p) => \A c \in Copies(p) :
                  /\ c \in Entry /\ c.kind = "dir" /\ c.time = Fresh(p) /\ c.time # 0
                  /\ ~Played(p) => c.whole = At(p).whole
           /\ \A c \in Fragments(p) : c \in Entry /\ c.kind = "dir" /\ c.time # 0
  <1>1. Fresh(p) \in Nat /\ (Exists(p) <=> Fresh(p) # 0) /\ Newest \in Nat /\ At(p).whole \in BOOLEAN
    BY WorldTypes DEF Entry
  <1>2. ASSUME Exists(p), NEW c \in Copies(p)
        PROVE  /\ c \in Entry /\ c.kind = "dir" /\ c.time = Fresh(p) /\ c.time # 0
               /\ ~Played(p) => c.whole = At(p).whole
    <2>1. PICK w \in BOOLEAN : /\ c = Dir(Fresh(p), w)
                               /\ ~Played(p) => w = At(p).whole
      BY <1>1, <1>2 DEF Copies
    <2> QED
      BY <1>1, <1>2, <2>1 DEF Dir, Entry
  <1>3. ASSUME NEW c \in Fragments(p)
        PROVE  c \in Entry /\ c.kind = "dir" /\ c.time # 0
    <2>0. Newest + 1 \in Nat \ {0}
      BY <1>1
    <2>1. \E n \in Nat \ {0} : c = Dir(n, FALSE)
      BY <1>1, <1>3, <2>0 DEF Fragments
    <2> QED
      BY <2>1 DEF Dir, Entry
  <1> QED
    BY <1>2, <1>3

\* The locals of both threads have their types.
LEMMA ThreadTypes == WorldTyped => thread \in [Threads -> Locals]
  BY DEF WorldTyped

\* What is at each place has its type.
LEMMA DiskTypes ==
    WorldTyped => /\ disk \in [Places -> Entry] /\ staging \in [Places -> Entry]
                  /\ backup \in [Places -> Entry]
  BY DEF WorldTyped, DiskTyped

\* What Begin leaves in the thread that begins a job.
LEMMA BeginEffect ==
    ASSUME WorldTyped, NEW t \in Threads, NEW job, NEW pc, NEW todo, NEW added,
           Begin(t, job, pc, todo, added)
    PROVE  /\ thread'[t].pc = pc /\ thread'[t].job = job
           /\ thread'[t].still = Instances \ running /\ thread'[t].mode = members
           /\ thread'[t].mirrors = {} /\ thread'[t].todo = todo /\ thread'[t].added = added
           /\ thread'[t].src = Shared /\ thread'[t].dst = Shared /\ thread'[t].fresh = 0
           /\ Others(t)
  BY ThreadTypes DEF Begin, Idle, Others, Locals

\* What Stop leaves: an idle thread.
LEMMA StopEffect ==
    ASSUME WorldTyped, NEW t \in Threads, Stop(t)
    PROVE  thread'[t] = Idle /\ thread'[t].pc = "idle" /\ Others(t)
  BY ThreadTypes DEF Stop, Idle, Others

\* What Goto leaves: the same locals at another label.
LEMMA GotoEffect ==
    ASSUME WorldTyped, NEW t \in Threads, NEW l, Goto(t, l)
    PROVE  thread'[t].pc = l /\ SameJob(t) /\ SameCopy(t) /\ Others(t)
  BY ThreadTypes DEF Goto, Others, Locals, SameJob, SameCopy

\* Where a finished replacement goes on.
LEMMA ReplacedEffect ==
    ASSUME WorldTyped, NEW t \in Threads, Replaced(t)
    PROVE  /\ thread'[t].pc = (IF thread[t].dst = Shared THEN "compare" ELSE "refresh")
           /\ SameJob(t) /\ Others(t)
           /\ thread'[t].mirrors = thread[t].mirrors /\ thread'[t].fresh = thread[t].fresh
           /\ thread'[t].src = Shared /\ thread'[t].dst = Shared
  BY ThreadTypes DEF Replaced, Others, Locals, SameJob

\* What Survey chooses: the newest idle mirror, or nothing newer.
LEMMA SurveyEffect ==
    ASSUME WorldTyped, NEW t \in Threads, Survey(t)
    PROVE  /\ thread[t].pc = "survey" /\ SameDisk /\ SameStore /\ SameGames
           /\ UNCHANGED <<failures, everSynced>>
           /\ SameJob(t) /\ Others(t)
           /\ thread'[t].fresh = thread[t].fresh /\ thread'[t].mirrors = MirrorsOf(t)
           /\ \/ \E i \in Instances : /\ ToShared(i, t) /\ thread'[t].pc = "copy"
                                      /\ thread'[t].src = i /\ thread'[t].dst = Shared
              \/ /\ \A i \in Instances : ~ToShared(i, t)
                 /\ thread'[t].pc = "compare" /\ thread'[t].src = thread[t].src
                 /\ thread'[t].dst = thread[t].dst
  <1> USE DEF SameDisk, SameStore, SameGames, SameJob, Others, store, games
  <1>1. thread[t].pc = "survey" /\ SameDisk /\ SameStore /\ SameGames /\ UNCHANGED <<failures, everSynced>>
    BY DEF Survey
  <1>2. CASE \E i \in Instances : ToShared(i, t) /\ thread' = [thread EXCEPT
                    ![t].pc = "copy", ![t].src = i, ![t].dst = Shared, ![t].mirrors = MirrorsOf(t)]
    <2>1. PICK i \in Instances : ToShared(i, t) /\ thread' = [thread EXCEPT
                    ![t].pc = "copy", ![t].src = i, ![t].dst = Shared, ![t].mirrors = MirrorsOf(t)]
      BY <1>2
    <2>2. /\ thread'[t].pc = "copy" /\ thread'[t].src = i /\ thread'[t].dst = Shared
          /\ thread'[t].fresh = thread[t].fresh /\ thread'[t].mirrors = MirrorsOf(t)
          /\ SameJob(t) /\ Others(t)
      BY <2>1, ThreadTypes DEF Locals
    <2> QED
      BY <1>1, <2>1, <2>2
  <1>3. CASE /\ \A i \in Instances : ~ToShared(i, t)
             /\ thread' = [thread EXCEPT ![t].pc = "compare", ![t].mirrors = MirrorsOf(t)]
    <2>1. /\ thread'[t].pc = "compare" /\ thread'[t].src = thread[t].src
          /\ thread'[t].dst = thread[t].dst
          /\ thread'[t].fresh = thread[t].fresh /\ thread'[t].mirrors = MirrorsOf(t)
          /\ SameJob(t) /\ Others(t)
      BY <1>3, ThreadTypes DEF Locals
    <2> QED
      BY <1>1, <1>3, <2>1
  <1> QED
    BY <1>2, <1>3 DEF Survey

\* What Compare leaves.
LEMMA CompareEffect ==
    ASSUME WorldTyped, NEW t \in Threads, Compare(t)
    PROVE  /\ thread[t].pc = "compare" /\ SameDisk /\ SameStore /\ SameGames
           /\ UNCHANGED <<failures, everSynced>>
           /\ SameJob(t) /\ Others(t)
           /\ thread'[t].pc = "refresh" /\ thread'[t].fresh = Fresh(Shared)
           /\ thread'[t].mirrors = thread[t].mirrors
           /\ thread'[t].src = thread[t].src /\ thread'[t].dst = thread[t].dst
  BY ThreadTypes DEF Compare, Locals, SameDisk, SameStore, SameGames, SameJob, Others,
                    store, games

\* What Refresh leaves: a stale mirror chosen, or the end of the pass.
LEMMA RefreshEffect ==
    ASSUME WorldTyped, NEW t \in Threads, Refresh(t)
    PROVE  /\ thread[t].pc = "refresh" /\ SameDisk /\ SameStore /\ SameGames
           /\ UNCHANGED <<failures, everSynced>>
           /\ SameJob(t) /\ Others(t)
           /\ thread'[t].fresh = thread[t].fresh
           /\ \E i \in thread[t].mirrors :
                 /\ thread'[t].mirrors = thread[t].mirrors \ {i}
                 /\ \/ /\ thread[t].fresh > Fresh(i) /\ thread'[t].pc = "copy"
                       /\ thread'[t].src = Shared /\ thread'[t].dst = i
                    \/ /\ ~(thread[t].fresh > Fresh(i)) /\ thread'[t].pc = "refresh"
                       /\ thread'[t].src = thread[t].src /\ thread'[t].dst = thread[t].dst
  <1> USE DEF SameDisk, SameStore, SameGames, SameJob, Others, store, games
  <1>1. thread[t].pc = "refresh" /\ SameDisk /\ SameStore /\ SameGames /\ UNCHANGED <<failures, everSynced>>
    BY DEF Refresh
  <1>2. PICK i \in thread[t].mirrors :
          IF thread[t].fresh > Fresh(i)
          THEN thread' = [thread EXCEPT ![t].pc = "copy", ![t].src = Shared,
                                        ![t].dst = i, ![t].mirrors = @ \ {i}]
          ELSE thread' = [thread EXCEPT ![t].mirrors = @ \ {i}]
    BY DEF Refresh
  <1>3. /\ SameJob(t) /\ Others(t) /\ thread'[t].fresh = thread[t].fresh
        /\ thread'[t].mirrors = thread[t].mirrors \ {i}
        /\ \/ /\ thread[t].fresh > Fresh(i) /\ thread'[t].pc = "copy"
              /\ thread'[t].src = Shared /\ thread'[t].dst = i
           \/ /\ ~(thread[t].fresh > Fresh(i)) /\ thread'[t].pc = "refresh"
              /\ thread'[t].src = thread[t].src /\ thread'[t].dst = thread[t].dst
    BY <1>1, <1>2, ThreadTypes DEF Locals
  <1> QED
    BY <1>1, <1>3

\* Where a finished pass goes on.
LEMMA MirroredEffect ==
    ASSUME WorldTyped, NEW t \in Threads, Mirrored(t)
    PROVE  /\ thread[t].pc = "refresh" /\ thread[t].mirrors = {}
           /\ SameDisk /\ SameStore /\ SameGames /\ UNCHANGED <<failures, everSynced>> /\ Others(t)
           /\ \/ thread[t].job = "pass" /\ thread'[t].pc = "idle"
              \/ /\ thread[t].job # "pass" /\ thread'[t].pc = "detach"
                 /\ thread'[t].job = thread[t].job /\ thread'[t].still = {}
                 /\ thread'[t].mode = thread[t].mode /\ thread'[t].todo = thread[t].todo
                 /\ thread'[t].added = thread[t].added /\ thread'[t].mirrors = {}
                 /\ thread'[t].src = thread[t].src /\ thread'[t].dst = thread[t].dst
                 /\ thread'[t].fresh = 0
  <1> USE DEF Mirrored, SameDisk, SameStore, SameGames, store, games
  <1>1. CASE thread[t].job = "pass"
    BY <1>1, StopEffect
  <1>2. CASE thread[t].job # "pass"
    BY <1>2, ThreadTypes DEF Locals, Others
  <1> QED
    BY <1>1, <1>2

\* The steps of the copying before its end.
Filling(t) == ClearStaging(t) \/ FillSome(t)

\* What they leave: something in the staging directory.
LEMMA FillEffect ==
    ASSUME WorldTyped, NEW t \in Threads, Filling(t)
    PROVE  /\ thread[t].pc \in {"copy", "fill"} /\ thread'[t].pc = "fill"
           /\ SameJob(t) /\ SameCopy(t) /\ Others(t)
           /\ UNCHANGED <<disk, backup, failures, everSynced>> /\ SameStore /\ SameGames
           /\ thread[t].dst \in Places
           /\ \E e \in {Nothing} \cup Fragments(thread[t].src) :
                 staging' = [staging EXCEPT ![thread[t].dst] = e]
           /\ \A p \in Places : p # thread[t].dst => staging'[p] = staging[p]
  <1> USE DEF SameStore, SameGames, store, games
  <1>1. thread[t].dst \in Places
    BY WorldTypes
  <1>2. CASE ClearStaging(t)
    BY <1>1, <1>2, GotoEffect, DiskTypes DEF ClearStaging
  <1>3. CASE FillSome(t)
    BY <1>1, <1>3, DiskTypes DEF FillSome, SameJob, SameCopy, Others
  <1> QED
    BY <1>2, <1>3 DEF Filling

\* What CopyToStaging leaves: a whole copy, or a fragment and the end of the job.
LEMMA CopyEffect ==
    ASSUME WorldTyped, NEW t \in Threads, CopyToStaging(t)
    PROVE  /\ thread[t].pc = "fill" /\ UNCHANGED <<disk, backup, everSynced>> /\ SameStore /\ SameGames
           /\ \E c \in Copies(thread[t].src) \cup Fragments(thread[t].src) :
                 /\ staging' = [staging EXCEPT ![thread[t].dst] = c]
                 /\ \/ /\ Exists(thread[t].src) /\ (c \in Copies(thread[t].src) \/ Disturbed(t))
                       /\ Goto(t, "swapOut") /\ failures' = failures
                    \/ /\ ~Exists(thread[t].src) \/ Disturbed(t)
                       /\ Replaced(t) /\ failures' = failures
                    \/ Replaced(t) /\ failures' = failures + 1
  BY DEF CopyToStaging, SameStore, SameGames, store, games, Fail

\* What SwapOut leaves: the old directory in the backup, or the end of the job.
LEMMA SwapOutEffect ==
    ASSUME WorldTyped, NEW t \in Threads, SwapOut(t)
    PROVE  /\ thread[t].pc = "swapOut" /\ UNCHANGED <<staging, failures, everSynced>>
           /\ SameStore /\ SameGames /\ Others(t) /\ SameJob(t) /\ SameCopy(t)
           /\ thread'[t].pc = "swapIn"
           /\ \A p \in Places : p # thread[t].dst => disk'[p] = disk[p] /\ backup'[p] = backup[p]
           /\ \/ /\ Exists(thread[t].dst) /\ disk'[thread[t].dst] = Nothing
                 /\ backup'[thread[t].dst] = disk[thread[t].dst]
              \/ /\ ~Exists(thread[t].dst) /\ disk'[thread[t].dst] = disk[thread[t].dst]
                 /\ backup'[thread[t].dst] = Nothing
  <1>1. thread[t].dst \in Places
    BY WorldTypes
  <1>2. SameJob(t) /\ SameCopy(t) /\ Others(t) /\ thread'[t].pc = "swapIn"
    BY GotoEffect DEF SwapOut
  <1> QED
    BY <1>1, <1>2, DiskTypes DEF SwapOut, SameStore, SameGames, store, games

\* What SwapIn leaves: the staged copy in place, or the end of the job.
LEMMA SwapInEffect ==
    ASSUME WorldTyped, NEW t \in Threads, SwapIn(t)
    PROVE  /\ thread[t].pc = "swapIn" /\ UNCHANGED <<backup, failures, everSynced>>
           /\ SameStore /\ SameGames /\ Replaced(t)
           /\ \A p \in Places : p # thread[t].dst => disk'[p] = disk[p] /\ staging'[p] = staging[p]
           /\ \/ /\ staging[thread[t].dst].kind = "dir" /\ disk[thread[t].dst].kind = "none"
                 /\ disk'[thread[t].dst] = staging[thread[t].dst]
                 /\ staging'[thread[t].dst] = Nothing
              \/ /\ ~(staging[thread[t].dst].kind = "dir" /\ disk[thread[t].dst].kind = "none")
                 /\ UNCHANGED <<disk, staging>>
  <1>1. thread[t].dst \in Places
    BY WorldTypes
  <1> QED
    BY <1>1, DiskTypes DEF SwapIn, SameStore, SameGames, store, games

\* What Unlink leaves of a member that is to be detached.
LEMMA UnlinkEffect ==
    ASSUME WorldTyped, Unlink(Changer)
    PROVE  /\ thread[Changer].pc = "detach" /\ UNCHANGED <<staging, backup, failures, everSynced>>
           /\ SameStore /\ SameGames /\ Others(Changer)
           /\ \E i \in thread[Changer].todo :
                 /\ thread'[Changer].todo = thread[Changer].todo \ {i}
                 /\ thread'[Changer].mode = [thread[Changer].mode EXCEPT ![i] = "out"]
                 /\ \A p \in Places : p # i => disk'[p] = disk[p]
                 /\ \/ /\ IsLink(i) /\ disk'[i] = Nothing
                       /\ thread'[Changer].dst = i /\ thread'[Changer].pc = "restore"
                    \/ /\ ~IsLink(i) /\ disk'[i] = disk[i]
                       /\ thread'[Changer].dst = Shared /\ thread'[Changer].pc = "detach"
           /\ thread'[Changer].job = thread[Changer].job /\ thread'[Changer].still = thread[Changer].still
           /\ thread'[Changer].added = thread[Changer].added
           /\ thread'[Changer].mirrors = thread[Changer].mirrors
           /\ thread'[Changer].src = thread[Changer].src /\ thread'[Changer].fresh = thread[Changer].fresh
  <1> USE DEF SameStore, SameGames, store, games
  <1>1. PICK i \in thread[Changer].todo :
          /\ thread' = [thread EXCEPT
                ![Changer].todo = @ \ {i}, ![Changer].mode[i] = "out",
                ![Changer].dst = IF disk[i].kind = "link" THEN i ELSE Shared,
                ![Changer].pc = IF disk[i].kind = "link" THEN "restore" ELSE "detach"]
          /\ disk' = [disk EXCEPT ![i] = IF @.kind = "link" THEN Nothing ELSE @]
    BY DEF Unlink
  <1>2. /\ thread'[Changer].todo = thread[Changer].todo \ {i}
        /\ thread'[Changer].mode = [thread[Changer].mode EXCEPT ![i] = "out"]
        /\ thread'[Changer].dst = IF disk[i].kind = "link" THEN i ELSE Shared
        /\ thread'[Changer].pc = IF disk[i].kind = "link" THEN "restore" ELSE "detach"
        /\ thread'[Changer].job = thread[Changer].job /\ thread'[Changer].still = thread[Changer].still
        /\ thread'[Changer].added = thread[Changer].added
        /\ thread'[Changer].mirrors = thread[Changer].mirrors
        /\ thread'[Changer].src = thread[Changer].src /\ thread'[Changer].fresh = thread[Changer].fresh
        /\ Others(Changer)
    BY <1>1, ThreadTypes DEF Locals, Others, Threads
  <1>3. i \in Places /\ disk'[i] = (IF disk[i].kind = "link" THEN Nothing ELSE disk[i])
        /\ \A p \in Places : p # i => disk'[p] = disk[p]
    BY <1>1, DiskTypes, WorldTypes
  <1> QED
    BY <1>2, <1>3 DEF Unlink, IsLink

\* What Restore leaves: the member's own copy, or a fragment.
LEMMA RestoreEffect ==
    ASSUME WorldTyped, Restore(Changer)
    PROVE  /\ thread[Changer].pc = "restore" /\ UNCHANGED <<staging, backup, everSynced>>
           /\ SameStore /\ SameGames /\ Others(Changer)
           /\ \E c \in Copies(Shared) \cup Fragments(Shared) :
                 /\ disk' = [disk EXCEPT ![thread[Changer].dst] = c]
                 /\ \/ /\ Exists(Shared) /\ c \in Copies(Shared) /\ failures' = failures
                       /\ SameJob(Changer) /\ thread'[Changer].pc = "detach"
                       /\ thread'[Changer].mirrors = thread[Changer].mirrors
                       /\ thread'[Changer].src = thread[Changer].src
                       /\ thread'[Changer].dst = Shared
                       /\ thread'[Changer].fresh = thread[Changer].fresh
                    \/ thread'[Changer].pc = "idle" /\ failures' \in {failures, failures + 1}
  <1> USE DEF SameStore, SameGames, store, games, Fail
  <1>1. Stop(Changer) => thread'[Changer].pc = "idle" /\ Others(Changer)
    BY StopEffect, WorldTypes
  <1>2. ASSUME thread' = [thread EXCEPT ![Changer].pc = "detach", ![Changer].dst = Shared]
        PROVE  /\ SameJob(Changer) /\ thread'[Changer].pc = "detach"
               /\ thread'[Changer].mirrors = thread[Changer].mirrors
               /\ thread'[Changer].src = thread[Changer].src
               /\ thread'[Changer].dst = Shared
               /\ thread'[Changer].fresh = thread[Changer].fresh
               /\ Others(Changer)
    BY <1>2, ThreadTypes DEF Locals, SameJob, Others, Threads
  <1> QED
    BY <1>1, <1>2 DEF Restore

\* What Detached leaves: the shared data gone, or nothing done.
LEMMA DetachedEffect ==
    ASSUME WorldTyped, Detached(Changer)
    PROVE  /\ thread[Changer].pc = "detach" /\ thread[Changer].todo = {}
           /\ UNCHANGED <<staging, backup, failures, everSynced>>
           /\ SameStore /\ SameGames /\ Others(Changer) /\ SameJob(Changer) /\ SameCopy(Changer)
           /\ \A i \in Instances : disk'[i] = disk[i]
           /\ \/ /\ thread[Changer].job = "disable" /\ thread'[Changer].pc = "reply"
                 /\ disk'[Shared] = Nothing
              \/ /\ thread[Changer].job # "disable" /\ thread'[Changer].pc = "place"
                 /\ disk' = disk
  <1>1. \A l : Goto(Changer, l) =>
            thread'[Changer].pc = l /\ SameJob(Changer) /\ SameCopy(Changer) /\ Others(Changer)
    BY GotoEffect, WorldTypes
  <1>2. disk' = [disk EXCEPT ![Shared] = Nothing] =>
            disk'[Shared] = Nothing /\ \A i \in Instances : disk'[i] = disk[i]
    BY DiskTypes, WorldTypes
  <1> QED
    BY <1>1, <1>2 DEF Detached, SameStore, SameGames, store, games

\* What Move leaves: the world of the source in the shared place.
LEMMA MoveEffect ==
    ASSUME WorldTyped, Move(Changer)
    PROVE  /\ thread[Changer].pc = "move" /\ UNCHANGED <<staging, backup, everSynced>>
           /\ SameStore /\ SameGames /\ Others(Changer)
           /\ \/ \E s \in thread[Changer].todo :
                    /\ disk'[Shared] = disk[s] /\ disk'[s] = Nothing
                    /\ \A p \in Places : p # s /\ p # Shared => disk'[p] = disk[p]
                    /\ thread'[Changer].pc = "placeBack" /\ SameJob(Changer) /\ SameCopy(Changer)
                    /\ failures' = failures
              \/ disk' = disk /\ thread'[Changer].pc = "idle" /\ failures' = failures + 1
  <1>1. Goto(Changer, "placeBack") => thread'[Changer].pc = "placeBack" /\ SameJob(Changer)
                                      /\ SameCopy(Changer) /\ Others(Changer)
    BY GotoEffect, WorldTypes
  <1>2. Stop(Changer) => thread'[Changer].pc = "idle" /\ Others(Changer)
    BY StopEffect, WorldTypes
  <1>3. \A s \in thread[Changer].todo :
            disk' = [disk EXCEPT ![Shared] = disk[s], ![s] = Nothing] =>
                /\ disk'[Shared] = disk[s] /\ disk'[s] = Nothing
                /\ \A p \in Places : p # s /\ p # Shared => disk'[p] = disk[p]
    BY DiskTypes, WorldTypes
  <1> QED
    BY <1>1, <1>2, <1>3 DEF Move, SameStore, SameGames, store, games, Fail

\* What placing i does to the disk and to the thread.
PutDisk(i) ==
    /\ \A p \in Places : p # i => disk'[p] = disk[p]
    /\ \E mode \in {"symlink", "mirror"} :
          /\ thread'[Changer].mode = [thread[Changer].mode EXCEPT ![i] = mode]
          /\ mode = "symlink" => disk'[i] = Link
          /\ mode = "mirror" => Exists(Shared) /\ disk'[i] \in Copies(Shared)
    /\ thread'[Changer].todo = thread[Changer].todo \ {i}
    /\ thread'[Changer].added = thread[Changer].added \ {i}
    /\ thread'[Changer].pc = "place" /\ SameCopy(Changer)
    /\ thread'[Changer].job = thread[Changer].job /\ thread'[Changer].still = thread[Changer].still
    /\ Others(Changer)

\* What placing a member leaves at its place.
LEMMA PutEffect ==
    ASSUME WorldTyped, NEW i \in Instances, NEW mode \in {"symlink", "mirror"},
           Put(Changer, i, mode)
    PROVE  PutDisk(i)
  <1>1. thread' = [thread EXCEPT ![Changer].mode[i] = mode, ![Changer].todo = @ \ {i},
                               ![Changer].added = @ \ {i}, ![Changer].pc = "place"]
    BY DEF Put
  <1>2. /\ thread'[Changer].mode = [thread[Changer].mode EXCEPT ![i] = mode]
        /\ thread'[Changer].todo = thread[Changer].todo \ {i}
        /\ thread'[Changer].added = thread[Changer].added \ {i}
        /\ thread'[Changer].pc = "place" /\ SameCopy(Changer)
        /\ thread'[Changer].job = thread[Changer].job /\ thread'[Changer].still = thread[Changer].still
        /\ Others(Changer)
    BY <1>1, ThreadTypes DEF Locals, Others, SameCopy, Threads
  <1>3. /\ \A p \in Places : p # i => disk'[p] = disk[p]
        /\ mode = "symlink" => disk'[i] = Link
        /\ mode = "mirror" => Exists(Shared) /\ disk'[i] \in Copies(Shared)
    BY DiskTypes, WorldTypes DEF Put
  <1> QED
    BY <1>2, <1>3 DEF PutDisk

\* What PlaceBack leaves of the source of an enabled world.
LEMMA PlaceBackEffect ==
    ASSUME WorldTyped, PlaceBack(Changer)
    PROVE  /\ thread[Changer].pc = "placeBack" /\ UNCHANGED <<staging, backup, everSynced>>
           /\ SameStore /\ SameGames
           /\ \E s \in thread[Changer].todo :
                 \/ PutDisk(s) /\ failures' = failures
                 \/ /\ disk'[s] = disk[Shared] /\ disk'[Shared] = Nothing
                    /\ \A p \in Places : p # s /\ p # Shared => disk'[p] = disk[p]
                    /\ thread'[Changer].pc = "idle" /\ Others(Changer)
                    /\ failures' = failures + 1
  <1>1. PICK s \in thread[Changer].todo :
          \/ /\ \E mode \in {"symlink", "mirror"} : Put(Changer, s, mode)
             /\ UNCHANGED failures
          \/ /\ MayFail /\ Fail
             /\ disk' = [disk EXCEPT ![s] = disk[Shared], ![Shared] = Nothing]
             /\ Stop(Changer)
    BY DEF PlaceBack
  <1>2. s \in Instances /\ s # Shared /\ s \in Places /\ Shared \in Places /\ Changer \in Threads
    BY WorldTypes
  <1>3. (\E mode \in {"symlink", "mirror"} : Put(Changer, s, mode)) => PutDisk(s)
    BY <1>2, PutEffect
  <1>4. Stop(Changer) => thread'[Changer].pc = "idle" /\ Others(Changer)
    BY <1>2, StopEffect
  <1>5. disk' = [disk EXCEPT ![s] = disk[Shared], ![Shared] = Nothing] =>
            /\ disk'[s] = disk[Shared] /\ disk'[Shared] = Nothing
            /\ \A p \in Places : p # s /\ p # Shared => disk'[p] = disk[p]
    BY <1>2, DiskTypes
  <1> QED
    BY <1>1, <1>3, <1>4, <1>5 DEF PlaceBack, SameStore, SameGames, store, games, Fail

\* What Place leaves of a member that is added.
LEMMA PlaceEffect ==
    ASSUME WorldTyped, Place(Changer)
    PROVE  /\ thread[Changer].pc = "place" /\ UNCHANGED <<staging, backup, everSynced>>
           /\ SameStore /\ SameGames
           /\ \E i \in thread[Changer].added :
                 \/ disk[i].kind = "none" /\ PutDisk(i) /\ failures' = failures
                 \/ /\ disk' = disk /\ failures' \in {failures, failures + 1}
                    /\ Others(Changer) /\ SameCopy(Changer) /\ thread'[Changer].pc = "place"
                    /\ thread'[Changer].added = thread[Changer].added \ {i}
                    /\ thread'[Changer].job = thread[Changer].job
                    /\ thread'[Changer].still = thread[Changer].still
                    /\ thread'[Changer].mode = thread[Changer].mode
                    /\ thread'[Changer].todo = thread[Changer].todo
  <1>1. PICK i \in thread[Changer].added :
          \/ /\ disk[i].kind = "none"
             /\ \E mode \in {"symlink", "mirror"} : Put(Changer, i, mode)
             /\ UNCHANGED failures
          \/ /\ \/ disk[i].kind # "none" /\ UNCHANGED failures
                \/ disk[i].kind = "none" /\ MayFail /\ Fail
             /\ thread' = [thread EXCEPT ![Changer].added = @ \ {i}]
             /\ UNCHANGED disk
    BY DEF Place
  <1>2. i \in Instances
    BY WorldTypes
  <1>3. (\E mode \in {"symlink", "mirror"} : Put(Changer, i, mode)) => PutDisk(i)
    BY <1>2, PutEffect
  <1>4. thread[Changer].pc = "place"
    BY DEF Place
  <1>5. thread' = [thread EXCEPT ![Changer].added = @ \ {i}] =>
            /\ Others(Changer) /\ SameCopy(Changer) /\ thread'[Changer].pc = "place"
            /\ thread'[Changer].added = thread[Changer].added \ {i}
            /\ thread'[Changer].job = thread[Changer].job
            /\ thread'[Changer].still = thread[Changer].still
            /\ thread'[Changer].mode = thread[Changer].mode
            /\ thread'[Changer].todo = thread[Changer].todo
    BY <1>4, ThreadTypes DEF Locals, Others, SameCopy, Threads
  <1> QED
    BY <1>1, <1>3, <1>5 DEF Place, SameStore, SameGames, store, games, Fail

\* What Placed leaves: the thread before its reply.
LEMMA PlacedEffect ==
    ASSUME WorldTyped, Placed(Changer)
    PROVE  /\ thread[Changer].pc = "place" /\ SameDisk /\ SameStore /\ SameGames
           /\ UNCHANGED <<failures, everSynced>>
           /\ thread'[Changer].pc = "reply" /\ SameJob(Changer) /\ SameCopy(Changer) /\ Others(Changer)
  BY GotoEffect, WorldTypes DEF Placed, SameDisk, SameStore, SameGames, store, games

\* What Reply leaves in the store.
LEMMA ReplyEffect ==
    ASSUME WorldTyped, Reply(Changer)
    PROVE  /\ thread[Changer].pc = "reply" /\ SameDisk /\ SameGames
           /\ UNCHANGED <<failures, everSynced>>
           /\ listed' = (thread[Changer].job # "disable") /\ members' = thread[Changer].mode
           /\ thread'[Changer].pc = "idle" /\ Others(Changer)
  BY StopEffect, WorldTypes DEF Reply, SameDisk, SameGames, games

\* What the beginning of a pass leaves.
LEMMA StartPassEffect ==
    ASSUME WorldTyped, StartPass
    PROVE  /\ thread[Passer].pc = "idle" /\ listed
           /\ thread'[Passer].pc = "survey" /\ thread'[Passer].job = "pass"
           /\ thread'[Passer].still = Instances \ running /\ thread'[Passer].mode = members
           /\ thread'[Passer].mirrors = {} /\ thread'[Passer].fresh = 0
           /\ thread'[Passer].todo = {} /\ thread'[Passer].added = {}
           /\ thread'[Passer].src = Shared /\ thread'[Passer].dst = Shared
           /\ Others(Passer) /\ SameDisk /\ SameStore /\ SameGames
           /\ UNCHANGED <<failures, everSynced>>
  <1>1. Passer \in Threads /\ Begin(Passer, "pass", "survey", {}, {})
    BY WorldTypes DEF StartPass
  <1> QED
    BY <1>1, BeginEffect DEF StartPass, SameDisk, SameStore, SameGames, store, games

\* What the beginning of a change of members leaves.
LEMMA StartChangeEffect ==
    ASSUME WorldTyped, NEW wanted \in SUBSET Instances, StartChange(wanted)
    PROVE  /\ thread[Changer].pc = "idle" /\ listed
           /\ running \cap ((Members \ wanted) \cup (wanted \ Members)) = {}
           /\ thread'[Changer].pc = "survey"
           /\ thread'[Changer].job = (IF wanted = {} THEN "disable" ELSE "members")
           /\ thread'[Changer].still = Instances \ running /\ thread'[Changer].mode = members
           /\ thread'[Changer].mirrors = {} /\ thread'[Changer].fresh = 0
           /\ thread'[Changer].todo = Members \ wanted
           /\ thread'[Changer].added = wanted \ Members
           /\ thread'[Changer].src = Shared /\ thread'[Changer].dst = Shared
           /\ Others(Changer) /\ SameDisk /\ SameStore /\ SameGames
           /\ UNCHANGED <<failures, everSynced>>
  <1>1. Changer \in Threads
        /\ Begin(Changer, IF wanted = {} THEN "disable" ELSE "members",
                 "survey", Members \ wanted, wanted \ Members)
    BY WorldTypes DEF StartChange
  <1> QED
    BY <1>1, BeginEffect DEF StartChange, NoChange, SameDisk, SameStore, SameGames, store, games

\* What the beginning of an enable leaves.
LEMMA StartEnableEffect ==
    ASSUME WorldTyped, NEW source \in Instances, NEW others \in SUBSET Instances,
           StartEnable(source, others)
    PROVE  /\ thread[Changer].pc = "idle" /\ ~listed /\ ~everSynced /\ everSynced'
           /\ running \cap (others \cup {source}) = {}
           /\ IsDir(source)
           /\ thread'[Changer].pc = "move" /\ thread'[Changer].job = "enable"
           /\ thread'[Changer].still = Instances \ running /\ thread'[Changer].mode = members
           /\ thread'[Changer].mirrors = {} /\ thread'[Changer].fresh = 0
           /\ thread'[Changer].todo = {source} /\ thread'[Changer].added = others \ {source}
           /\ thread'[Changer].src = Shared /\ thread'[Changer].dst = Shared
           /\ Others(Changer) /\ SameDisk /\ SameStore /\ SameGames
           /\ UNCHANGED failures
  <1>1. Changer \in Threads /\ Begin(Changer, "enable", "move", {source}, others \ {source})
    BY WorldTypes DEF StartEnable
  <1> QED
    BY <1>1, BeginEffect DEF StartEnable, NoChange, IsDir, SameDisk, SameStore, SameGames,
       store, games

\* What games leave: they touch one place, and only by saving.
LEMMA GameEffects ==
    ASSUME WorldTyped, NEW i \in Instances
    PROVE  /\ StartGame(i) \/ QuitGame(i) =>
                 /\ SameDisk /\ SameStore /\ UNCHANGED <<thread, clock, failures, everSynced>>
                 /\ \A j \in Instances : j # i => loaded'[j] = loaded[j]
           /\ StartGame(i) => /\ loaded[i] = 0 /\ Exists(i) /\ At(i).whole
                              /\ loaded'[i] = Fresh(i)
           /\ QuitGame(i) => loaded'[i] = 0
           /\ SaveGame(i) =>
                 LET place == IF IsLink(i) THEN Shared ELSE i
                 IN  /\ loaded[i] # 0 /\ Exists(i) /\ place \in Places
                     /\ clock' = clock + 1 /\ Newest' = Newest + 2
                     /\ loaded'[i] = Newest' /\ \A j \in Instances : j # i => loaded'[j] = loaded[j]
                     /\ disk'[place] = Dir(Newest', At(i).whole /\ Fresh(i) = loaded[i])
                     /\ \A p \in Places : p # place => disk'[p] = disk[p]
                     /\ UNCHANGED <<staging, backup, thread, failures, everSynced>> /\ SameStore
  <1>1. loaded \in [Instances -> Nat] /\ clock \in Nat
    BY DEF WorldTyped, StoreTyped
  <1>2. StartGame(i) \/ QuitGame(i) =>
           /\ SameDisk /\ SameStore /\ UNCHANGED <<thread, clock, failures, everSynced>>
           /\ \A j \in Instances : j # i => loaded'[j] = loaded[j]
    BY <1>1 DEF StartGame, QuitGame, SameDisk, SameStore, store
  <1>3. StartGame(i) => loaded[i] = 0 /\ Exists(i) /\ At(i).whole /\ loaded'[i] = Fresh(i)
    BY <1>1 DEF StartGame, running
  <1>4. QuitGame(i) => loaded'[i] = 0
    BY <1>1 DEF QuitGame
  <1>5. ASSUME SaveGame(i)
        PROVE  LET place == IF IsLink(i) THEN Shared ELSE i
               IN  /\ loaded[i] # 0 /\ Exists(i) /\ place \in Places
                   /\ clock' = clock + 1 /\ Newest' = Newest + 2
                   /\ loaded'[i] = Newest' /\ \A j \in Instances : j # i => loaded'[j] = loaded[j]
                   /\ disk'[place] = Dir(Newest', At(i).whole /\ Fresh(i) = loaded[i])
                   /\ \A p \in Places : p # place => disk'[p] = disk[p]
                   /\ UNCHANGED <<staging, backup, thread, failures, everSynced>> /\ SameStore
    <2> DEFINE place == IF IsLink(i) THEN Shared ELSE i
    <2>1. /\ loaded[i] # 0 /\ Exists(i) /\ clock' = clock + 1
          /\ loaded' = [loaded EXCEPT ![i] = Newest']
          /\ disk' = [disk EXCEPT ![place] = Dir(Newest', @.whole /\ @.time = loaded[i])]
          /\ UNCHANGED <<staging, backup, thread, failures, everSynced>> /\ SameStore
      BY <1>5 DEF SaveGame, running, SameStore, store, IsLink
    <2>2. Newest' = Newest + 2
      BY <1>1, <2>1 DEF Newest
    <2>3. place \in Places /\ disk[place] = At(i)
      BY DEF At, IsLink, Places
    <2>4. /\ disk'[place] = Dir(Newest', At(i).whole /\ At(i).time = loaded[i])
          /\ \A p \in Places : p # place => disk'[p] = disk[p]
      BY <2>1, <2>3, DiskTypes
    <2>5. loaded'[i] = Newest' /\ \A j \in Instances : j # i => loaded'[j] = loaded[j]
      BY <1>1, <2>1
    <2> HIDE DEF place
    <2>6. /\ loaded[i] # 0 /\ Exists(i) /\ place \in Places
          /\ clock' = clock + 1 /\ Newest' = Newest + 2
          /\ loaded'[i] = Newest' /\ \A j \in Instances : j # i => loaded'[j] = loaded[j]
          /\ disk'[place] = Dir(Newest', At(i).whole /\ Fresh(i) = loaded[i])
          /\ \A p \in Places : p # place => disk'[p] = disk[p]
          /\ UNCHANGED <<staging, backup, thread, failures, everSynced>> /\ SameStore
      BY <2>1, <2>2, <2>3, <2>4, <2>5 DEF Fresh
    <2> QED
      BY <2>6 DEF place
  <1> QED
    BY <1>2, <1>3, <1>4, <1>5

\* What a crash leaves: the disk and the store.
LEMMA CrashEffect ==
    ASSUME WorldTyped, Crash
    PROVE  /\ SameDisk /\ SameStore /\ SameGames /\ UNCHANGED everSynced
           /\ failures' = failures + 1
           /\ \E t \in Threads : Working(t)
           /\ \A t \in Threads : thread'[t] = Idle /\ thread'[t].pc = "idle"
  BY DEF Crash, SameDisk, SameStore, SameGames, store, games, Fail, Idle, Working

-----------------------------------------------------------------------------
(* The types are kept.                                                      *)

\* The labels of the threads.
LEMMA PcsAre ==
    /\ \A l \in {"idle", "survey", "copy", "fill", "swapOut", "swapIn", "compare", "refresh", "detach",
                 "restore", "move", "placeBack", "place", "reply"} : l \in Pcs
    /\ \A j \in {"none", "pass", "members", "disable", "enable"} : j \in Jobs
    /\ \A m \in {"out", "symlink", "mirror"} : m \in Modes
  BY DEF Pcs, MirrorPcs, ChangePcs, Jobs, Modes

\* A thread that gets typed locals keeps the type of both.
LEMMA ThreadBecomes ==
    ASSUME WorldTyped, NEW t \in Threads, NEW n \in Locals, thread' = [thread EXCEPT ![t] = n]
    PROVE  thread' \in [Threads -> Locals]
  BY ThreadTypes

\* Goto keeps the types.
LEMMA GoneTyped ==
    ASSUME WorldTyped, NEW t \in Threads, NEW l \in Pcs, Goto(t, l)
    PROVE  thread' \in [Threads -> Locals]
  BY ThreadTypes DEF Goto, Locals

\* The locals of an idle thread have their types.
LEMMA IdleTyped == WorldTyped => Idle \in Locals
  BY PcsAre DEF Idle, Locals, Places

\* Stop keeps the types.
LEMMA StoppedTyped ==
    ASSUME WorldTyped, NEW t \in Threads, Stop(t)
    PROVE  thread' \in [Threads -> Locals]
  BY IdleTyped, ThreadTypes DEF Stop

\* Replaced keeps the types.
LEMMA ReplacedTyped ==
    ASSUME WorldTyped, NEW t \in Threads, Replaced(t)
    PROVE  thread' \in [Threads -> Locals]
  <1> DEFINE n == [thread[t] EXCEPT !.pc = IF thread[t].dst = Shared THEN "compare" ELSE "refresh",
                                    !.src = Shared, !.dst = Shared]
  <1>1. thread[t] \in Locals /\ Shared \in Places
    BY ThreadTypes DEF Places
  <1>2. n \in Locals
    BY <1>1, PcsAre DEF Locals
  <1>3. thread' = [thread EXCEPT ![t] = n]
    BY ThreadTypes DEF Replaced, Locals
  <1> QED
    BY <1>2, <1>3, ThreadBecomes

\* Begin keeps the types.
LEMMA BegunTyped ==
    ASSUME WorldTyped, NEW t \in Threads, NEW job \in Jobs, NEW pc \in Pcs,
           NEW todo \in SUBSET Instances, NEW added \in SUBSET Instances,
           Begin(t, job, pc, todo, added)
    PROVE  thread' \in [Threads -> Locals]
  <1> DEFINE n == [Idle EXCEPT !.pc = pc, !.job = job, !.still = Instances \ running,
                     !.mode = members, !.todo = todo, !.added = added]
  <1>1. Idle \in Locals /\ members \in [Instances -> Modes] /\ Instances \ running \subseteq Instances
    BY IdleTyped DEF WorldTyped, StoreTyped
  <1>2. n \in Locals
    BY <1>1 DEF Locals
  <1>3. thread' = [thread EXCEPT ![t] = n]
    BY DEF Begin
  <1> QED
    BY <1>2, <1>3, ThreadBecomes

\* Placing a member keeps the types of the threads.
LEMMA PutKeepsThreads ==
    ASSUME WorldTyped, NEW i \in Instances, NEW mode \in {"symlink", "mirror"},
           Put(Changer, i, mode)
    PROVE  thread' \in [Threads -> Locals]
  <1> DEFINE n == [thread[Changer] EXCEPT !.mode[i] = mode, !.todo = @ \ {i},
                                          !.added = @ \ {i}, !.pc = "place"]
  <1>1. Changer \in Threads /\ thread[Changer] \in Locals
    BY WorldTypes
  <1>2. n \in Locals
    BY <1>1, PcsAre DEF Locals
  <1>3. thread' = [thread EXCEPT ![Changer] = n]
    BY <1>1, ThreadTypes DEF Put, Locals
  <1> QED
    BY <1>1, <1>2, <1>3, ThreadBecomes

\* Every step keeps the types of the threads.
LEMMA ThreadsTyped ==
    ASSUME WorldTyped, Next
    PROVE  thread' \in [Threads -> Locals]
  <1>1. ASSUME StartPass
        PROVE  thread' \in [Threads -> Locals]
    <2>1. /\ Passer \in Threads /\ "pass" \in Jobs /\ "survey" \in Pcs
          /\ {} \in SUBSET Instances /\ {} \in SUBSET Instances
      BY PcsAre DEF Threads, Members
    <2>2. Begin(Passer, "pass", "survey", {}, {})
      BY <1>1 DEF StartPass
    <2> QED
      BY <2>1, <2>2, BegunTyped
  <1>2. ASSUME NEW wanted \in SUBSET Instances, StartChange(wanted)
        PROVE  thread' \in [Threads -> Locals]
    <2>1. /\ Changer \in Threads /\ (IF wanted = {} THEN "disable" ELSE "members") \in Jobs /\ "survey" \in Pcs
          /\ (Members \ wanted) \in SUBSET Instances /\ (wanted \ Members) \in SUBSET Instances
      BY PcsAre DEF Threads, Members
    <2>2. Begin(Changer, (IF wanted = {} THEN "disable" ELSE "members"), "survey", (Members \ wanted), (wanted \ Members))
      BY <1>2 DEF StartChange
    <2> QED
      BY <2>1, <2>2, BegunTyped
  <1>3. ASSUME NEW source \in Instances, NEW others \in SUBSET Instances, StartEnable(source, others)
        PROVE  thread' \in [Threads -> Locals]
    <2>1. /\ Changer \in Threads /\ "enable" \in Jobs /\ "move" \in Pcs
          /\ {source} \in SUBSET Instances /\ (others \ {source}) \in SUBSET Instances
      BY PcsAre DEF Threads, Members
    <2>2. Begin(Changer, "enable", "move", {source}, (others \ {source}))
      BY <1>3 DEF StartEnable
    <2> QED
      BY <2>1, <2>2, BegunTyped
  <1>4. ASSUME NEW t \in Threads, Survey(t)
        PROVE  thread' \in [Threads -> Locals]
    <2>1. /\ MirrorsOf(t) \in SUBSET Instances /\ Instances \subseteq Places /\ Shared \in Places
          /\ thread[t] \in Locals
      BY WorldTypes DEF MirrorsOf
    <2>2. ASSUME NEW i \in Instances,
                 thread' = [thread EXCEPT ![t].pc = "copy", ![t].src = i, ![t].dst = Shared,
                                          ![t].mirrors = MirrorsOf(t)]
          PROVE  thread' \in [Threads -> Locals]
      <3> DEFINE n == [thread[t] EXCEPT !.pc = "copy", !.src = i, !.dst = Shared,
                                        !.mirrors = MirrorsOf(t)]
      <3>1. n \in Locals
        BY <2>1, PcsAre DEF Locals
      <3>2. thread' = [thread EXCEPT ![t] = n]
        BY <2>2, ThreadTypes DEF Locals
      <3> QED
        BY <3>1, <3>2, ThreadBecomes
    <2>3. ASSUME thread' = [thread EXCEPT ![t].pc = "compare", ![t].mirrors = MirrorsOf(t)]
          PROVE  thread' \in [Threads -> Locals]
      <3> DEFINE n == [thread[t] EXCEPT !.pc = "compare", !.mirrors = MirrorsOf(t)]
      <3>1. n \in Locals
        BY <2>1, PcsAre DEF Locals
      <3>2. thread' = [thread EXCEPT ![t] = n]
        BY <2>3, ThreadTypes DEF Locals
      <3> QED
        BY <3>1, <3>2, ThreadBecomes
    <2> QED
      BY <1>4, <2>2, <2>3 DEF Survey
  <1>5. ASSUME NEW t \in Threads, Compare(t)
        PROVE  thread' \in [Threads -> Locals]
    <2> DEFINE n == [thread[t] EXCEPT !.pc = "refresh", !.fresh = Fresh(Shared)]
    <2>1. thread[t] \in Locals /\ t \in Threads
      BY ThreadTypes DEF Threads
    <2>2. Fresh(Shared) \in Nat
      BY WorldTypes
    <2>3. n \in Locals
      BY <2>1, <2>2, PcsAre DEF Locals
    <2>4. thread' = [thread EXCEPT ![t] = n]
      BY <1>5, ThreadTypes DEF Compare, Locals
    <2> QED
      BY <2>1, <2>3, <2>4, ThreadBecomes
  <1>6. ASSUME NEW t \in Threads, Refresh(t)
        PROVE  thread' \in [Threads -> Locals]
    <2>1. /\ thread[t].mirrors \subseteq Instances /\ Instances \subseteq Places /\ Shared \in Places
          /\ thread[t] \in Locals
      BY WorldTypes
    <2>2. PICK i \in thread[t].mirrors :
            \/ thread' = [thread EXCEPT ![t].pc = "copy", ![t].src = Shared,
                                        ![t].dst = i, ![t].mirrors = @ \ {i}]
            \/ thread' = [thread EXCEPT ![t].mirrors = @ \ {i}]
      BY <1>6 DEF Refresh
    <2>3. CASE thread' = [thread EXCEPT ![t].pc = "copy", ![t].src = Shared,
                                        ![t].dst = i, ![t].mirrors = @ \ {i}]
      <3> DEFINE n == [thread[t] EXCEPT !.pc = "copy", !.src = Shared,
                                        !.dst = i, !.mirrors = @ \ {i}]
      <3>1. n \in Locals
        BY <2>1, PcsAre DEF Locals
      <3>2. thread' = [thread EXCEPT ![t] = n]
        BY <2>3, ThreadTypes DEF Locals
      <3> QED
        BY <3>1, <3>2, ThreadBecomes
    <2>4. CASE thread' = [thread EXCEPT ![t].mirrors = @ \ {i}]
      BY <2>1, <2>4, ThreadTypes DEF Locals
    <2> QED
      BY <2>2, <2>3, <2>4
  <1>7. ASSUME NEW t \in Threads, Mirrored(t)
        PROVE  thread' \in [Threads -> Locals]
    <2>1. CASE Stop(t)
      BY <2>1, StoppedTyped
    <2>2. CASE thread' = [thread EXCEPT ![t].pc = "detach", ![t].still = {}, ![t].fresh = 0]
      <3> DEFINE n == [thread[t] EXCEPT !.pc = "detach", !.still = {}, !.fresh = 0]
      <3>1. n \in Locals
        BY ThreadTypes, PcsAre DEF Locals
      <3>2. thread' = [thread EXCEPT ![t] = n]
        BY <2>2, ThreadTypes DEF Locals
      <3> QED
        BY <3>1, <3>2, ThreadBecomes
    <2> QED
      BY <1>7, <2>1, <2>2 DEF Mirrored
  <1>8. ASSUME NEW t \in Threads, CopyToStaging(t)
        PROVE  thread' \in [Threads -> Locals]
    BY <1>8, CopyEffect, GoneTyped, ReplacedTyped, PcsAre
  <1>9. ASSUME NEW t \in Threads, SwapOut(t)
        PROVE  thread' \in [Threads -> Locals]
    BY <1>9, GoneTyped, PcsAre DEF SwapOut
  <1>10. ASSUME NEW t \in Threads, SwapIn(t)
        PROVE  thread' \in [Threads -> Locals]
    BY <1>10, ReplacedTyped DEF SwapIn
  <1>11. ASSUME Unlink(Changer)
        PROVE  thread' \in [Threads -> Locals]
    <2>1. PICK i \in thread[Changer].todo :
            thread' = [thread EXCEPT
                ![Changer].todo = @ \ {i}, ![Changer].mode[i] = "out",
                ![Changer].dst = IF disk[i].kind = "link" THEN i ELSE Shared,
                ![Changer].pc = IF disk[i].kind = "link" THEN "restore" ELSE "detach"]
      BY <1>11 DEF Unlink
    <2>2. /\ i \in Instances /\ i \in Places /\ Shared \in Places /\ Changer \in Threads
          /\ thread[Changer] \in Locals
      BY WorldTypes
    <2> DEFINE n == [thread[Changer] EXCEPT
                       !.todo = @ \ {i}, !.mode[i] = "out",
                       !.dst = IF disk[i].kind = "link" THEN i ELSE Shared,
                       !.pc = IF disk[i].kind = "link" THEN "restore" ELSE "detach"]
    <2>3. n \in Locals
      BY <2>2, PcsAre DEF Locals
    <2>4. thread' = [thread EXCEPT ![Changer] = n]
      BY <2>1, <2>2, ThreadTypes DEF Locals
    <2> QED
      BY <2>2, <2>3, <2>4, ThreadBecomes
  <1>12. ASSUME Restore(Changer)
        PROVE  thread' \in [Threads -> Locals]
    <2>1. Shared \in Places /\ Changer \in Threads /\ thread[Changer] \in Locals
      BY WorldTypes
    <2>2. CASE thread' = [thread EXCEPT ![Changer].pc = "detach", ![Changer].dst = Shared]
      <3> DEFINE n == [thread[Changer] EXCEPT !.pc = "detach", !.dst = Shared]
      <3>1. n \in Locals
        BY <2>1, PcsAre DEF Locals
      <3>2. thread' = [thread EXCEPT ![Changer] = n]
        BY <2>1, <2>2, ThreadTypes DEF Locals
      <3> QED
        BY <2>1, <3>1, <3>2, ThreadBecomes
    <2> QED
      BY <1>12, <2>1, <2>2, StoppedTyped DEF Restore
  <1>13. ASSUME Detached(Changer)
        PROVE  thread' \in [Threads -> Locals]
    BY <1>13, GoneTyped, PcsAre DEF Detached, Threads
  <1>14. ASSUME Move(Changer)
        PROVE  thread' \in [Threads -> Locals]
    BY <1>14, GoneTyped, StoppedTyped, PcsAre DEF Move, Threads
  <1>15. ASSUME PlaceBack(Changer)
        PROVE  thread' \in [Threads -> Locals]
    <2>1. CASE Stop(Changer)
      BY <2>1, StoppedTyped DEF Threads
    <2>2. CASE \E s \in Instances, mode \in {"symlink", "mirror"} : Put(Changer, s, mode)
      BY <2>2, PutKeepsThreads
    <2> QED
      BY <1>15, <2>1, <2>2, WorldTypes DEF PlaceBack
  <1>16. ASSUME Place(Changer)
        PROVE  thread' \in [Threads -> Locals]
    <2>1. Changer \in Threads /\ thread[Changer] \in Locals
      BY WorldTypes
    <2>2. CASE \E i \in Instances : thread' = [thread EXCEPT ![Changer].added = @ \ {i}]
      BY <2>1, <2>2, ThreadTypes DEF Locals
    <2>3. CASE \E s \in Instances, mode \in {"symlink", "mirror"} : Put(Changer, s, mode)
      BY <2>3, PutKeepsThreads
    <2> QED
      BY <1>16, <2>2, <2>3, WorldTypes DEF Place
  <1>17. ASSUME Placed(Changer)
        PROVE  thread' \in [Threads -> Locals]
    BY <1>17, GoneTyped, PcsAre DEF Placed, Threads
  <1>18. ASSUME Reply(Changer)
        PROVE  thread' \in [Threads -> Locals]
    BY <1>18, StoppedTyped DEF Reply, Threads
  <1>19. ASSUME NEW i \in Instances, StartGame(i)
        PROVE  thread' \in [Threads -> Locals]
    BY <1>19, ThreadTypes, GameEffects
  <1>20. ASSUME NEW i \in Instances, SaveGame(i)
        PROVE  thread' \in [Threads -> Locals]
    BY <1>20, ThreadTypes, GameEffects
  <1>21. ASSUME NEW i \in Instances, QuitGame(i)
        PROVE  thread' \in [Threads -> Locals]
    BY <1>21, ThreadTypes, GameEffects
  <1>22. ASSUME Crash
        PROVE  thread' \in [Threads -> Locals]
    BY <1>22, IdleTyped DEF Crash
  <1>23. ASSUME NEW t \in Threads, Filling(t)
        PROVE  thread' \in [Threads -> Locals]
    BY <1>23, GoneTyped, ThreadTypes, PcsAre DEF Filling, ClearStaging, FillSome
  <1> QED
    BY <1>1, <1>2, <1>3, <1>4, <1>5, <1>6, <1>7, <1>8, <1>9, <1>10, <1>11, <1>12, <1>13,
       <1>14, <1>15, <1>16, <1>17, <1>18, <1>19, <1>20, <1>21, <1>22, <1>23 DEF Next, Step, Filling

\* Nothing and a link are entries, and no directories.
LEMMA KindEntries ==
    /\ Nothing \in Entry /\ Nothing.kind = "none" /\ Nothing.time = 0 /\ ~Nothing.whole
    /\ Link \in Entry /\ Link.kind = "link" /\ Link.time = 0 /\ ~Link.whole
    /\ \A n \in Nat, w \in BOOLEAN :
          Dir(n, w) \in Entry /\ Dir(n, w).kind = "dir" /\ Dir(n, w).time = n /\ Dir(n, w).whole = w
  BY DEF Nothing, Link, Dir, Entry

\* What is put at a place has a time just when it is a directory.
Sound(e) == e \in Entry /\ (e.kind = "dir" <=> e.time # 0)

\* Nothing, links, copies, fragments and saves are sound entries.
LEMMA SoundEntries ==
    /\ Sound(Nothing) /\ Sound(Link)
    /\ \A n \in Nat \ {0}, w \in BOOLEAN : Sound(Dir(n, w))
    /\ WorldTyped => \A p \in Places : /\ Sound(disk[p]) /\ Sound(staging[p])
                                       /\ Exists(p) => \A c \in Copies(p) : Sound(c)
                                       /\ \A c \in Fragments(p) : Sound(c)
  <1>1. Sound(Nothing) /\ Sound(Link)
    BY KindEntries DEF Sound
  <1>2. \A n \in Nat \ {0}, w \in BOOLEAN : Sound(Dir(n, w))
    BY KindEntries DEF Sound
  <1>3. ASSUME WorldTyped, NEW p \in Places
        PROVE  /\ Sound(disk[p]) /\ Sound(staging[p])
               /\ Exists(p) => \A c \in Copies(p) : Sound(c)
               /\ \A c \in Fragments(p) : Sound(c)
    <2>1. Sound(disk[p]) /\ Sound(staging[p])
      BY <1>3 DEF WorldTyped, DiskTyped, Sound
    <2> QED
      BY <1>3, <2>1, CopyEntries DEF Sound
  <1> QED
    BY <1>1, <1>2, <1>3

\* Putting one sound entry somewhere keeps the type of the disk.
LEMMA PutSound ==
    ASSUME WorldTyped, NEW p \in Places, NEW e, Sound(e), disk' = [disk EXCEPT ![p] = e],
           UNCHANGED <<staging, backup>>
    PROVE  DiskTyped'
  BY DEF WorldTyped, DiskTyped, Sound

\* Putting two does.
LEMMA PutTwoSound ==
    ASSUME WorldTyped, NEW p \in Places, NEW q \in Places, NEW e, Sound(e), NEW f, Sound(f),
           disk' = [disk EXCEPT ![p] = e, ![q] = f], UNCHANGED <<staging, backup>>
    PROVE  DiskTyped'
  BY DEF WorldTyped, DiskTyped, Sound

\* Leaving the disk alone does.
LEMMA SameDiskTyped ==
    ASSUME WorldTyped, SameDisk
    PROVE  DiskTyped'
  BY DEF WorldTyped, DiskTyped, SameDisk

\* Every step keeps the types of what is on disk.
LEMMA DisksTyped ==
    ASSUME WorldTyped, Next
    PROVE  DiskTyped'
  <1>1. ASSUME StartPass
        PROVE  DiskTyped'
    BY <1>1, StartPassEffect, SameDiskTyped
  <1>2. ASSUME NEW wanted \in SUBSET Instances, StartChange(wanted)
        PROVE  DiskTyped'
    BY <1>2, StartChangeEffect, SameDiskTyped
  <1>3. ASSUME NEW source \in Instances, NEW others \in SUBSET Instances, StartEnable(source, others)
        PROVE  DiskTyped'
    BY <1>3, StartEnableEffect, SameDiskTyped
  <1>4. ASSUME NEW t \in Threads, Survey(t)
        PROVE  DiskTyped'
    BY <1>4, SurveyEffect, SameDiskTyped
  <1>5. ASSUME NEW t \in Threads, Compare(t)
        PROVE  DiskTyped'
    BY <1>5, CompareEffect, SameDiskTyped
  <1>6. ASSUME NEW t \in Threads, Refresh(t)
        PROVE  DiskTyped'
    BY <1>6, RefreshEffect, SameDiskTyped
  <1>7. ASSUME NEW t \in Threads, Mirrored(t)
        PROVE  DiskTyped'
    BY <1>7, MirroredEffect, SameDiskTyped
  <1>8. ASSUME NEW t \in Threads, CopyToStaging(t)
        PROVE  DiskTyped'
    <2>1. PICK c : Sound(c) /\ staging' = [staging EXCEPT ![thread[t].dst] = c]
      BY <1>8, SoundEntries, WorldTypes DEF CopyToStaging
    <2>2. thread[t].dst \in Places /\ UNCHANGED <<disk, backup>>
      BY <1>8, WorldTypes DEF CopyToStaging
    <2> QED
      BY <2>1, <2>2 DEF DiskTyped, WorldTyped, Sound
  <1>9. ASSUME NEW t \in Threads, SwapOut(t)
        PROVE  DiskTyped'
    <2>1. thread[t].dst \in Places /\ UNCHANGED staging
      BY <1>9, WorldTypes DEF SwapOut
    <2>2. PICK e, f : /\ Sound(e) /\ Sound(f) /\ disk' = [disk EXCEPT ![thread[t].dst] = e]
                      /\ backup' = [backup EXCEPT ![thread[t].dst] = f]
      <3>1. CASE Exists(thread[t].dst)
        BY <1>9, <2>1, <3>1, SoundEntries DEF SwapOut
      <3>2. CASE ~Exists(thread[t].dst)
        <4>1. disk = [disk EXCEPT ![thread[t].dst] = disk[thread[t].dst]]
          BY DiskTypes
        <4> QED
          BY <1>9, <2>1, <3>2, <4>1, SoundEntries DEF SwapOut
      <3> QED
        BY <3>1, <3>2
    <2> QED
      BY <2>1, <2>2 DEF DiskTyped, WorldTyped, Sound
  <1>10. ASSUME NEW t \in Threads, SwapIn(t)
        PROVE  DiskTyped'
    <2>1. thread[t].dst \in Places /\ UNCHANGED backup
      BY <1>10, WorldTypes DEF SwapIn
    <2>2. CASE UNCHANGED <<disk, staging>>
      BY <2>1, <2>2, SameDiskTyped DEF SameDisk
    <2>3. CASE /\ disk' = [disk EXCEPT ![thread[t].dst] = staging[thread[t].dst]]
               /\ staging' = [staging EXCEPT ![thread[t].dst] = Nothing]
      <3>1. Sound(Nothing) /\ Sound(staging[thread[t].dst])
        BY <2>1, SoundEntries
      <3> QED
        BY <2>1, <2>3, <3>1 DEF DiskTyped, WorldTyped, Sound
    <2> QED
      BY <1>10, <2>2, <2>3 DEF SwapIn
  <1>11. ASSUME Unlink(Changer)
        PROVE  DiskTyped'
    <2>1. PICK i \in Instances : disk' = [disk EXCEPT ![i] = IF @.kind = "link" THEN Nothing ELSE @]
      BY <1>11, WorldTypes DEF Unlink
    <2>2. i \in Places /\ Sound(IF disk[i].kind = "link" THEN Nothing ELSE disk[i])
      BY SoundEntries DEF Places
    <2> QED
      BY <1>11, <2>1, <2>2, PutSound DEF Unlink
  <1>12. ASSUME Restore(Changer)
        PROVE  DiskTyped'
    <2>1. PICK c : Sound(c) /\ disk' = [disk EXCEPT ![thread[Changer].dst] = c]
      BY <1>12, SoundEntries DEF Restore, Places
    <2>2. thread[Changer].dst \in Places
      BY WorldTypes
    <2> QED
      BY <1>12, <2>1, <2>2, PutSound DEF Restore
  <1>13. ASSUME Detached(Changer)
        PROVE  DiskTyped'
    <2>1. CASE disk' = disk
      BY <1>13, <2>1, SameDiskTyped DEF Detached, SameDisk
    <2> QED
      BY <1>13, <2>1, PutSound, SoundEntries DEF Detached, Places
  <1>14. ASSUME Move(Changer)
        PROVE  DiskTyped'
    <2>1. CASE disk' = disk
      BY <1>14, <2>1, SameDiskTyped DEF Move, SameDisk
    <2>2. \A s \in thread[Changer].todo : s \in Places /\ Shared \in Places
      BY WorldTypes
    <2> QED
      BY <1>14, <2>1, <2>2, PutTwoSound, SoundEntries DEF Move
  <1>15. ASSUME PlaceBack(Changer)
        PROVE  DiskTyped'
    <2>1. UNCHANGED <<staging, backup>> /\ Changer \in Threads /\ Shared \in Places
      BY <1>15 DEF PlaceBack, Threads, Places
    <2>2. CASE \E s \in Instances, mode \in {"symlink", "mirror"} : Put(Changer, s, mode)
      <3>1. PICK s \in Instances, mode \in {"symlink", "mirror"} : Put(Changer, s, mode)
        BY <2>2
      <3>2. PICK e : Sound(e) /\ disk' = [disk EXCEPT ![s] = e]
        BY <2>1, <3>1, SoundEntries DEF Put
      <3> QED
        BY <2>1, <3>2, PutSound DEF Places
    <2>3. CASE \E s \in Instances : disk' = [disk EXCEPT ![s] = disk[Shared], ![Shared] = Nothing]
      BY <2>1, <2>3, PutTwoSound, SoundEntries DEF Places
    <2> QED
      BY <1>15, <2>2, <2>3, WorldTypes DEF PlaceBack
  <1>16. ASSUME Place(Changer)
        PROVE  DiskTyped'
    <2>1. UNCHANGED <<staging, backup>> /\ Changer \in Threads /\ Shared \in Places
      BY <1>16 DEF Place, Threads, Places
    <2>2. CASE \E s \in Instances, mode \in {"symlink", "mirror"} : Put(Changer, s, mode)
      <3>1. PICK s \in Instances, mode \in {"symlink", "mirror"} : Put(Changer, s, mode)
        BY <2>2
      <3>2. PICK e : Sound(e) /\ disk' = [disk EXCEPT ![s] = e]
        BY <2>1, <3>1, SoundEntries DEF Put
      <3> QED
        BY <2>1, <3>2, PutSound DEF Places
    <2>3. CASE disk' = disk
      BY <2>1, <2>3, SameDiskTyped DEF SameDisk
    <2> QED
      BY <1>16, <2>2, <2>3, WorldTypes DEF Place
  <1>17. ASSUME Placed(Changer)
        PROVE  DiskTyped'
    BY <1>17, PlacedEffect, SameDiskTyped
  <1>18. ASSUME Reply(Changer)
        PROVE  DiskTyped'
    BY <1>18, ReplyEffect, SameDiskTyped
  <1>19. ASSUME NEW i \in Instances, StartGame(i)
        PROVE  DiskTyped'
    BY <1>19, GameEffects, SameDiskTyped
  <1>20. ASSUME NEW i \in Instances, SaveGame(i)
        PROVE  DiskTyped'
    <2> DEFINE place == IF disk[i].kind = "link" THEN Shared ELSE i
    <2>1. place \in Places /\ Newest' \in Nat \ {0}
      BY <1>20, WorldTypes, GameEffects
    <2>2. disk' = [disk EXCEPT ![place] = Dir(Newest', disk[place].whole /\ disk[place].time = loaded[i])]
      BY <1>20 DEF SaveGame
    <2>3. disk[place].whole \in BOOLEAN
      BY <2>1, WorldTypes
    <2> HIDE DEF place
    <2>4. Sound(Dir(Newest', disk[place].whole /\ disk[place].time = loaded[i]))
      BY <2>1, <2>3, SoundEntries
    <2> QED
      BY <1>20, <2>1, <2>2, <2>4, PutSound DEF SaveGame
  <1>21. ASSUME NEW i \in Instances, QuitGame(i)
        PROVE  DiskTyped'
    BY <1>21, GameEffects, SameDiskTyped
  <1>22. ASSUME Crash
        PROVE  DiskTyped'
    BY <1>22, CrashEffect, SameDiskTyped
  <1>23. ASSUME NEW t \in Threads, Filling(t)
        PROVE  DiskTyped'
    <2>1. thread[t].dst \in Places /\ UNCHANGED <<disk, backup>>
      BY <1>23, FillEffect
    <2>2. PICK e : Sound(e) /\ staging' = [staging EXCEPT ![thread[t].dst] = e]
      BY <1>23, FillEffect, SoundEntries, WorldTypes
    <2> QED
      BY <2>1, <2>2 DEF DiskTyped, WorldTyped, Sound
  <1> QED
    BY <1>1, <1>2, <1>3, <1>4, <1>5, <1>6, <1>7, <1>8, <1>9, <1>10, <1>11, <1>12, <1>13,
       <1>14, <1>15, <1>16, <1>17, <1>18, <1>19, <1>20, <1>21, <1>22, <1>23 DEF Next, Step, Filling

\* Steps that leave store and games alone keep their types.
LEMMA OtherwiseTyped ==
    ASSUME WorldTyped, SameStore, SameGames, UNCHANGED everSynced,
           failures' = failures \/ failures' = failures + 1
    PROVE  StoreTyped'
  <1>1. failures \in Nat
    BY DEF WorldTyped, StoreTyped
  <1>2. failures' \in Nat
    BY <1>1
  <1> QED
    BY <1>2 DEF WorldTyped, StoreTyped, SameStore, SameGames

\* Every step keeps the types of the store and of the games.
LEMMA StoreTypedStep ==
    ASSUME WorldTyped, Next
    PROVE  StoreTyped'
  <1>1. ASSUME StartPass
        PROVE  StoreTyped'
    BY <1>1, StartPassEffect DEF WorldTyped, StoreTyped, SameStore, SameGames
  <1>2. ASSUME NEW wanted \in SUBSET Instances, StartChange(wanted)
        PROVE  StoreTyped'
    BY <1>2 DEF StartChange, store, games, WorldTyped, StoreTyped
  <1>3. ASSUME NEW source \in Instances, NEW others \in SUBSET Instances, StartEnable(source, others)
        PROVE  StoreTyped'
    BY <1>3 DEF StartEnable, store, games, WorldTyped, StoreTyped
  <1>4. ASSUME NEW t \in Threads, Survey(t)
        PROVE  StoreTyped'
    BY <1>4, SurveyEffect DEF WorldTyped, StoreTyped, SameStore, SameGames
  <1>5. ASSUME NEW t \in Threads, Compare(t)
        PROVE  StoreTyped'
    BY <1>5, CompareEffect DEF WorldTyped, StoreTyped, SameStore, SameGames
  <1>6. ASSUME NEW t \in Threads, Refresh(t)
        PROVE  StoreTyped'
    BY <1>6, RefreshEffect DEF WorldTyped, StoreTyped, SameStore, SameGames
  <1>7. ASSUME NEW t \in Threads, Mirrored(t)
        PROVE  StoreTyped'
    BY <1>7, MirroredEffect DEF WorldTyped, StoreTyped, SameStore, SameGames
  <1>8. ASSUME NEW t \in Threads, CopyToStaging(t)
        PROVE  StoreTyped'
    BY <1>8, OtherwiseTyped DEF CopyToStaging, store, games, Fail, SameStore, SameGames
  <1>9. ASSUME NEW t \in Threads, SwapOut(t)
        PROVE  StoreTyped'
    BY <1>9, SwapOutEffect DEF WorldTyped, StoreTyped, SameStore, SameGames
  <1>10. ASSUME NEW t \in Threads, SwapIn(t)
        PROVE  StoreTyped'
    BY <1>10, SwapInEffect DEF WorldTyped, StoreTyped, SameStore, SameGames
  <1>11. ASSUME Unlink(Changer)
        PROVE  StoreTyped'
    BY <1>11 DEF Unlink, store, games, WorldTyped, StoreTyped
  <1>12. ASSUME Restore(Changer)
        PROVE  StoreTyped'
    BY <1>12, OtherwiseTyped DEF Restore, store, games, Fail, SameStore, SameGames
  <1>13. ASSUME Detached(Changer)
        PROVE  StoreTyped'
    BY <1>13 DEF Detached, store, games, WorldTyped, StoreTyped
  <1>14. ASSUME Move(Changer)
        PROVE  StoreTyped'
    BY <1>14, OtherwiseTyped DEF Move, store, games, Fail, SameStore, SameGames
  <1>15. ASSUME PlaceBack(Changer)
        PROVE  StoreTyped'
    BY <1>15, OtherwiseTyped DEF PlaceBack, store, games, Fail, SameStore, SameGames
  <1>16. ASSUME Place(Changer)
        PROVE  StoreTyped'
    BY <1>16, OtherwiseTyped DEF Place, store, games, Fail, SameStore, SameGames
  <1>17. ASSUME Placed(Changer)
        PROVE  StoreTyped'
    BY <1>17, PlacedEffect DEF WorldTyped, StoreTyped, SameStore, SameGames
  <1>18. ASSUME Reply(Changer)
        PROVE  StoreTyped'
    <2>1. thread[Changer].mode \in [Instances -> Modes]
      BY WorldTypes
    <2> QED
      BY <1>18, <2>1 DEF Reply, games, WorldTyped, StoreTyped
  <1>19. ASSUME NEW i \in Instances, StartGame(i)
        PROVE  StoreTyped'
    <2>1. Fresh(i) \in Nat
      BY WorldTypes
    <2> QED
      BY <1>19, <2>1 DEF StartGame, WorldTyped, StoreTyped, store
  <1>20. ASSUME NEW i \in Instances, SaveGame(i)
        PROVE  StoreTyped'
    <2>1. Newest' \in Nat
      BY <1>20, WorldTypes, GameEffects
    <2>2. clock' \in Nat \ {0}
      BY <1>20, WorldTypes DEF SaveGame
    <2> QED
      BY <1>20, <2>1, <2>2 DEF SaveGame, WorldTyped, StoreTyped, store
  <1>21. ASSUME NEW i \in Instances, QuitGame(i)
        PROVE  StoreTyped'
    BY <1>21 DEF QuitGame, WorldTyped, StoreTyped, store
  <1>22. ASSUME Crash
        PROVE  StoreTyped'
    BY <1>22, OtherwiseTyped DEF Crash, store, games, Fail, SameStore, SameGames
  <1>23. ASSUME NEW t \in Threads, Filling(t)
        PROVE  StoreTyped'
    BY <1>23, FillEffect DEF WorldTyped, StoreTyped, SameStore, SameGames
  <1> QED
    BY <1>1, <1>2, <1>3, <1>4, <1>5, <1>6, <1>7, <1>8, <1>9, <1>10, <1>11, <1>12, <1>13,
       <1>14, <1>15, <1>16, <1>17, <1>18, <1>19, <1>20, <1>21, <1>22, <1>23 DEF Next, Step, Filling

\* Every step keeps all types.
LEMMA WorldTypedStep ==
    ASSUME WorldTyped, Next
    PROVE  WorldTyped'
  <1>1. trouble' \subseteq {"clash", "late save", "wait", "overlap", "again", "abandoned"}
    BY DEF WorldTyped, Next
  <1> QED
    BY <1>1, ThreadsTyped, DisksTyped, StoreTypedStep DEF WorldTyped

-----------------------------------------------------------------------------
(* What the steps that copy, place and save leave, field by field.          *)

\* The two threads are two, and there is no other.
LEMMA TwoThreads ==
    /\ Passer \in Threads /\ Changer \in Threads /\ Passer # Changer
    /\ \A t \in Threads : t = Passer \/ t = Changer
    /\ Shared \in Places /\ Shared \notin Instances /\ Instances \subseteq Places
    /\ \A p \in Places : p # Shared => p \in Instances
  BY WorldAssumption DEF Threads, Places

\* Where replace_with_copy goes on when it is over.
Over(t) ==
    /\ thread'[t].pc = (IF thread[t].dst = Shared THEN "compare" ELSE "refresh")
    /\ thread'[t].src = Shared /\ thread'[t].dst = Shared

\* A copy, whole or not, is a directory.
LEMMA CopiesAreDirs ==
    \A p : \A c \in Copies(p) \cup Fragments(p) : c.kind = "dir"
  <1>1. \A n, w : Dir(n, w).kind = "dir"
    BY DEF Dir
  <1> QED
    BY <1>1 DEF Copies, Fragments

\* What a copy does to the disk.
LEMMA CopyResult ==
    ASSUME WorldTyped, NEW t \in Threads, CopyToStaging(t)
    PROVE  /\ thread[t].pc = "fill" /\ UNCHANGED <<disk, backup, everSynced>> /\ SameStore /\ SameGames
           /\ SameJob(t) /\ Others(t)
           /\ thread'[t].mirrors = thread[t].mirrors /\ thread'[t].fresh = thread[t].fresh
           /\ thread[t].src \in Places /\ thread[t].dst \in Places
           /\ \A p \in Places : p # thread[t].dst => staging'[p] = staging[p]
           /\ staging'[thread[t].dst].kind = "dir"
           /\ \/ /\ Exists(thread[t].src) /\ failures' = failures
                 /\ thread'[t].pc = "swapOut"
                 /\ thread'[t].src = thread[t].src /\ thread'[t].dst = thread[t].dst
                 /\ ~Disturbed(t) =>
                       /\ staging'[thread[t].dst].time = Fresh(thread[t].src)
                       /\ ~Played(thread[t].src) =>
                             staging'[thread[t].dst].whole = At(thread[t].src).whole
              \/ /\ ~Exists(thread[t].src) \/ Disturbed(t) \/ failures' = failures + 1
                 /\ failures' \in {failures, failures + 1}
                 /\ Over(t)
  <1>1. PICK c \in Copies(thread[t].src) \cup Fragments(thread[t].src) :
          /\ staging' = [staging EXCEPT ![thread[t].dst] = c]
          /\ \/ /\ Exists(thread[t].src) /\ (c \in Copies(thread[t].src) \/ Disturbed(t))
                /\ Goto(t, "swapOut") /\ failures' = failures
             \/ /\ ~Exists(thread[t].src) \/ Disturbed(t)
                /\ Replaced(t) /\ failures' = failures
             \/ Replaced(t) /\ failures' = failures + 1
    BY CopyEffect
  <1>2. thread[t].src \in Places /\ thread[t].dst \in Places
    BY WorldTypes
  <1>3. /\ staging'[thread[t].dst] = c
        /\ \A p \in Places : p # thread[t].dst => staging'[p] = staging[p]
    BY <1>1, <1>2, DiskTypes
  <1>4. /\ c.kind = "dir"
        /\ Exists(thread[t].src) /\ c \in Copies(thread[t].src) =>
              /\ c.time = Fresh(thread[t].src)
              /\ ~Played(thread[t].src) => c.whole = At(thread[t].src).whole
    <2>1. c.kind = "dir"
      BY <1>1, CopiesAreDirs
    <2> QED
      BY <1>2, <2>1, CopyEntries
  <1>7. thread[t].pc = "fill" /\ UNCHANGED <<disk, backup, everSynced>> /\ SameStore /\ SameGames
    BY CopyEffect
  <1>5. CASE /\ Goto(t, "swapOut") /\ Exists(thread[t].src) /\ failures' = failures
             /\ c \in Copies(thread[t].src) \/ Disturbed(t)
    <2>1. thread'[t].pc = "swapOut" /\ SameJob(t) /\ SameCopy(t) /\ Others(t)
      BY <1>5, GotoEffect
    <2> QED
      BY <1>2, <1>3, <1>4, <1>5, <1>7, <2>1 DEF SameCopy
  <1>6. CASE /\ Replaced(t) /\ failures' \in {failures, failures + 1}
             /\ ~Exists(thread[t].src) \/ Disturbed(t) \/ failures' = failures + 1
    <2>1. /\ SameJob(t) /\ Others(t) /\ Over(t)
          /\ thread'[t].mirrors = thread[t].mirrors /\ thread'[t].fresh = thread[t].fresh
      BY <1>6, ReplacedEffect DEF Over
    <2> QED
      BY <1>2, <1>3, <1>4, <1>6, <1>7, <2>1
  <1> QED
    BY <1>1, <1>5, <1>6

\* A thread no other is at work with copies undisturbed.
LEMMA Undisturbed ==
    ASSUME Alone, "overlap" \notin trouble, NEW t \in Threads, ~Waits(t)
    PROVE  ~Disturbed(t) /\ \A u \in Threads : u # t => Waits(u)
  <1>1. \A u \in Threads : u # t => Waits(u)
    BY DEF Alone, Threads
  <1> QED
    BY <1>1 DEF Disturbed, Engaged, Waits

\* What the second rename does to the disk.
LEMMA SwapInResult ==
    ASSUME WorldTyped, NEW t \in Threads, SwapIn(t)
    PROVE  /\ thread[t].pc = "swapIn" /\ UNCHANGED <<backup, failures, everSynced>>
           /\ SameStore /\ SameGames /\ SameJob(t) /\ Others(t) /\ Over(t)
           /\ thread'[t].mirrors = thread[t].mirrors /\ thread'[t].fresh = thread[t].fresh
           /\ thread[t].dst \in Places
           /\ \A p \in Places : p # thread[t].dst => disk'[p] = disk[p] /\ staging'[p] = staging[p]
           /\ \/ /\ staging[thread[t].dst].kind = "dir" /\ disk[thread[t].dst].kind = "none"
                 /\ disk'[thread[t].dst] = staging[thread[t].dst]
                 /\ staging'[thread[t].dst] = Nothing
              \/ /\ ~(staging[thread[t].dst].kind = "dir" /\ disk[thread[t].dst].kind = "none")
                 /\ UNCHANGED <<disk, staging>>
  BY SwapInEffect, ReplacedEffect, WorldTypes DEF Over

\* What a job's change of one mode leaves.
ModeSet(i, mode) ==
    /\ thread'[Changer].mode[i] = mode
    /\ \A j \in Instances : j # i => thread'[Changer].mode[j] = thread[Changer].mode[j]

\* What taking a link away does to the disk.
LEMMA UnlinkResult ==
    ASSUME WorldTyped, Unlink(Changer)
    PROVE  /\ thread[Changer].pc = "detach" /\ UNCHANGED <<staging, backup, failures, everSynced>>
           /\ SameStore /\ SameGames /\ Others(Changer)
           /\ \E i \in thread[Changer].todo :
                 /\ i \in Instances /\ ModeSet(i, "out")
                 /\ thread'[Changer].todo = thread[Changer].todo \ {i}
                 /\ \A p \in Places : p # i => disk'[p] = disk[p]
                 /\ \/ /\ IsLink(i) /\ disk'[i].kind = "none" /\ disk'[i].time = 0
                       /\ thread'[Changer].dst = i /\ thread'[Changer].pc = "restore"
                    \/ /\ ~IsLink(i) /\ disk'[i] = disk[i]
                       /\ thread'[Changer].dst = Shared /\ thread'[Changer].pc = "detach"
           /\ thread'[Changer].job = thread[Changer].job /\ thread'[Changer].still = thread[Changer].still
           /\ thread'[Changer].added = thread[Changer].added
           /\ thread'[Changer].mirrors = thread[Changer].mirrors
           /\ thread'[Changer].src = thread[Changer].src /\ thread'[Changer].fresh = thread[Changer].fresh
  <1>1. thread[Changer].mode \in [Instances -> Modes] /\ thread[Changer].todo \subseteq Instances
    BY WorldTypes
  <1>2. \A i \in Instances :
           thread'[Changer].mode = [thread[Changer].mode EXCEPT ![i] = "out"] => ModeSet(i, "out")
    BY <1>1 DEF ModeSet
  <1> QED
    BY <1>1, <1>2, UnlinkEffect, KindEntries

\* What copying the shared world back does to the disk.
LEMMA RestoreResult ==
    ASSUME WorldTyped, Restore(Changer)
    PROVE  /\ thread[Changer].pc = "restore" /\ UNCHANGED <<staging, backup, everSynced>>
           /\ SameStore /\ SameGames /\ Others(Changer) /\ thread[Changer].dst \in Places
           /\ \A p \in Places : p # thread[Changer].dst => disk'[p] = disk[p]
           /\ disk'[thread[Changer].dst].kind = "dir"
           /\ \/ /\ Exists(Shared) /\ failures' = failures
                 /\ disk'[thread[Changer].dst].time = Fresh(Shared)
                 /\ ~Played(Shared) => disk'[thread[Changer].dst].whole = At(Shared).whole
                 /\ SameJob(Changer) /\ thread'[Changer].pc = "detach"
                 /\ thread'[Changer].mirrors = thread[Changer].mirrors
                 /\ thread'[Changer].src = thread[Changer].src
                 /\ thread'[Changer].dst = Shared
                 /\ thread'[Changer].fresh = thread[Changer].fresh
              \/ thread'[Changer].pc = "idle" /\ failures' \in {failures, failures + 1}
  <1>1. PICK c \in Copies(Shared) \cup Fragments(Shared) :
          /\ disk' = [disk EXCEPT ![thread[Changer].dst] = c]
          /\ \/ /\ Exists(Shared) /\ c \in Copies(Shared) /\ failures' = failures
                /\ SameJob(Changer) /\ thread'[Changer].pc = "detach"
                /\ thread'[Changer].mirrors = thread[Changer].mirrors
                /\ thread'[Changer].src = thread[Changer].src
                /\ thread'[Changer].dst = Shared
                /\ thread'[Changer].fresh = thread[Changer].fresh
             \/ thread'[Changer].pc = "idle" /\ failures' \in {failures, failures + 1}
    BY RestoreEffect
  <1>2. thread[Changer].dst \in Places /\ Shared \in Places
    BY WorldTypes
  <1>3. c.kind = "dir" /\ (Exists(Shared) /\ c \in Copies(Shared) =>
            c.time = Fresh(Shared) /\ (~Played(Shared) => c.whole = At(Shared).whole))
    <2>1. c.kind = "dir"
      BY <1>1, CopiesAreDirs
    <2> QED
      BY <1>2, <2>1, CopyEntries
  <1>4. disk'[thread[Changer].dst] = c /\ \A p \in Places : p # thread[Changer].dst => disk'[p] = disk[p]
    BY <1>1, <1>2, DiskTypes
  <1> QED
    BY <1>1, <1>2, <1>3, <1>4, RestoreEffect

\* What placing i leaves: a link, or a copy of the shared directory.
PutResult(i) ==
    /\ \A p \in Places : p # i => disk'[p] = disk[p]
    /\ \/ ModeSet(i, "symlink") /\ disk'[i] = Link
       \/ /\ ModeSet(i, "mirror") /\ Exists(Shared)
          /\ disk'[i].kind = "dir" /\ disk'[i].time = Fresh(Shared)
          /\ ~Played(Shared) => disk'[i].whole = At(Shared).whole
    /\ thread'[Changer].todo = thread[Changer].todo \ {i}
    /\ thread'[Changer].added = thread[Changer].added \ {i}
    /\ thread'[Changer].pc = "place" /\ SameCopy(Changer)
    /\ thread'[Changer].job = thread[Changer].job /\ thread'[Changer].still = thread[Changer].still
    /\ Others(Changer)

\* Placing a member leaves all other places alone.
LEMMA PutLeaves ==
    ASSUME WorldTyped, NEW i \in Instances, PutDisk(i)
    PROVE  PutResult(i)
  <1>1. thread[Changer].mode \in [Instances -> Modes] /\ Shared \in Places
    BY WorldTypes
  <1>2. PICK mode \in {"symlink", "mirror"} :
          /\ thread'[Changer].mode = [thread[Changer].mode EXCEPT ![i] = mode]
          /\ mode = "symlink" => disk'[i] = Link
          /\ mode = "mirror" => Exists(Shared) /\ disk'[i] \in Copies(Shared)
    BY DEF PutDisk
  <1>3. ModeSet(i, mode)
    BY <1>1, <1>2 DEF ModeSet
  <1> QED
    BY <1>1, <1>2, <1>3, CopyEntries DEF PutDisk, PutResult

\* What placing the source does to the disk.
LEMMA PlaceBackResult ==
    ASSUME WorldTyped, PlaceBack(Changer)
    PROVE  /\ thread[Changer].pc = "placeBack" /\ UNCHANGED <<staging, backup, everSynced>>
           /\ SameStore /\ SameGames /\ Others(Changer)
           /\ \E s \in thread[Changer].todo :
                 /\ s \in Instances
                 /\ \/ PutResult(s) /\ failures' = failures
                    \/ /\ disk'[s] = disk[Shared] /\ disk'[Shared] = Nothing
                       /\ \A p \in Places : p # s /\ p # Shared => disk'[p] = disk[p]
                       /\ thread'[Changer].pc = "idle" /\ failures' = failures + 1
  <1>1. thread[Changer].todo \subseteq Instances
    BY WorldTypes
  <1> QED
    BY <1>1, PlaceBackEffect, PutLeaves DEF PutResult

\* What placing a member does to the disk.
LEMMA PlaceResult ==
    ASSUME WorldTyped, Place(Changer)
    PROVE  /\ thread[Changer].pc = "place" /\ UNCHANGED <<staging, backup, everSynced>>
           /\ SameStore /\ SameGames /\ Others(Changer) /\ SameCopy(Changer)
           /\ thread'[Changer].pc = "place"
           /\ thread'[Changer].job = thread[Changer].job
           /\ thread'[Changer].still = thread[Changer].still
           /\ \E i \in thread[Changer].added :
                 /\ i \in Instances /\ thread'[Changer].added = thread[Changer].added \ {i}
                 /\ \/ disk[i].kind = "none" /\ PutResult(i) /\ failures' = failures
                    \/ /\ disk' = disk /\ failures' \in {failures, failures + 1}
                       /\ thread'[Changer].mode = thread[Changer].mode
                       /\ thread'[Changer].todo = thread[Changer].todo
  <1>1. thread[Changer].added \subseteq Instances
    BY WorldTypes
  <1> QED
    BY <1>1, PlaceEffect, PutLeaves DEF PutResult

\* Where the game of i saves.
Home(i) == IF IsLink(i) THEN Shared ELSE i

\* What a save does to the disk: it makes one directory the newest.
LEMMA SaveResult ==
    ASSUME WorldTyped, NEW i \in Instances, SaveGame(i)
    PROVE  /\ loaded[i] # 0 /\ Exists(i) /\ Home(i) \in Places /\ IsDir(Home(i))
           /\ At(i) = disk[Home(i)]
           /\ clock' = clock + 1 /\ Newest' = Newest + 2
           /\ loaded'[i] = Newest' /\ \A j \in Instances : j # i => loaded'[j] = loaded[j]
           /\ disk'[Home(i)].time = Newest' /\ disk'[Home(i)].kind = "dir"
           /\ disk'[Home(i)].whole = (At(i).whole /\ Fresh(i) = loaded[i])
           /\ \A p \in Places : p # Home(i) => disk'[p] = disk[p]
           /\ \A p \in Places : disk'[p].kind = disk[p].kind
           /\ UNCHANGED <<staging, backup, thread, failures, everSynced>> /\ SameStore
  <1>1. /\ loaded[i] # 0 /\ Exists(i) /\ Home(i) \in Places
        /\ clock' = clock + 1 /\ Newest' = Newest + 2
        /\ loaded'[i] = Newest' /\ \A j \in Instances : j # i => loaded'[j] = loaded[j]
        /\ disk'[Home(i)] = Dir(Newest', At(i).whole /\ Fresh(i) = loaded[i])
        /\ \A p \in Places : p # Home(i) => disk'[p] = disk[p]
        /\ UNCHANGED <<staging, backup, thread, failures, everSynced>> /\ SameStore
    BY GameEffects DEF Home
  <1>2. Newest' \in Nat /\ (At(i).whole /\ Fresh(i) = loaded[i]) \in BOOLEAN
    BY <1>1, WorldTypes
  <1>3. At(i) = disk[Home(i)] /\ IsDir(Home(i))
    BY <1>1 DEF At, Home, Exists, IsLink, IsDir
  <1>4. disk'[Home(i)].time = Newest' /\ disk'[Home(i)].kind = "dir"
        /\ disk'[Home(i)].whole = (At(i).whole /\ Fresh(i) = loaded[i])
    BY <1>1, <1>2, KindEntries DEF Dir
  <1> QED
    BY <1>1, <1>3, <1>4 DEF IsDir
-----------------------------------------------------------------------------
(* Where the threads can be.                                                *)

\* The shared place is never a link.
LEMMA SharedStep ==
    ASSUME WorldTyped, Control, Next
    PROVE  disk'[Shared].kind # "link"
  <1>1. ASSUME StartPass
        PROVE  disk'[Shared].kind # "link"
    BY <1>1, StartPassEffect, KindEntries, TwoThreads DEF Control, Enabling, Changing,
       Working, IsDir, IsLink, Others, SameDisk, SameStore, SameGames, SameJob, SameCopy,
       Over, ModeSet, PutResult
  <1>2. ASSUME NEW wanted \in SUBSET Instances, StartChange(wanted)
        PROVE  disk'[Shared].kind # "link"
    BY <1>2, StartChangeEffect, KindEntries, TwoThreads DEF Control, Enabling, Changing,
       Working, IsDir, IsLink, Others, SameDisk, SameStore, SameGames, SameJob, SameCopy,
       Over, ModeSet, PutResult
  <1>3. ASSUME NEW source \in Instances, NEW others \in SUBSET Instances, StartEnable(source, others)
        PROVE  disk'[Shared].kind # "link"
    BY <1>3, StartEnableEffect, KindEntries, TwoThreads DEF Control, Enabling, Changing,
       Working, IsDir, IsLink, Others, SameDisk, SameStore, SameGames, SameJob, SameCopy,
       Over, ModeSet, PutResult
  <1>4. ASSUME NEW t \in Threads, Survey(t)
        PROVE  disk'[Shared].kind # "link"
    BY <1>4, SurveyEffect, KindEntries, TwoThreads DEF Control, Enabling, Changing, Working,
       IsDir, IsLink, Others, SameDisk, SameStore, SameGames, SameJob, SameCopy, Over,
       ModeSet, PutResult
  <1>5. ASSUME NEW t \in Threads, Compare(t)
        PROVE  disk'[Shared].kind # "link"
    BY <1>5, CompareEffect, KindEntries, TwoThreads DEF Control, Enabling, Changing, Working,
       IsDir, IsLink, Others, SameDisk, SameStore, SameGames, SameJob, SameCopy, Over,
       ModeSet, PutResult
  <1>6. ASSUME NEW t \in Threads, Refresh(t)
        PROVE  disk'[Shared].kind # "link"
    BY <1>6, RefreshEffect, KindEntries, TwoThreads DEF Control, Enabling, Changing, Working,
       IsDir, IsLink, Others, SameDisk, SameStore, SameGames, SameJob, SameCopy, Over,
       ModeSet, PutResult
  <1>7. ASSUME NEW t \in Threads, Mirrored(t)
        PROVE  disk'[Shared].kind # "link"
    BY <1>7, MirroredEffect, KindEntries, TwoThreads DEF Control, Enabling, Changing, Working,
       IsDir, IsLink, Others, SameDisk, SameStore, SameGames, SameJob, SameCopy, Over,
       ModeSet, PutResult
  <1>8. ASSUME NEW t \in Threads, CopyToStaging(t)
        PROVE  disk'[Shared].kind # "link"
    BY <1>8, CopyResult, KindEntries, TwoThreads DEF Control, Enabling, Changing, Working,
       IsDir, IsLink, Others, SameDisk, SameStore, SameGames, SameJob, SameCopy, Over,
       ModeSet, PutResult
  <1>9. ASSUME NEW t \in Threads, SwapOut(t)
        PROVE  disk'[Shared].kind # "link"
    BY <1>9, SwapOutEffect, KindEntries, TwoThreads DEF Control, Enabling, Changing, Working,
       IsDir, IsLink, Others, SameDisk, SameStore, SameGames, SameJob, SameCopy, Over,
       ModeSet, PutResult
  <1>10. ASSUME NEW t \in Threads, SwapIn(t)
        PROVE  disk'[Shared].kind # "link"
    BY <1>10, SwapInResult, KindEntries, TwoThreads DEF Control, Enabling, Changing, Working,
       IsDir, IsLink, Others, SameDisk, SameStore, SameGames, SameJob, SameCopy, Over,
       ModeSet, PutResult
  <1>11. ASSUME Unlink(Changer)
        PROVE  disk'[Shared].kind # "link"
    BY <1>11, UnlinkResult, KindEntries, TwoThreads DEF Control, Enabling, Changing, Working,
       IsDir, IsLink, Others, SameDisk, SameStore, SameGames, SameJob, SameCopy, Over,
       ModeSet, PutResult
  <1>12. ASSUME Restore(Changer)
        PROVE  disk'[Shared].kind # "link"
    BY <1>12, RestoreResult, KindEntries, TwoThreads DEF Control, Enabling, Changing, Working,
       IsDir, IsLink, Others, SameDisk, SameStore, SameGames, SameJob, SameCopy, Over,
       ModeSet, PutResult
  <1>13. ASSUME Detached(Changer)
        PROVE  disk'[Shared].kind # "link"
    BY <1>13, DetachedEffect, KindEntries, TwoThreads DEF Control, Enabling, Changing,
       Working, IsDir, IsLink, Others, SameDisk, SameStore, SameGames, SameJob, SameCopy,
       Over, ModeSet, PutResult
  <1>14. ASSUME Move(Changer)
        PROVE  disk'[Shared].kind # "link"
    BY <1>14, MoveEffect, KindEntries, TwoThreads DEF Control, Enabling, Changing, Working,
       IsDir, IsLink, Others, SameDisk, SameStore, SameGames, SameJob, SameCopy, Over,
       ModeSet, PutResult
  <1>15. ASSUME PlaceBack(Changer)
        PROVE  disk'[Shared].kind # "link"
    BY <1>15, PlaceBackResult, KindEntries, TwoThreads DEF Control, Enabling, Changing,
       Working, IsDir, IsLink, Others, SameDisk, SameStore, SameGames, SameJob, SameCopy,
       Over, ModeSet, PutResult
  <1>16. ASSUME Place(Changer)
        PROVE  disk'[Shared].kind # "link"
    BY <1>16, PlaceResult, KindEntries, TwoThreads DEF Control, Enabling, Changing, Working,
       IsDir, IsLink, Others, SameDisk, SameStore, SameGames, SameJob, SameCopy, Over,
       ModeSet, PutResult
  <1>17. ASSUME Placed(Changer)
        PROVE  disk'[Shared].kind # "link"
    BY <1>17, PlacedEffect, KindEntries, TwoThreads DEF Control, Enabling, Changing, Working,
       IsDir, IsLink, Others, SameDisk, SameStore, SameGames, SameJob, SameCopy, Over,
       ModeSet, PutResult
  <1>18. ASSUME Reply(Changer)
        PROVE  disk'[Shared].kind # "link"
    BY <1>18, ReplyEffect, KindEntries, TwoThreads DEF Control, Enabling, Changing, Working,
       IsDir, IsLink, Others, SameDisk, SameStore, SameGames, SameJob, SameCopy, Over,
       ModeSet, PutResult
  <1>19. ASSUME NEW i \in Instances, StartGame(i)
        PROVE  disk'[Shared].kind # "link"
    BY <1>19, GameEffects, KindEntries, TwoThreads DEF Control, Enabling, Changing, Working,
       IsDir, IsLink, Others, SameDisk, SameStore, SameGames, SameJob, SameCopy, Over,
       ModeSet, PutResult
  <1>20. ASSUME NEW i \in Instances, SaveGame(i)
        PROVE  disk'[Shared].kind # "link"
    BY <1>20, SaveResult, KindEntries, TwoThreads DEF Control, Enabling, Changing, Working,
       IsDir, IsLink, Others, SameDisk, SameStore, SameGames, SameJob, SameCopy, Over,
       ModeSet, PutResult
  <1>21. ASSUME NEW i \in Instances, QuitGame(i)
        PROVE  disk'[Shared].kind # "link"
    BY <1>21, GameEffects, KindEntries, TwoThreads DEF Control, Enabling, Changing, Working,
       IsDir, IsLink, Others, SameDisk, SameStore, SameGames, SameJob, SameCopy, Over,
       ModeSet, PutResult
  <1>22. ASSUME Crash
        PROVE  disk'[Shared].kind # "link"
    BY <1>22, CrashEffect, KindEntries, TwoThreads DEF Control, Enabling, Changing, Working,
       IsDir, IsLink, Others, SameDisk, SameStore, SameGames, SameJob, SameCopy, Over,
       ModeSet, PutResult
  <1>23. ASSUME NEW t \in Threads, Filling(t)
        PROVE  disk'[Shared].kind # "link"
    BY <1>23, FillEffect, KindEntries, TwoThreads DEF Control, Enabling, Changing, Working,
       IsDir, IsLink, Others, SameDisk, SameStore, SameGames, SameJob, SameCopy, Over,
       ModeSet, PutResult
  <1> QED
    BY <1>1, <1>2, <1>3, <1>4, <1>5, <1>6, <1>7, <1>8, <1>9, <1>10, <1>11, <1>12, <1>13,
       <1>14, <1>15, <1>16, <1>17, <1>18, <1>19, <1>20, <1>21, <1>22, <1>23 DEF Next, Step, Filling

\* A world that is not synced has no job but an enable.
LEMMA UnsyncedStep ==
    ASSUME WorldTyped, Control, Next
    PROVE  Unsynced'
  <1>1. ASSUME StartPass
        PROVE  Unsynced'
    BY <1>1, StartPassEffect, KindEntries, TwoThreads DEF Control, Unsynced, Working, IsLink,
       IsDir, Home, Others, SameDisk, SameStore, SameGames, SameJob, SameCopy, Over, ModeSet,
       PutResult
  <1>2. ASSUME NEW wanted \in SUBSET Instances, StartChange(wanted)
        PROVE  Unsynced'
    BY <1>2, StartChangeEffect, KindEntries, TwoThreads DEF Control, Unsynced, Working,
       IsLink, IsDir, Home, Others, SameDisk, SameStore, SameGames, SameJob, SameCopy, Over,
       ModeSet, PutResult
  <1>3. ASSUME NEW source \in Instances, NEW others \in SUBSET Instances, StartEnable(source, others)
        PROVE  Unsynced'
    BY <1>3, StartEnableEffect, KindEntries, TwoThreads DEF Control, Unsynced, Working,
       IsLink, IsDir, Home, Others, SameDisk, SameStore, SameGames, SameJob, SameCopy, Over,
       ModeSet, PutResult
  <1>4. ASSUME NEW t \in Threads, Survey(t)
        PROVE  Unsynced'
    BY <1>4, SurveyEffect, KindEntries, TwoThreads DEF Control, Unsynced, Working, IsLink,
       IsDir, Home, Others, SameDisk, SameStore, SameGames, SameJob, SameCopy, Over, ModeSet,
       PutResult
  <1>5. ASSUME NEW t \in Threads, Compare(t)
        PROVE  Unsynced'
    BY <1>5, CompareEffect, KindEntries, TwoThreads DEF Control, Unsynced, Working, IsLink,
       IsDir, Home, Others, SameDisk, SameStore, SameGames, SameJob, SameCopy, Over, ModeSet,
       PutResult
  <1>6. ASSUME NEW t \in Threads, Refresh(t)
        PROVE  Unsynced'
    BY <1>6, RefreshEffect, KindEntries, TwoThreads DEF Control, Unsynced, Working, IsLink,
       IsDir, Home, Others, SameDisk, SameStore, SameGames, SameJob, SameCopy, Over, ModeSet,
       PutResult
  <1>7. ASSUME NEW t \in Threads, Mirrored(t)
        PROVE  Unsynced'
    BY <1>7, MirroredEffect, KindEntries, TwoThreads DEF Control, Unsynced, Working, IsLink,
       IsDir, Home, Others, SameDisk, SameStore, SameGames, SameJob, SameCopy, Over, ModeSet,
       PutResult
  <1>8. ASSUME NEW t \in Threads, CopyToStaging(t)
        PROVE  Unsynced'
    BY <1>8, CopyResult, KindEntries, TwoThreads DEF Control, Unsynced, Working, IsLink,
       IsDir, Home, Others, SameDisk, SameStore, SameGames, SameJob, SameCopy, Over, ModeSet,
       PutResult
  <1>9. ASSUME NEW t \in Threads, SwapOut(t)
        PROVE  Unsynced'
    BY <1>9, SwapOutEffect, KindEntries, TwoThreads DEF Control, Unsynced, Working, IsLink,
       IsDir, Home, Others, SameDisk, SameStore, SameGames, SameJob, SameCopy, Over, ModeSet,
       PutResult
  <1>10. ASSUME NEW t \in Threads, SwapIn(t)
        PROVE  Unsynced'
    BY <1>10, SwapInResult, KindEntries, TwoThreads DEF Control, Unsynced, Working, IsLink,
       IsDir, Home, Others, SameDisk, SameStore, SameGames, SameJob, SameCopy, Over, ModeSet,
       PutResult
  <1>11. ASSUME Unlink(Changer)
        PROVE  Unsynced'
    BY <1>11, UnlinkResult, KindEntries, TwoThreads DEF Control, Unsynced, Working, IsLink,
       IsDir, Home, Others, SameDisk, SameStore, SameGames, SameJob, SameCopy, Over, ModeSet,
       PutResult
  <1>12. ASSUME Restore(Changer)
        PROVE  Unsynced'
    BY <1>12, RestoreResult, KindEntries, TwoThreads DEF Control, Unsynced, Working, IsLink,
       IsDir, Home, Others, SameDisk, SameStore, SameGames, SameJob, SameCopy, Over, ModeSet,
       PutResult
  <1>13. ASSUME Detached(Changer)
        PROVE  Unsynced'
    BY <1>13, DetachedEffect, KindEntries, TwoThreads DEF Control, Unsynced, Working, IsLink,
       IsDir, Home, Others, SameDisk, SameStore, SameGames, SameJob, SameCopy, Over, ModeSet,
       PutResult
  <1>14. ASSUME Move(Changer)
        PROVE  Unsynced'
    BY <1>14, MoveEffect, KindEntries, TwoThreads DEF Control, Unsynced, Working, IsLink,
       IsDir, Home, Others, SameDisk, SameStore, SameGames, SameJob, SameCopy, Over, ModeSet,
       PutResult
  <1>15. ASSUME PlaceBack(Changer)
        PROVE  Unsynced'
    BY <1>15, PlaceBackResult, KindEntries, TwoThreads DEF Control, Unsynced, Working, IsLink,
       IsDir, Home, Others, SameDisk, SameStore, SameGames, SameJob, SameCopy, Over, ModeSet,
       PutResult
  <1>16. ASSUME Place(Changer)
        PROVE  Unsynced'
    BY <1>16, PlaceResult, KindEntries, TwoThreads DEF Control, Unsynced, Working, IsLink,
       IsDir, Home, Others, SameDisk, SameStore, SameGames, SameJob, SameCopy, Over, ModeSet,
       PutResult
  <1>17. ASSUME Placed(Changer)
        PROVE  Unsynced'
    BY <1>17, PlacedEffect, KindEntries, TwoThreads DEF Control, Unsynced, Working, IsLink,
       IsDir, Home, Others, SameDisk, SameStore, SameGames, SameJob, SameCopy, Over, ModeSet,
       PutResult
  <1>18. ASSUME Reply(Changer)
        PROVE  Unsynced'
    BY <1>18, ReplyEffect, KindEntries, TwoThreads DEF Control, Unsynced, Working, IsLink,
       IsDir, Home, Others, SameDisk, SameStore, SameGames, SameJob, SameCopy, Over, ModeSet,
       PutResult
  <1>19. ASSUME NEW i \in Instances, StartGame(i)
        PROVE  Unsynced'
    BY <1>19, GameEffects, KindEntries, TwoThreads DEF Control, Unsynced, Working, IsLink,
       IsDir, Home, Others, SameDisk, SameStore, SameGames, SameJob, SameCopy, Over, ModeSet,
       PutResult
  <1>20. ASSUME NEW i \in Instances, SaveGame(i)
        PROVE  Unsynced'
    BY <1>20, SaveResult, KindEntries, TwoThreads DEF Control, Unsynced, Working, IsLink,
       IsDir, Home, Others, SameDisk, SameStore, SameGames, SameJob, SameCopy, Over, ModeSet,
       PutResult
  <1>21. ASSUME NEW i \in Instances, QuitGame(i)
        PROVE  Unsynced'
    BY <1>21, GameEffects, KindEntries, TwoThreads DEF Control, Unsynced, Working, IsLink,
       IsDir, Home, Others, SameDisk, SameStore, SameGames, SameJob, SameCopy, Over, ModeSet,
       PutResult
  <1>22. ASSUME Crash
        PROVE  Unsynced'
    BY <1>22, CrashEffect, KindEntries, TwoThreads DEF Control, Unsynced, Working, IsLink,
       IsDir, Home, Others, SameDisk, SameStore, SameGames, SameJob, SameCopy, Over, ModeSet,
       PutResult
  <1>23. ASSUME NEW t \in Threads, Filling(t)
        PROVE  Unsynced'
    BY <1>23, FillEffect, KindEntries, TwoThreads DEF Control, Unsynced, Working, IsLink,
       IsDir, Home, Others, SameDisk, SameStore, SameGames, SameJob, SameCopy, Over, ModeSet,
       PutResult
  <1> QED
    BY <1>1, <1>2, <1>3, <1>4, <1>5, <1>6, <1>7, <1>8, <1>9, <1>10, <1>11, <1>12, <1>13,
       <1>14, <1>15, <1>16, <1>17, <1>18, <1>19, <1>20, <1>21, <1>22, <1>23 DEF Next, Step, Filling

\* The mirrors a job goes through are members.
LEMMA MirrorsStep ==
    ASSUME WorldTyped, Control, Next
    PROVE  Mirrors'
  <1>1. ASSUME StartPass
        PROVE  Mirrors'
    BY <1>1, StartPassEffect, KindEntries, TwoThreads DEF Control, Mirrors, MirrorPcs,
       ReplacePcs, ToShared, MirrorsOf, Others, SameDisk, SameStore, SameGames, SameJob,
       SameCopy, Over, ModeSet, PutResult
  <1>2. ASSUME NEW wanted \in SUBSET Instances, StartChange(wanted)
        PROVE  Mirrors'
    BY <1>2, StartChangeEffect, KindEntries, TwoThreads DEF Control, Mirrors, MirrorPcs,
       ReplacePcs, ToShared, MirrorsOf, Others, SameDisk, SameStore, SameGames, SameJob,
       SameCopy, Over, ModeSet, PutResult
  <1>3. ASSUME NEW source \in Instances, NEW others \in SUBSET Instances, StartEnable(source, others)
        PROVE  Mirrors'
    BY <1>3, StartEnableEffect, KindEntries, TwoThreads DEF Control, Mirrors, MirrorPcs,
       ReplacePcs, ToShared, MirrorsOf, Others, SameDisk, SameStore, SameGames, SameJob,
       SameCopy, Over, ModeSet, PutResult
  <1>4. ASSUME NEW t \in Threads, Survey(t)
        PROVE  Mirrors'
    BY <1>4, SurveyEffect, KindEntries, TwoThreads DEF Control, Mirrors, MirrorPcs,
       ReplacePcs, ToShared, MirrorsOf, Others, SameDisk, SameStore, SameGames, SameJob,
       SameCopy, Over, ModeSet, PutResult
  <1>5. ASSUME NEW t \in Threads, Compare(t)
        PROVE  Mirrors'
    BY <1>5, CompareEffect, KindEntries, TwoThreads DEF Control, Mirrors, MirrorPcs,
       ReplacePcs, ToShared, MirrorsOf, Others, SameDisk, SameStore, SameGames, SameJob,
       SameCopy, Over, ModeSet, PutResult
  <1>6. ASSUME NEW t \in Threads, Refresh(t)
        PROVE  Mirrors'
    <2>1. \A i \in Instances : thread[t].fresh > Fresh(i) => thread[t].fresh # 0
      BY WorldTypes
    <2>2. thread[t].mirrors \subseteq Instances
      BY WorldTypes
    <2> QED
      BY <1>6, <2>1, <2>2, RefreshEffect, TwoThreads DEF Control, Mirrors, MirrorPcs,
         ReplacePcs, SameJob, Others
  <1>7. ASSUME NEW t \in Threads, Mirrored(t)
        PROVE  Mirrors'
    BY <1>7, MirroredEffect, KindEntries, TwoThreads DEF Control, Mirrors, MirrorPcs,
       ReplacePcs, ToShared, MirrorsOf, Others, SameDisk, SameStore, SameGames, SameJob,
       SameCopy, Over, ModeSet, PutResult
  <1>8. ASSUME NEW t \in Threads, CopyToStaging(t)
        PROVE  Mirrors'
    BY <1>8, CopyResult, KindEntries, TwoThreads DEF Control, Mirrors, MirrorPcs, ReplacePcs,
       ToShared, MirrorsOf, Others, SameDisk, SameStore, SameGames, SameJob, SameCopy, Over,
       ModeSet, PutResult
  <1>9. ASSUME NEW t \in Threads, SwapOut(t)
        PROVE  Mirrors'
    BY <1>9, SwapOutEffect, KindEntries, TwoThreads DEF Control, Mirrors, MirrorPcs,
       ReplacePcs, ToShared, MirrorsOf, Others, SameDisk, SameStore, SameGames, SameJob,
       SameCopy, Over, ModeSet, PutResult
  <1>10. ASSUME NEW t \in Threads, SwapIn(t)
        PROVE  Mirrors'
    BY <1>10, SwapInResult, KindEntries, TwoThreads DEF Control, Mirrors, MirrorPcs,
       ReplacePcs, ToShared, MirrorsOf, Others, SameDisk, SameStore, SameGames, SameJob,
       SameCopy, Over, ModeSet, PutResult
  <1>11. ASSUME Unlink(Changer)
        PROVE  Mirrors'
    BY <1>11, UnlinkResult, KindEntries, TwoThreads DEF Control, Mirrors, MirrorPcs,
       ReplacePcs, ToShared, MirrorsOf, Others, SameDisk, SameStore, SameGames, SameJob,
       SameCopy, Over, ModeSet, PutResult
  <1>12. ASSUME Restore(Changer)
        PROVE  Mirrors'
    BY <1>12, RestoreResult, KindEntries, TwoThreads DEF Control, Mirrors, MirrorPcs,
       ReplacePcs, ToShared, MirrorsOf, Others, SameDisk, SameStore, SameGames, SameJob,
       SameCopy, Over, ModeSet, PutResult
  <1>13. ASSUME Detached(Changer)
        PROVE  Mirrors'
    BY <1>13, DetachedEffect, KindEntries, TwoThreads DEF Control, Mirrors, MirrorPcs,
       ReplacePcs, ToShared, MirrorsOf, Others, SameDisk, SameStore, SameGames, SameJob,
       SameCopy, Over, ModeSet, PutResult
  <1>14. ASSUME Move(Changer)
        PROVE  Mirrors'
    BY <1>14, MoveEffect, KindEntries, TwoThreads DEF Control, Mirrors, MirrorPcs, ReplacePcs,
       ToShared, MirrorsOf, Others, SameDisk, SameStore, SameGames, SameJob, SameCopy, Over,
       ModeSet, PutResult
  <1>15. ASSUME PlaceBack(Changer)
        PROVE  Mirrors'
    BY <1>15, PlaceBackResult, KindEntries, TwoThreads DEF Control, Mirrors, MirrorPcs,
       ReplacePcs, ToShared, MirrorsOf, Others, SameDisk, SameStore, SameGames, SameJob,
       SameCopy, Over, ModeSet, PutResult
  <1>16. ASSUME Place(Changer)
        PROVE  Mirrors'
    BY <1>16, PlaceResult, KindEntries, TwoThreads DEF Control, Mirrors, MirrorPcs,
       ReplacePcs, ToShared, MirrorsOf, Others, SameDisk, SameStore, SameGames, SameJob,
       SameCopy, Over, ModeSet, PutResult
  <1>17. ASSUME Placed(Changer)
        PROVE  Mirrors'
    BY <1>17, PlacedEffect, KindEntries, TwoThreads DEF Control, Mirrors, MirrorPcs,
       ReplacePcs, ToShared, MirrorsOf, Others, SameDisk, SameStore, SameGames, SameJob,
       SameCopy, Over, ModeSet, PutResult
  <1>18. ASSUME Reply(Changer)
        PROVE  Mirrors'
    BY <1>18, ReplyEffect, KindEntries, TwoThreads DEF Control, Mirrors, MirrorPcs,
       ReplacePcs, ToShared, MirrorsOf, Others, SameDisk, SameStore, SameGames, SameJob,
       SameCopy, Over, ModeSet, PutResult
  <1>19. ASSUME NEW i \in Instances, StartGame(i)
        PROVE  Mirrors'
    BY <1>19, GameEffects, KindEntries, TwoThreads DEF Control, Mirrors, MirrorPcs,
       ReplacePcs, ToShared, MirrorsOf, Others, SameDisk, SameStore, SameGames, SameJob,
       SameCopy, Over, ModeSet, PutResult
  <1>20. ASSUME NEW i \in Instances, SaveGame(i)
        PROVE  Mirrors'
    BY <1>20, SaveResult, KindEntries, TwoThreads DEF Control, Mirrors, MirrorPcs, ReplacePcs,
       ToShared, MirrorsOf, Others, SameDisk, SameStore, SameGames, SameJob, SameCopy, Over,
       ModeSet, PutResult
  <1>21. ASSUME NEW i \in Instances, QuitGame(i)
        PROVE  Mirrors'
    BY <1>21, GameEffects, KindEntries, TwoThreads DEF Control, Mirrors, MirrorPcs,
       ReplacePcs, ToShared, MirrorsOf, Others, SameDisk, SameStore, SameGames, SameJob,
       SameCopy, Over, ModeSet, PutResult
  <1>22. ASSUME Crash
        PROVE  Mirrors'
    BY <1>22, CrashEffect, KindEntries, TwoThreads DEF Control, Mirrors, MirrorPcs,
       ReplacePcs, ToShared, MirrorsOf, Others, SameDisk, SameStore, SameGames, SameJob,
       SameCopy, Over, ModeSet, PutResult
  <1>23. ASSUME NEW t \in Threads, Filling(t)
        PROVE  Mirrors'
    BY <1>23, FillEffect, KindEntries, TwoThreads DEF Control, Mirrors, MirrorPcs,
       ReplacePcs, ToShared, MirrorsOf, Others, SameDisk, SameStore, SameGames, SameJob,
       SameCopy, Over, ModeSet, PutResult
  <1> QED
    BY <1>1, <1>2, <1>3, <1>4, <1>5, <1>6, <1>7, <1>8, <1>9, <1>10, <1>11, <1>12, <1>13,
       <1>14, <1>15, <1>16, <1>17, <1>18, <1>19, <1>20, <1>21, <1>22, <1>23 DEF Next, Step, Filling

\* A pass is under way only with the members it began with.
LEMMA PassJobStep ==
    ASSUME WorldTyped, Control, Next
    PROVE  PassJob'
  <1>1. ASSUME StartPass
        PROVE  PassJob'
    BY <1>1, StartPassEffect, KindEntries, TwoThreads DEF Control, PassJob, MirrorPcs,
       Working, Others, SameDisk, SameStore, SameGames, SameJob, SameCopy, Over, ModeSet,
       PutResult
  <1>2. ASSUME NEW wanted \in SUBSET Instances, StartChange(wanted)
        PROVE  PassJob'
    BY <1>2, StartChangeEffect, KindEntries, TwoThreads DEF Control, PassJob, MirrorPcs,
       Working, Others, SameDisk, SameStore, SameGames, SameJob, SameCopy, Over, ModeSet,
       PutResult
  <1>3. ASSUME NEW source \in Instances, NEW others \in SUBSET Instances, StartEnable(source, others)
        PROVE  PassJob'
    BY <1>3, StartEnableEffect, KindEntries, TwoThreads DEF Control, PassJob, MirrorPcs,
       Working, Others, SameDisk, SameStore, SameGames, SameJob, SameCopy, Over, ModeSet,
       PutResult
  <1>4. ASSUME NEW t \in Threads, Survey(t)
        PROVE  PassJob'
    BY <1>4, SurveyEffect, KindEntries, TwoThreads DEF Control, PassJob, MirrorPcs, Working,
       Others, SameDisk, SameStore, SameGames, SameJob, SameCopy, Over, ModeSet, PutResult
  <1>5. ASSUME NEW t \in Threads, Compare(t)
        PROVE  PassJob'
    BY <1>5, CompareEffect, KindEntries, TwoThreads DEF Control, PassJob, MirrorPcs, Working,
       Others, SameDisk, SameStore, SameGames, SameJob, SameCopy, Over, ModeSet, PutResult
  <1>6. ASSUME NEW t \in Threads, Refresh(t)
        PROVE  PassJob'
    BY <1>6, RefreshEffect, KindEntries, TwoThreads DEF Control, PassJob, MirrorPcs, Working,
       Others, SameDisk, SameStore, SameGames, SameJob, SameCopy, Over, ModeSet, PutResult
  <1>7. ASSUME NEW t \in Threads, Mirrored(t)
        PROVE  PassJob'
    BY <1>7, MirroredEffect, KindEntries, TwoThreads DEF Control, PassJob, MirrorPcs, Working,
       Others, SameDisk, SameStore, SameGames, SameJob, SameCopy, Over, ModeSet, PutResult
  <1>8. ASSUME NEW t \in Threads, CopyToStaging(t)
        PROVE  PassJob'
    BY <1>8, CopyResult, KindEntries, TwoThreads DEF Control, PassJob, MirrorPcs, Working,
       Others, SameDisk, SameStore, SameGames, SameJob, SameCopy, Over, ModeSet, PutResult
  <1>9. ASSUME NEW t \in Threads, SwapOut(t)
        PROVE  PassJob'
    BY <1>9, SwapOutEffect, KindEntries, TwoThreads DEF Control, PassJob, MirrorPcs, Working,
       Others, SameDisk, SameStore, SameGames, SameJob, SameCopy, Over, ModeSet, PutResult
  <1>10. ASSUME NEW t \in Threads, SwapIn(t)
        PROVE  PassJob'
    BY <1>10, SwapInResult, KindEntries, TwoThreads DEF Control, PassJob, MirrorPcs, Working,
       Others, SameDisk, SameStore, SameGames, SameJob, SameCopy, Over, ModeSet, PutResult
  <1>11. ASSUME Unlink(Changer)
        PROVE  PassJob'
    BY <1>11, UnlinkResult, KindEntries, TwoThreads DEF Control, PassJob, MirrorPcs, Working,
       Others, SameDisk, SameStore, SameGames, SameJob, SameCopy, Over, ModeSet, PutResult
  <1>12. ASSUME Restore(Changer)
        PROVE  PassJob'
    BY <1>12, RestoreResult, KindEntries, TwoThreads DEF Control, PassJob, MirrorPcs, Working,
       Others, SameDisk, SameStore, SameGames, SameJob, SameCopy, Over, ModeSet, PutResult
  <1>13. ASSUME Detached(Changer)
        PROVE  PassJob'
    BY <1>13, DetachedEffect, KindEntries, TwoThreads DEF Control, PassJob, MirrorPcs,
       Working, Others, SameDisk, SameStore, SameGames, SameJob, SameCopy, Over, ModeSet,
       PutResult
  <1>14. ASSUME Move(Changer)
        PROVE  PassJob'
    BY <1>14, MoveEffect, KindEntries, TwoThreads DEF Control, PassJob, MirrorPcs, Working,
       Others, SameDisk, SameStore, SameGames, SameJob, SameCopy, Over, ModeSet, PutResult
  <1>15. ASSUME PlaceBack(Changer)
        PROVE  PassJob'
    BY <1>15, PlaceBackResult, KindEntries, TwoThreads DEF Control, PassJob, MirrorPcs,
       Working, Others, SameDisk, SameStore, SameGames, SameJob, SameCopy, Over, ModeSet,
       PutResult
  <1>16. ASSUME Place(Changer)
        PROVE  PassJob'
    BY <1>16, PlaceResult, KindEntries, TwoThreads DEF Control, PassJob, MirrorPcs, Working,
       Others, SameDisk, SameStore, SameGames, SameJob, SameCopy, Over, ModeSet, PutResult
  <1>17. ASSUME Placed(Changer)
        PROVE  PassJob'
    BY <1>17, PlacedEffect, KindEntries, TwoThreads DEF Control, PassJob, MirrorPcs, Working,
       Others, SameDisk, SameStore, SameGames, SameJob, SameCopy, Over, ModeSet, PutResult
  <1>18. ASSUME Reply(Changer)
        PROVE  PassJob'
    BY <1>18, ReplyEffect, KindEntries, TwoThreads DEF Control, PassJob, MirrorPcs, Working,
       Others, SameDisk, SameStore, SameGames, SameJob, SameCopy, Over, ModeSet, PutResult
  <1>19. ASSUME NEW i \in Instances, StartGame(i)
        PROVE  PassJob'
    BY <1>19, GameEffects, KindEntries, TwoThreads DEF Control, PassJob, MirrorPcs, Working,
       Others, SameDisk, SameStore, SameGames, SameJob, SameCopy, Over, ModeSet, PutResult
  <1>20. ASSUME NEW i \in Instances, SaveGame(i)
        PROVE  PassJob'
    BY <1>20, SaveResult, KindEntries, TwoThreads DEF Control, PassJob, MirrorPcs, Working,
       Others, SameDisk, SameStore, SameGames, SameJob, SameCopy, Over, ModeSet, PutResult
  <1>21. ASSUME NEW i \in Instances, QuitGame(i)
        PROVE  PassJob'
    BY <1>21, GameEffects, KindEntries, TwoThreads DEF Control, PassJob, MirrorPcs, Working,
       Others, SameDisk, SameStore, SameGames, SameJob, SameCopy, Over, ModeSet, PutResult
  <1>22. ASSUME Crash
        PROVE  PassJob'
    BY <1>22, CrashEffect, KindEntries, TwoThreads DEF Control, PassJob, MirrorPcs, Working,
       Others, SameDisk, SameStore, SameGames, SameJob, SameCopy, Over, ModeSet, PutResult
  <1>23. ASSUME NEW t \in Threads, Filling(t)
        PROVE  PassJob'
    BY <1>23, FillEffect, KindEntries, TwoThreads DEF Control, PassJob, MirrorPcs, Working,
       Others, SameDisk, SameStore, SameGames, SameJob, SameCopy, Over, ModeSet, PutResult
  <1> QED
    BY <1>1, <1>2, <1>3, <1>4, <1>5, <1>6, <1>7, <1>8, <1>9, <1>10, <1>11, <1>12, <1>13,
       <1>14, <1>15, <1>16, <1>17, <1>18, <1>19, <1>20, <1>21, <1>22, <1>23 DEF Next, Step, Filling

\* An enable is under way only before the world is listed.
LEMMA EnablingStep ==
    ASSUME WorldTyped, Control, Next
    PROVE  Enabling'
  <1>1. ASSUME StartPass
        PROVE  Enabling'
    BY <1>1, StartPassEffect, KindEntries, TwoThreads DEF Control, Enabling, Changing,
       Unsynced, Working, IsLink, IsDir, Others, SameDisk, SameStore, SameGames, SameJob,
       SameCopy, Over, ModeSet, PutResult
  <1>2. ASSUME NEW wanted \in SUBSET Instances, StartChange(wanted)
        PROVE  Enabling'
    BY <1>2, StartChangeEffect, KindEntries, TwoThreads DEF Control, Enabling, Changing,
       Unsynced, Working, IsLink, IsDir, Others, SameDisk, SameStore, SameGames, SameJob,
       SameCopy, Over, ModeSet, PutResult
  <1>3. ASSUME NEW source \in Instances, NEW others \in SUBSET Instances, StartEnable(source, others)
        PROVE  Enabling'
    BY <1>3, StartEnableEffect, KindEntries, TwoThreads DEF Control, Enabling, Changing,
       Unsynced, Working, IsLink, IsDir, Others, SameDisk, SameStore, SameGames, SameJob,
       SameCopy, Over, ModeSet, PutResult
  <1>4. ASSUME NEW t \in Threads, Survey(t)
        PROVE  Enabling'
    BY <1>4, SurveyEffect, KindEntries, TwoThreads DEF Control, Enabling, Changing, Unsynced,
       Working, IsLink, IsDir, Others, SameDisk, SameStore, SameGames, SameJob, SameCopy,
       Over, ModeSet, PutResult
  <1>5. ASSUME NEW t \in Threads, Compare(t)
        PROVE  Enabling'
    BY <1>5, CompareEffect, KindEntries, TwoThreads DEF Control, Enabling, Changing, Unsynced,
       Working, IsLink, IsDir, Others, SameDisk, SameStore, SameGames, SameJob, SameCopy,
       Over, ModeSet, PutResult
  <1>6. ASSUME NEW t \in Threads, Refresh(t)
        PROVE  Enabling'
    BY <1>6, RefreshEffect, KindEntries, TwoThreads DEF Control, Enabling, Changing, Unsynced,
       Working, IsLink, IsDir, Others, SameDisk, SameStore, SameGames, SameJob, SameCopy,
       Over, ModeSet, PutResult
  <1>7. ASSUME NEW t \in Threads, Mirrored(t)
        PROVE  Enabling'
    BY <1>7, MirroredEffect, KindEntries, TwoThreads DEF Control, Enabling, Changing,
       Unsynced, Working, IsLink, IsDir, Others, SameDisk, SameStore, SameGames, SameJob,
       SameCopy, Over, ModeSet, PutResult
  <1>8. ASSUME NEW t \in Threads, CopyToStaging(t)
        PROVE  Enabling'
    BY <1>8, CopyResult, KindEntries, TwoThreads DEF Control, Enabling, Changing, Unsynced,
       Working, IsLink, IsDir, Others, SameDisk, SameStore, SameGames, SameJob, SameCopy,
       Over, ModeSet, PutResult
  <1>9. ASSUME NEW t \in Threads, SwapOut(t)
        PROVE  Enabling'
    BY <1>9, SwapOutEffect, KindEntries, TwoThreads DEF Control, Enabling, Changing, Unsynced,
       Working, IsLink, IsDir, Others, SameDisk, SameStore, SameGames, SameJob, SameCopy,
       Over, ModeSet, PutResult
  <1>10. ASSUME NEW t \in Threads, SwapIn(t)
        PROVE  Enabling'
    BY <1>10, SwapInResult, KindEntries, TwoThreads DEF Control, Enabling, Changing, Unsynced,
       Working, IsLink, IsDir, Others, SameDisk, SameStore, SameGames, SameJob, SameCopy,
       Over, ModeSet, PutResult
  <1>11. ASSUME Unlink(Changer)
        PROVE  Enabling'
    BY <1>11, UnlinkResult, KindEntries, TwoThreads DEF Control, Enabling, Changing, Unsynced,
       Working, IsLink, IsDir, Others, SameDisk, SameStore, SameGames, SameJob, SameCopy,
       Over, ModeSet, PutResult
  <1>12. ASSUME Restore(Changer)
        PROVE  Enabling'
    BY <1>12, RestoreResult, KindEntries, TwoThreads DEF Control, Enabling, Changing,
       Unsynced, Working, IsLink, IsDir, Others, SameDisk, SameStore, SameGames, SameJob,
       SameCopy, Over, ModeSet, PutResult
  <1>13. ASSUME Detached(Changer)
        PROVE  Enabling'
    BY <1>13, DetachedEffect, KindEntries, TwoThreads DEF Control, Enabling, Changing,
       Unsynced, Working, IsLink, IsDir, Others, SameDisk, SameStore, SameGames, SameJob,
       SameCopy, Over, ModeSet, PutResult
  <1>14. ASSUME Move(Changer)
        PROVE  Enabling'
    BY <1>14, MoveEffect, KindEntries, TwoThreads DEF Control, Enabling, Changing, Unsynced,
       Working, IsLink, IsDir, Others, SameDisk, SameStore, SameGames, SameJob, SameCopy,
       Over, ModeSet, PutResult
  <1>15. ASSUME PlaceBack(Changer)
        PROVE  Enabling'
    BY <1>15, PlaceBackResult, KindEntries, TwoThreads DEF Control, Enabling, Changing,
       Unsynced, Working, IsLink, IsDir, Others, SameDisk, SameStore, SameGames, SameJob,
       SameCopy, Over, ModeSet, PutResult
  <1>16. ASSUME Place(Changer)
        PROVE  Enabling'
    BY <1>16, PlaceResult, KindEntries, TwoThreads DEF Control, Enabling, Changing, Unsynced,
       Working, IsLink, IsDir, Others, SameDisk, SameStore, SameGames, SameJob, SameCopy,
       Over, ModeSet, PutResult
  <1>17. ASSUME Placed(Changer)
        PROVE  Enabling'
    BY <1>17, PlacedEffect, KindEntries, TwoThreads DEF Control, Enabling, Changing, Unsynced,
       Working, IsLink, IsDir, Others, SameDisk, SameStore, SameGames, SameJob, SameCopy,
       Over, ModeSet, PutResult
  <1>18. ASSUME Reply(Changer)
        PROVE  Enabling'
    BY <1>18, ReplyEffect, KindEntries, TwoThreads DEF Control, Enabling, Changing, Unsynced,
       Working, IsLink, IsDir, Others, SameDisk, SameStore, SameGames, SameJob, SameCopy,
       Over, ModeSet, PutResult
  <1>19. ASSUME NEW i \in Instances, StartGame(i)
        PROVE  Enabling'
    BY <1>19, GameEffects, KindEntries, TwoThreads DEF Control, Enabling, Changing, Unsynced,
       Working, IsLink, IsDir, Others, SameDisk, SameStore, SameGames, SameJob, SameCopy,
       Over, ModeSet, PutResult
  <1>20. ASSUME NEW i \in Instances, SaveGame(i)
        PROVE  Enabling'
    BY <1>20, SaveResult, KindEntries, TwoThreads DEF Control, Enabling, Changing, Unsynced,
       Working, IsLink, IsDir, Others, SameDisk, SameStore, SameGames, SameJob, SameCopy,
       Over, ModeSet, PutResult
  <1>21. ASSUME NEW i \in Instances, QuitGame(i)
        PROVE  Enabling'
    BY <1>21, GameEffects, KindEntries, TwoThreads DEF Control, Enabling, Changing, Unsynced,
       Working, IsLink, IsDir, Others, SameDisk, SameStore, SameGames, SameJob, SameCopy,
       Over, ModeSet, PutResult
  <1>22. ASSUME Crash
        PROVE  Enabling'
    BY <1>22, CrashEffect, KindEntries, TwoThreads DEF Control, Enabling, Changing, Unsynced,
       Working, IsLink, IsDir, Others, SameDisk, SameStore, SameGames, SameJob, SameCopy,
       Over, ModeSet, PutResult
  <1>23. ASSUME NEW t \in Threads, Filling(t)
        PROVE  Enabling'
    BY <1>23, FillEffect, KindEntries, TwoThreads DEF Control, Enabling, Changing, Unsynced,
       Working, IsLink, IsDir, Others, SameDisk, SameStore, SameGames, SameJob, SameCopy,
       Over, ModeSet, PutResult
  <1> QED
    BY <1>1, <1>2, <1>3, <1>4, <1>5, <1>6, <1>7, <1>8, <1>9, <1>10, <1>11, <1>12, <1>13,
       <1>14, <1>15, <1>16, <1>17, <1>18, <1>19, <1>20, <1>21, <1>22, <1>23 DEF Next, Step, Filling

\* A change has a member at hand only where its phase says.
LEMMA ChangingStep ==
    ASSUME WorldTyped, Control, Next
    PROVE  Changing'
  <1>1. ASSUME StartPass
        PROVE  Changing'
    BY <1>1, StartPassEffect, KindEntries, TwoThreads DEF Control, Changing, Unsynced,
       Working, IsLink, IsDir, Members, Modes, Others, SameDisk, SameStore, SameGames,
       SameJob, SameCopy, Over, ModeSet, PutResult
  <1>2. ASSUME NEW wanted \in SUBSET Instances, StartChange(wanted)
        PROVE  Changing'
    BY <1>2, StartChangeEffect, KindEntries, TwoThreads DEF Control, Changing, Unsynced,
       Working, IsLink, IsDir, Members, Modes, Others, SameDisk, SameStore, SameGames,
       SameJob, SameCopy, Over, ModeSet, PutResult
  <1>3. ASSUME NEW source \in Instances, NEW others \in SUBSET Instances, StartEnable(source, others)
        PROVE  Changing'
    BY <1>3, StartEnableEffect, KindEntries, TwoThreads DEF Control, Changing, Unsynced,
       Working, IsLink, IsDir, Members, Modes, Others, SameDisk, SameStore, SameGames,
       SameJob, SameCopy, Over, ModeSet, PutResult
  <1>4. ASSUME NEW t \in Threads, Survey(t)
        PROVE  Changing'
    BY <1>4, SurveyEffect, KindEntries, TwoThreads DEF Control, Changing, Unsynced, Working,
       IsLink, IsDir, Members, Modes, Others, SameDisk, SameStore, SameGames, SameJob,
       SameCopy, Over, ModeSet, PutResult
  <1>5. ASSUME NEW t \in Threads, Compare(t)
        PROVE  Changing'
    BY <1>5, CompareEffect, KindEntries, TwoThreads DEF Control, Changing, Unsynced, Working,
       IsLink, IsDir, Members, Modes, Others, SameDisk, SameStore, SameGames, SameJob,
       SameCopy, Over, ModeSet, PutResult
  <1>6. ASSUME NEW t \in Threads, Refresh(t)
        PROVE  Changing'
    BY <1>6, RefreshEffect, KindEntries, TwoThreads DEF Control, Changing, Unsynced, Working,
       IsLink, IsDir, Members, Modes, Others, SameDisk, SameStore, SameGames, SameJob,
       SameCopy, Over, ModeSet, PutResult
  <1>7. ASSUME NEW t \in Threads, Mirrored(t)
        PROVE  Changing'
    BY <1>7, MirroredEffect, KindEntries, TwoThreads DEF Control, Changing, Unsynced, Working,
       IsLink, IsDir, Members, Modes, Others, SameDisk, SameStore, SameGames, SameJob,
       SameCopy, Over, ModeSet, PutResult
  <1>8. ASSUME NEW t \in Threads, CopyToStaging(t)
        PROVE  Changing'
    BY <1>8, CopyResult, KindEntries, TwoThreads DEF Control, Changing, Unsynced, Working,
       IsLink, IsDir, Members, Modes, Others, SameDisk, SameStore, SameGames, SameJob,
       SameCopy, Over, ModeSet, PutResult
  <1>9. ASSUME NEW t \in Threads, SwapOut(t)
        PROVE  Changing'
    BY <1>9, SwapOutEffect, KindEntries, TwoThreads DEF Control, Changing, Unsynced, Working,
       IsLink, IsDir, Members, Modes, Others, SameDisk, SameStore, SameGames, SameJob,
       SameCopy, Over, ModeSet, PutResult
  <1>10. ASSUME NEW t \in Threads, SwapIn(t)
        PROVE  Changing'
    BY <1>10, SwapInResult, KindEntries, TwoThreads DEF Control, Changing, Unsynced, Working,
       IsLink, IsDir, Members, Modes, Others, SameDisk, SameStore, SameGames, SameJob,
       SameCopy, Over, ModeSet, PutResult
  <1>11. ASSUME Unlink(Changer)
        PROVE  Changing'
    <2>1. PICK i \in thread[Changer].todo :
            /\ i \in Instances /\ ModeSet(i, "out")
            /\ thread'[Changer].todo = thread[Changer].todo \ {i}
            /\ \A p \in Places : p # i => disk'[p] = disk[p]
            /\ \/ /\ IsLink(i) /\ disk'[i].kind = "none"
                  /\ thread'[Changer].dst = i /\ thread'[Changer].pc = "restore"
               \/ /\ ~IsLink(i) /\ disk'[i] = disk[i]
                  /\ thread'[Changer].dst = Shared /\ thread'[Changer].pc = "detach"
      BY <1>11, UnlinkResult
    <2>2. /\ thread[Changer].pc = "detach" /\ thread'[Changer].job = thread[Changer].job
          /\ listed' = listed /\ members' = members
      BY <1>11, UnlinkResult DEF SameStore
    <2>3. thread[Changer].todo \subseteq Instances
      BY WorldTypes
    <2>4. \A j \in thread'[Changer].todo : thread'[Changer].mode[j] = members'[j]
      BY <2>1, <2>2, <2>3 DEF Control, Changing, Enabling, Working, ModeSet
    <2>5. thread[Changer].job = "disable" =>
            \A j \in Instances : thread'[Changer].mode[j] # "out" => j \in thread'[Changer].todo
      BY <2>1, <2>2, <2>3 DEF Control, Changing, Enabling, Working, ModeSet
    <2> QED
      BY <2>1, <2>2, <2>4, <2>5 DEF Control, Changing, Enabling, Working, ModeSet, IsLink
  <1>12. ASSUME Restore(Changer)
        PROVE  Changing'
    BY <1>12, RestoreResult, KindEntries, TwoThreads DEF Control, Changing, Unsynced, Working,
       IsLink, IsDir, Members, Modes, Others, SameDisk, SameStore, SameGames, SameJob,
       SameCopy, Over, ModeSet, PutResult
  <1>13. ASSUME Detached(Changer)
        PROVE  Changing'
    BY <1>13, DetachedEffect, KindEntries, TwoThreads DEF Control, Changing, Unsynced,
       Working, IsLink, IsDir, Members, Modes, Others, SameDisk, SameStore, SameGames,
       SameJob, SameCopy, Over, ModeSet, PutResult
  <1>14. ASSUME Move(Changer)
        PROVE  Changing'
    BY <1>14, MoveEffect, KindEntries, TwoThreads DEF Control, Changing, Unsynced, Working,
       IsLink, IsDir, Members, Modes, Others, SameDisk, SameStore, SameGames, SameJob,
       SameCopy, Over, ModeSet, PutResult
  <1>15. ASSUME PlaceBack(Changer)
        PROVE  Changing'
    BY <1>15, PlaceBackResult, KindEntries, TwoThreads DEF Control, Changing, Unsynced,
       Working, IsLink, IsDir, Members, Modes, Others, SameDisk, SameStore, SameGames,
       SameJob, SameCopy, Over, ModeSet, PutResult
  <1>16. ASSUME Place(Changer)
        PROVE  Changing'
    BY <1>16, PlaceResult, KindEntries, TwoThreads DEF Control, Changing, Unsynced, Working,
       IsLink, IsDir, Members, Modes, Others, SameDisk, SameStore, SameGames, SameJob,
       SameCopy, Over, ModeSet, PutResult
  <1>17. ASSUME Placed(Changer)
        PROVE  Changing'
    BY <1>17, PlacedEffect, KindEntries, TwoThreads DEF Control, Changing, Unsynced, Working,
       IsLink, IsDir, Members, Modes, Others, SameDisk, SameStore, SameGames, SameJob,
       SameCopy, Over, ModeSet, PutResult
  <1>18. ASSUME Reply(Changer)
        PROVE  Changing'
    BY <1>18, ReplyEffect, KindEntries, TwoThreads DEF Control, Changing, Unsynced, Working,
       IsLink, IsDir, Members, Modes, Others, SameDisk, SameStore, SameGames, SameJob,
       SameCopy, Over, ModeSet, PutResult
  <1>19. ASSUME NEW i \in Instances, StartGame(i)
        PROVE  Changing'
    BY <1>19, GameEffects, KindEntries, TwoThreads DEF Control, Changing, Unsynced, Working,
       IsLink, IsDir, Members, Modes, Others, SameDisk, SameStore, SameGames, SameJob,
       SameCopy, Over, ModeSet, PutResult
  <1>20. ASSUME NEW i \in Instances, SaveGame(i)
        PROVE  Changing'
    BY <1>20, SaveResult, KindEntries, TwoThreads DEF Control, Changing, Unsynced, Working,
       IsLink, IsDir, Members, Modes, Others, SameDisk, SameStore, SameGames, SameJob,
       SameCopy, Over, ModeSet, PutResult
  <1>21. ASSUME NEW i \in Instances, QuitGame(i)
        PROVE  Changing'
    BY <1>21, GameEffects, KindEntries, TwoThreads DEF Control, Changing, Unsynced, Working,
       IsLink, IsDir, Members, Modes, Others, SameDisk, SameStore, SameGames, SameJob,
       SameCopy, Over, ModeSet, PutResult
  <1>22. ASSUME Crash
        PROVE  Changing'
    BY <1>22, CrashEffect, KindEntries, TwoThreads DEF Control, Changing, Unsynced, Working,
       IsLink, IsDir, Members, Modes, Others, SameDisk, SameStore, SameGames, SameJob,
       SameCopy, Over, ModeSet, PutResult
  <1>23. ASSUME NEW t \in Threads, Filling(t)
        PROVE  Changing'
    BY <1>23, FillEffect, KindEntries, TwoThreads DEF Control, Changing, Unsynced, Working,
       IsLink, IsDir, Members, Modes, Others, SameDisk, SameStore, SameGames, SameJob,
       SameCopy, Over, ModeSet, PutResult
  <1> QED
    BY <1>1, <1>2, <1>3, <1>4, <1>5, <1>6, <1>7, <1>8, <1>9, <1>10, <1>11, <1>12, <1>13,
       <1>14, <1>15, <1>16, <1>17, <1>18, <1>19, <1>20, <1>21, <1>22, <1>23 DEF Next, Step, Filling

\* The members to be added are out, and no mirror becomes a link.
LEMMA AddingStep ==
    ASSUME WorldTyped, Control, Next
    PROVE  Adding'
  <1>1. ASSUME StartPass
        PROVE  Adding'
    BY <1>1, StartPassEffect, KindEntries, TwoThreads DEF Control, Adding, Enabling, Changing,
       Working, Members, Modes, Others, SameDisk, SameStore, SameGames, SameJob, SameCopy,
       Over, ModeSet, PutResult
  <1>2. ASSUME NEW wanted \in SUBSET Instances, StartChange(wanted)
        PROVE  Adding'
    BY <1>2, StartChangeEffect, KindEntries, TwoThreads DEF Control, Adding, Enabling,
       Changing, Working, Members, Modes, Others, SameDisk, SameStore, SameGames, SameJob,
       SameCopy, Over, ModeSet, PutResult
  <1>3. ASSUME NEW source \in Instances, NEW others \in SUBSET Instances, StartEnable(source, others)
        PROVE  Adding'
    BY <1>3, StartEnableEffect, TwoThreads DEF Control, Adding, Unsynced, Others, SameStore
  <1>4. ASSUME NEW t \in Threads, Survey(t)
        PROVE  Adding'
    BY <1>4, SurveyEffect, KindEntries, TwoThreads DEF Control, Adding, Enabling, Changing,
       Working, Members, Modes, Others, SameDisk, SameStore, SameGames, SameJob, SameCopy,
       Over, ModeSet, PutResult
  <1>5. ASSUME NEW t \in Threads, Compare(t)
        PROVE  Adding'
    BY <1>5, CompareEffect, KindEntries, TwoThreads DEF Control, Adding, Enabling, Changing,
       Working, Members, Modes, Others, SameDisk, SameStore, SameGames, SameJob, SameCopy,
       Over, ModeSet, PutResult
  <1>6. ASSUME NEW t \in Threads, Refresh(t)
        PROVE  Adding'
    BY <1>6, RefreshEffect, KindEntries, TwoThreads DEF Control, Adding, Enabling, Changing,
       Working, Members, Modes, Others, SameDisk, SameStore, SameGames, SameJob, SameCopy,
       Over, ModeSet, PutResult
  <1>7. ASSUME NEW t \in Threads, Mirrored(t)
        PROVE  Adding'
    BY <1>7, MirroredEffect, KindEntries, TwoThreads DEF Control, Adding, Enabling, Changing,
       Working, Members, Modes, Others, SameDisk, SameStore, SameGames, SameJob, SameCopy,
       Over, ModeSet, PutResult
  <1>8. ASSUME NEW t \in Threads, CopyToStaging(t)
        PROVE  Adding'
    BY <1>8, CopyResult, KindEntries, TwoThreads DEF Control, Adding, Enabling, Changing,
       Working, Members, Modes, Others, SameDisk, SameStore, SameGames, SameJob, SameCopy,
       Over, ModeSet, PutResult
  <1>9. ASSUME NEW t \in Threads, SwapOut(t)
        PROVE  Adding'
    BY <1>9, SwapOutEffect, KindEntries, TwoThreads DEF Control, Adding, Enabling, Changing,
       Working, Members, Modes, Others, SameDisk, SameStore, SameGames, SameJob, SameCopy,
       Over, ModeSet, PutResult
  <1>10. ASSUME NEW t \in Threads, SwapIn(t)
        PROVE  Adding'
    BY <1>10, SwapInResult, KindEntries, TwoThreads DEF Control, Adding, Enabling, Changing,
       Working, Members, Modes, Others, SameDisk, SameStore, SameGames, SameJob, SameCopy,
       Over, ModeSet, PutResult
  <1>11. ASSUME Unlink(Changer)
        PROVE  Adding'
    BY <1>11, UnlinkResult, KindEntries, TwoThreads DEF Control, Adding, Enabling, Changing,
       Working, Members, Modes, Others, SameDisk, SameStore, SameGames, SameJob, SameCopy,
       Over, ModeSet, PutResult
  <1>12. ASSUME Restore(Changer)
        PROVE  Adding'
    BY <1>12, RestoreResult, KindEntries, TwoThreads DEF Control, Adding, Enabling, Changing,
       Working, Members, Modes, Others, SameDisk, SameStore, SameGames, SameJob, SameCopy,
       Over, ModeSet, PutResult
  <1>13. ASSUME Detached(Changer)
        PROVE  Adding'
    BY <1>13, DetachedEffect, KindEntries, TwoThreads DEF Control, Adding, Enabling, Changing,
       Working, Members, Modes, Others, SameDisk, SameStore, SameGames, SameJob, SameCopy,
       Over, ModeSet, PutResult
  <1>14. ASSUME Move(Changer)
        PROVE  Adding'
    BY <1>14, MoveEffect, KindEntries, TwoThreads DEF Control, Adding, Enabling, Changing,
       Working, Members, Modes, Others, SameDisk, SameStore, SameGames, SameJob, SameCopy,
       Over, ModeSet, PutResult
  <1>15. ASSUME PlaceBack(Changer)
        PROVE  Adding'
    BY <1>15, PlaceBackResult, KindEntries, TwoThreads DEF Control, Adding, Enabling,
       Changing, Working, Members, Modes, Others, SameDisk, SameStore, SameGames, SameJob,
       SameCopy, Over, ModeSet, PutResult
  <1>16. ASSUME Place(Changer)
        PROVE  Adding'
    BY <1>16, PlaceResult, KindEntries, TwoThreads DEF Control, Adding, Enabling, Changing,
       Working, Members, Modes, Others, SameDisk, SameStore, SameGames, SameJob, SameCopy,
       Over, ModeSet, PutResult
  <1>17. ASSUME Placed(Changer)
        PROVE  Adding'
    BY <1>17, PlacedEffect, KindEntries, TwoThreads DEF Control, Adding, Enabling, Changing,
       Working, Members, Modes, Others, SameDisk, SameStore, SameGames, SameJob, SameCopy,
       Over, ModeSet, PutResult
  <1>18. ASSUME Reply(Changer)
        PROVE  Adding'
    BY <1>18, ReplyEffect, KindEntries, TwoThreads DEF Control, Adding, Enabling, Changing,
       Working, Members, Modes, Others, SameDisk, SameStore, SameGames, SameJob, SameCopy,
       Over, ModeSet, PutResult
  <1>19. ASSUME NEW i \in Instances, StartGame(i)
        PROVE  Adding'
    BY <1>19, GameEffects, KindEntries, TwoThreads DEF Control, Adding, Enabling, Changing,
       Working, Members, Modes, Others, SameDisk, SameStore, SameGames, SameJob, SameCopy,
       Over, ModeSet, PutResult
  <1>20. ASSUME NEW i \in Instances, SaveGame(i)
        PROVE  Adding'
    BY <1>20, SaveResult, KindEntries, TwoThreads DEF Control, Adding, Enabling, Changing,
       Working, Members, Modes, Others, SameDisk, SameStore, SameGames, SameJob, SameCopy,
       Over, ModeSet, PutResult
  <1>21. ASSUME NEW i \in Instances, QuitGame(i)
        PROVE  Adding'
    BY <1>21, GameEffects, KindEntries, TwoThreads DEF Control, Adding, Enabling, Changing,
       Working, Members, Modes, Others, SameDisk, SameStore, SameGames, SameJob, SameCopy,
       Over, ModeSet, PutResult
  <1>22. ASSUME Crash
        PROVE  Adding'
    BY <1>22, CrashEffect, KindEntries, TwoThreads DEF Control, Adding, Enabling, Changing,
       Working, Members, Modes, Others, SameDisk, SameStore, SameGames, SameJob, SameCopy,
       Over, ModeSet, PutResult
  <1>23. ASSUME NEW t \in Threads, Filling(t)
        PROVE  Adding'
    BY <1>23, FillEffect, KindEntries, TwoThreads DEF Control, Adding, Enabling, Changing,
       Working, Members, Modes, Others, SameDisk, SameStore, SameGames, SameJob, SameCopy,
       Over, ModeSet, PutResult
  <1> QED
    BY <1>1, <1>2, <1>3, <1>4, <1>5, <1>6, <1>7, <1>8, <1>9, <1>10, <1>11, <1>12, <1>13,
       <1>14, <1>15, <1>16, <1>17, <1>18, <1>19, <1>20, <1>21, <1>22, <1>23 DEF Next, Step, Filling

\* The control of both threads is as the code lays it out.
LEMMA ControlStep ==
    ASSUME WorldTyped, Control, Next
    PROVE  Control'
  BY SharedStep, UnsyncedStep, MirrorsStep, PassJobStep, EnablingStep, ChangingStep, AddingStep
  DEF Control

-----------------------------------------------------------------------------
(* What the history rules out.                                              *)

\* Failures are never taken back.
LEMMA FailuresGrow ==
    ASSUME WorldTyped, Next
    PROVE  failures' = failures \/ failures' = failures + 1
  <1>1. ASSUME StartPass
        PROVE  failures' = failures \/ failures' = failures + 1
    BY <1>1, StartPassEffect
  <1>2. ASSUME NEW wanted \in SUBSET Instances, StartChange(wanted)
        PROVE  failures' = failures \/ failures' = failures + 1
    BY <1>2, StartChangeEffect
  <1>3. ASSUME NEW source \in Instances, NEW others \in SUBSET Instances, StartEnable(source, others)
        PROVE  failures' = failures \/ failures' = failures + 1
    BY <1>3, StartEnableEffect
  <1>4. ASSUME NEW t \in Threads, Survey(t)
        PROVE  failures' = failures \/ failures' = failures + 1
    BY <1>4, SurveyEffect
  <1>5. ASSUME NEW t \in Threads, Compare(t)
        PROVE  failures' = failures \/ failures' = failures + 1
    BY <1>5, CompareEffect
  <1>6. ASSUME NEW t \in Threads, Refresh(t)
        PROVE  failures' = failures \/ failures' = failures + 1
    BY <1>6, RefreshEffect
  <1>7. ASSUME NEW t \in Threads, Mirrored(t)
        PROVE  failures' = failures \/ failures' = failures + 1
    BY <1>7, MirroredEffect
  <1>8. ASSUME NEW t \in Threads, CopyToStaging(t)
        PROVE  failures' = failures \/ failures' = failures + 1
    BY <1>8, CopyResult
  <1>9. ASSUME NEW t \in Threads, SwapOut(t)
        PROVE  failures' = failures \/ failures' = failures + 1
    BY <1>9, SwapOutEffect
  <1>10. ASSUME NEW t \in Threads, SwapIn(t)
        PROVE  failures' = failures \/ failures' = failures + 1
    BY <1>10, SwapInResult
  <1>11. ASSUME Unlink(Changer)
        PROVE  failures' = failures \/ failures' = failures + 1
    BY <1>11, UnlinkResult
  <1>12. ASSUME Restore(Changer)
        PROVE  failures' = failures \/ failures' = failures + 1
    BY <1>12, RestoreResult
  <1>13. ASSUME Detached(Changer)
        PROVE  failures' = failures \/ failures' = failures + 1
    BY <1>13, DetachedEffect
  <1>14. ASSUME Move(Changer)
        PROVE  failures' = failures \/ failures' = failures + 1
    BY <1>14, MoveEffect
  <1>15. ASSUME PlaceBack(Changer)
        PROVE  failures' = failures \/ failures' = failures + 1
    BY <1>15, PlaceBackResult
  <1>16. ASSUME Place(Changer)
        PROVE  failures' = failures \/ failures' = failures + 1
    BY <1>16, PlaceResult
  <1>17. ASSUME Placed(Changer)
        PROVE  failures' = failures \/ failures' = failures + 1
    BY <1>17, PlacedEffect
  <1>18. ASSUME Reply(Changer)
        PROVE  failures' = failures \/ failures' = failures + 1
    BY <1>18, ReplyEffect
  <1>19. ASSUME NEW i \in Instances, StartGame(i)
        PROVE  failures' = failures \/ failures' = failures + 1
    BY <1>19, GameEffects
  <1>20. ASSUME NEW i \in Instances, SaveGame(i)
        PROVE  failures' = failures \/ failures' = failures + 1
    BY <1>20, SaveResult
  <1>21. ASSUME NEW i \in Instances, QuitGame(i)
        PROVE  failures' = failures \/ failures' = failures + 1
    BY <1>21, GameEffects
  <1>22. ASSUME Crash
        PROVE  failures' = failures \/ failures' = failures + 1
    BY <1>22, CrashEffect
  <1>23. ASSUME NEW t \in Threads, Filling(t)
        PROVE  failures' = failures \/ failures' = failures + 1
    BY <1>23, FillEffect
  <1> QED
    BY <1>1, <1>2, <1>3, <1>4, <1>5, <1>6, <1>7, <1>8, <1>9, <1>10, <1>11, <1>12, <1>13,
       <1>14, <1>15, <1>16, <1>17, <1>18, <1>19, <1>20, <1>21, <1>22, <1>23 DEF Next, Step, Filling

\* Trouble is never forgotten, so what it rules out later it ruled out before.
LEMMA Past ==
    ASSUME WorldTyped, Next
    PROVE  /\ trouble \subseteq trouble'
           /\ failures' = 0 => failures = 0
           /\ "wait" \notin trouble' => \E t \in Threads : thread'[t].pc = "idle"
           /\ "overlap" \notin trouble' => \E t \in Threads : thread'[t].pc \in {"idle", "survey"}
           /\ "clash" \notin trouble' => ~Clash
           /\ "late save" \notin trouble' => ~LateSave
           /\ "again" \notin trouble' => ~Again
           /\ "abandoned" \notin trouble' => ~Abandon
           /\ Judged' => Judged
  <1>1. /\ trouble \subseteq trouble'
        /\ "wait" \notin trouble' => AtWork' # Threads
        /\ "overlap" \notin trouble' => Engaged' # Threads
        /\ "clash" \notin trouble' => ~Clash
        /\ "late save" \notin trouble' => ~LateSave
        /\ "again" \notin trouble' => ~Again
        /\ "abandoned" \notin trouble' => ~Abandon
    BY DEF Next
  <1>2. failures' = 0 => failures = 0
    <2>1. failures \in Nat
      BY DEF WorldTyped, StoreTyped
    <2> QED
      BY <2>1, FailuresGrow
  <1>3. /\ AtWork' # Threads => \E t \in Threads : thread'[t].pc = "idle"
        /\ Engaged' # Threads => \E t \in Threads : thread'[t].pc \in {"idle", "survey"}
    BY DEF AtWork, Engaged
  <1>4. Judged' => Judged
    BY <1>1, <1>2 DEF Judged, Calm
  <1> QED
    BY <1>1, <1>2, <1>3, <1>4

\* Unless jobs have overlapped, one thread works at a time.
LEMMA AloneStep ==
    ASSUME WorldTyped, Control, Alone, Next
    PROVE  Alone'
  <1>0. /\ "wait" \notin trouble' => \E t \in Threads : thread'[t].pc = "idle"
        /\ "overlap" \notin trouble' =>
              "overlap" \notin trouble /\ \E t \in Threads : thread'[t].pc \in {"idle", "survey"}
    BY Past
  <1>1. ASSUME StartPass
        PROVE  Alone'
    BY <1>0, <1>1, StartPassEffect, TwoThreads DEF Alone, Waits, Working, Others, SameDisk,
       SameStore, SameGames, SameJob, SameCopy, Over, PutResult
  <1>2. ASSUME NEW wanted \in SUBSET Instances, StartChange(wanted)
        PROVE  Alone'
    BY <1>0, <1>2, StartChangeEffect, TwoThreads DEF Alone, Waits, Working, Others, SameDisk,
       SameStore, SameGames, SameJob, SameCopy, Over, PutResult
  <1>3. ASSUME NEW source \in Instances, NEW others \in SUBSET Instances, StartEnable(source, others)
        PROVE  Alone'
    BY <1>0, <1>3, StartEnableEffect, TwoThreads DEF Alone, Waits, Working, Others, SameDisk,
       SameStore, SameGames, SameJob, SameCopy, Over, PutResult
  <1>4. ASSUME NEW t \in Threads, Survey(t)
        PROVE  Alone'
    BY <1>0, <1>4, SurveyEffect, TwoThreads DEF Alone, Waits, Working, Others, SameDisk, SameStore,
       SameGames, SameJob, SameCopy, Over, PutResult
  <1>5. ASSUME NEW t \in Threads, Compare(t)
        PROVE  Alone'
    BY <1>0, <1>5, CompareEffect, TwoThreads DEF Alone, Waits, Working, Others, SameDisk, SameStore,
       SameGames, SameJob, SameCopy, Over, PutResult
  <1>6. ASSUME NEW t \in Threads, Refresh(t)
        PROVE  Alone'
    BY <1>0, <1>6, RefreshEffect, TwoThreads DEF Alone, Waits, Working, Others, SameDisk, SameStore,
       SameGames, SameJob, SameCopy, Over, PutResult
  <1>7. ASSUME NEW t \in Threads, Mirrored(t)
        PROVE  Alone'
    BY <1>0, <1>7, MirroredEffect, TwoThreads DEF Alone, Waits, Working, Others, SameDisk, SameStore,
       SameGames, SameJob, SameCopy, Over, PutResult
  <1>8. ASSUME NEW t \in Threads, CopyToStaging(t)
        PROVE  Alone'
    BY <1>0, <1>8, CopyResult, TwoThreads DEF Alone, Waits, Working, Others, SameDisk, SameStore,
       SameGames, SameJob, SameCopy, Over, PutResult
  <1>9. ASSUME NEW t \in Threads, SwapOut(t)
        PROVE  Alone'
    BY <1>0, <1>9, SwapOutEffect, TwoThreads DEF Alone, Waits, Working, Others, SameDisk, SameStore,
       SameGames, SameJob, SameCopy, Over, PutResult
  <1>10. ASSUME NEW t \in Threads, SwapIn(t)
        PROVE  Alone'
    BY <1>0, <1>10, SwapInResult, TwoThreads DEF Alone, Waits, Working, Others, SameDisk, SameStore,
       SameGames, SameJob, SameCopy, Over, PutResult
  <1>11. ASSUME Unlink(Changer)
        PROVE  Alone'
    BY <1>0, <1>11, UnlinkResult, TwoThreads DEF Alone, Waits, Working, Others, SameDisk, SameStore,
       SameGames, SameJob, SameCopy, Over, PutResult
  <1>12. ASSUME Restore(Changer)
        PROVE  Alone'
    BY <1>0, <1>12, RestoreResult, TwoThreads DEF Alone, Waits, Working, Others, SameDisk, SameStore,
       SameGames, SameJob, SameCopy, Over, PutResult
  <1>13. ASSUME Detached(Changer)
        PROVE  Alone'
    BY <1>0, <1>13, DetachedEffect, TwoThreads DEF Alone, Waits, Working, Others, SameDisk,
       SameStore, SameGames, SameJob, SameCopy, Over, PutResult
  <1>14. ASSUME Move(Changer)
        PROVE  Alone'
    BY <1>0, <1>14, MoveEffect, TwoThreads DEF Alone, Waits, Working, Others, SameDisk, SameStore,
       SameGames, SameJob, SameCopy, Over, PutResult
  <1>15. ASSUME PlaceBack(Changer)
        PROVE  Alone'
    BY <1>0, <1>15, PlaceBackResult, TwoThreads DEF Alone, Waits, Working, Others, SameDisk,
       SameStore, SameGames, SameJob, SameCopy, Over, PutResult
  <1>16. ASSUME Place(Changer)
        PROVE  Alone'
    BY <1>0, <1>16, PlaceResult, TwoThreads DEF Alone, Waits, Working, Others, SameDisk, SameStore,
       SameGames, SameJob, SameCopy, Over, PutResult
  <1>17. ASSUME Placed(Changer)
        PROVE  Alone'
    BY <1>0, <1>17, PlacedEffect, TwoThreads DEF Alone, Waits, Working, Others, SameDisk, SameStore,
       SameGames, SameJob, SameCopy, Over, PutResult
  <1>18. ASSUME Reply(Changer)
        PROVE  Alone'
    BY <1>0, <1>18, ReplyEffect, TwoThreads DEF Alone, Waits, Working, Others, SameDisk, SameStore,
       SameGames, SameJob, SameCopy, Over, PutResult
  <1>19. ASSUME NEW i \in Instances, StartGame(i)
        PROVE  Alone'
    BY <1>0, <1>19, GameEffects, TwoThreads DEF Alone, Waits, Working, Others, SameDisk, SameStore,
       SameGames, SameJob, SameCopy, Over, PutResult
  <1>20. ASSUME NEW i \in Instances, SaveGame(i)
        PROVE  Alone'
    BY <1>0, <1>20, SaveResult, TwoThreads DEF Alone, Waits, Working, Others, SameDisk, SameStore,
       SameGames, SameJob, SameCopy, Over, PutResult
  <1>21. ASSUME NEW i \in Instances, QuitGame(i)
        PROVE  Alone'
    BY <1>0, <1>21, GameEffects, TwoThreads DEF Alone, Waits, Working, Others, SameDisk, SameStore,
       SameGames, SameJob, SameCopy, Over, PutResult
  <1>22. ASSUME Crash
        PROVE  Alone'
    BY <1>0, <1>22, CrashEffect, TwoThreads DEF Alone, Waits, Working, Others, SameDisk, SameStore,
       SameGames, SameJob, SameCopy, Over, PutResult
  <1>23. ASSUME NEW t \in Threads, Filling(t)
        PROVE  Alone'
    BY <1>0, <1>23, FillEffect, TwoThreads DEF Alone, Waits, Working, Others, SameDisk, SameStore,
       SameGames, SameJob, SameCopy
  <1> QED
    BY <1>1, <1>2, <1>3, <1>4, <1>5, <1>6, <1>7, <1>8, <1>9, <1>10, <1>11, <1>12, <1>13,
       <1>14, <1>15, <1>16, <1>17, <1>18, <1>19, <1>20, <1>21, <1>22, <1>23 DEF Next, Step, Filling

\* A link on disk is a member's, or of a change under way.
LEMMA LinksAreKnownStep ==
    ASSUME WorldTyped, Control, LinksAreKnown, Next
    PROVE  LinksAreKnown'
  <1>0. "abandoned" \notin trouble' => "abandoned" \notin trouble /\ ~Abandon
    BY Past
  <1>1. ASSUME StartPass
        PROVE  LinksAreKnown'
    BY <1>0, <1>1, StartPassEffect, KindEntries, TwoThreads DEF Control, Changing, Enabling,
       Unsynced, LinksAreKnown, Working, IsLink, IsDir, Abandon, Others, SameDisk, SameStore,
       SameGames, SameJob, SameCopy, Over, ModeSet, PutResult
  <1>2. ASSUME NEW wanted \in SUBSET Instances, StartChange(wanted)
        PROVE  LinksAreKnown'
    BY <1>0, <1>2, StartChangeEffect, KindEntries, TwoThreads DEF Control, Changing, Enabling,
       Unsynced, LinksAreKnown, Working, IsLink, IsDir, Abandon, Others, SameDisk, SameStore,
       SameGames, SameJob, SameCopy, Over, ModeSet, PutResult
  <1>3. ASSUME NEW source \in Instances, NEW others \in SUBSET Instances, StartEnable(source, others)
        PROVE  LinksAreKnown'
    BY <1>0, <1>3, StartEnableEffect, KindEntries, TwoThreads DEF Control, Changing, Enabling,
       Unsynced, LinksAreKnown, Working, IsLink, IsDir, Abandon, Others, SameDisk, SameStore,
       SameGames, SameJob, SameCopy, Over, ModeSet, PutResult
  <1>4. ASSUME NEW t \in Threads, Survey(t)
        PROVE  LinksAreKnown'
    BY <1>0, <1>4, SurveyEffect, KindEntries, TwoThreads DEF Control, Changing, Enabling,
       Unsynced, LinksAreKnown, Working, IsLink, IsDir, Abandon, Others, SameDisk, SameStore,
       SameGames, SameJob, SameCopy, Over, ModeSet, PutResult
  <1>5. ASSUME NEW t \in Threads, Compare(t)
        PROVE  LinksAreKnown'
    BY <1>0, <1>5, CompareEffect, KindEntries, TwoThreads DEF Control, Changing, Enabling,
       Unsynced, LinksAreKnown, Working, IsLink, IsDir, Abandon, Others, SameDisk, SameStore,
       SameGames, SameJob, SameCopy, Over, ModeSet, PutResult
  <1>6. ASSUME NEW t \in Threads, Refresh(t)
        PROVE  LinksAreKnown'
    BY <1>0, <1>6, RefreshEffect, KindEntries, TwoThreads DEF Control, Changing, Enabling,
       Unsynced, LinksAreKnown, Working, IsLink, IsDir, Abandon, Others, SameDisk, SameStore,
       SameGames, SameJob, SameCopy, Over, ModeSet, PutResult
  <1>7. ASSUME NEW t \in Threads, Mirrored(t)
        PROVE  LinksAreKnown'
    BY <1>0, <1>7, MirroredEffect, KindEntries, TwoThreads DEF Control, Changing, Enabling,
       Unsynced, LinksAreKnown, Working, IsLink, IsDir, Abandon, Others, SameDisk, SameStore,
       SameGames, SameJob, SameCopy, Over, ModeSet, PutResult
  <1>8. ASSUME NEW t \in Threads, CopyToStaging(t)
        PROVE  LinksAreKnown'
    BY <1>0, <1>8, CopyResult, KindEntries, TwoThreads DEF Control, Changing, Enabling,
       Unsynced, LinksAreKnown, Working, IsLink, IsDir, Abandon, Others, SameDisk, SameStore,
       SameGames, SameJob, SameCopy, Over, ModeSet, PutResult
  <1>9. ASSUME NEW t \in Threads, SwapOut(t)
        PROVE  LinksAreKnown'
    BY <1>0, <1>9, SwapOutEffect, KindEntries, TwoThreads DEF Control, Changing, Enabling,
       Unsynced, LinksAreKnown, Working, IsLink, IsDir, Abandon, Others, SameDisk, SameStore,
       SameGames, SameJob, SameCopy, Over, ModeSet, PutResult
  <1>10. ASSUME NEW t \in Threads, SwapIn(t)
        PROVE  LinksAreKnown'
    BY <1>0, <1>10, SwapInResult, KindEntries, TwoThreads DEF Control, Changing, Enabling,
       Unsynced, LinksAreKnown, Working, IsLink, IsDir, Abandon, Others, SameDisk, SameStore,
       SameGames, SameJob, SameCopy, Over, ModeSet, PutResult
  <1>11. ASSUME Unlink(Changer)
        PROVE  LinksAreKnown'
    BY <1>0, <1>11, UnlinkResult, KindEntries, TwoThreads DEF Control, Changing, Enabling,
       Unsynced, LinksAreKnown, Working, IsLink, IsDir, Abandon, Others, SameDisk, SameStore,
       SameGames, SameJob, SameCopy, Over, ModeSet, PutResult
  <1>12. ASSUME Restore(Changer)
        PROVE  LinksAreKnown'
    BY <1>0, <1>12, RestoreResult, KindEntries, TwoThreads DEF Control, Changing, Enabling,
       Unsynced, LinksAreKnown, Working, IsLink, IsDir, Abandon, Others, SameDisk, SameStore,
       SameGames, SameJob, SameCopy, Over, ModeSet, PutResult
  <1>13. ASSUME Detached(Changer)
        PROVE  LinksAreKnown'
    BY <1>0, <1>13, DetachedEffect, KindEntries, TwoThreads DEF Control, Changing, Enabling,
       Unsynced, LinksAreKnown, Working, IsLink, IsDir, Abandon, Others, SameDisk, SameStore,
       SameGames, SameJob, SameCopy, Over, ModeSet, PutResult
  <1>14. ASSUME Move(Changer)
        PROVE  LinksAreKnown'
    BY <1>0, <1>14, MoveEffect, KindEntries, TwoThreads DEF Control, Changing, Enabling,
       Unsynced, LinksAreKnown, Working, IsLink, IsDir, Abandon, Others, SameDisk, SameStore,
       SameGames, SameJob, SameCopy, Over, ModeSet, PutResult
  <1>15. ASSUME PlaceBack(Changer)
        PROVE  LinksAreKnown'
    BY <1>0, <1>15, PlaceBackResult, KindEntries, TwoThreads DEF Control, Changing, Enabling,
       Unsynced, LinksAreKnown, Working, IsLink, IsDir, Abandon, Others, SameDisk, SameStore,
       SameGames, SameJob, SameCopy, Over, ModeSet, PutResult
  <1>16. ASSUME Place(Changer)
        PROVE  LinksAreKnown'
    BY <1>0, <1>16, PlaceResult, KindEntries, TwoThreads DEF Control, Changing, Enabling,
       Unsynced, LinksAreKnown, Working, IsLink, IsDir, Abandon, Others, SameDisk, SameStore,
       SameGames, SameJob, SameCopy, Over, ModeSet, PutResult
  <1>17. ASSUME Placed(Changer)
        PROVE  LinksAreKnown'
    BY <1>0, <1>17, PlacedEffect, KindEntries, TwoThreads DEF Control, Changing, Enabling,
       Unsynced, LinksAreKnown, Working, IsLink, IsDir, Abandon, Others, SameDisk, SameStore,
       SameGames, SameJob, SameCopy, Over, ModeSet, PutResult
  <1>18. ASSUME Reply(Changer)
        PROVE  LinksAreKnown'
    BY <1>0, <1>18, ReplyEffect, KindEntries, TwoThreads DEF Control, Changing, Enabling,
       Unsynced, LinksAreKnown, Working, IsLink, IsDir, Abandon, Others, SameDisk, SameStore,
       SameGames, SameJob, SameCopy, Over, ModeSet, PutResult
  <1>19. ASSUME NEW i \in Instances, StartGame(i)
        PROVE  LinksAreKnown'
    BY <1>0, <1>19, GameEffects, KindEntries, TwoThreads DEF Control, Changing, Enabling,
       Unsynced, LinksAreKnown, Working, IsLink, IsDir, Abandon, Others, SameDisk, SameStore,
       SameGames, SameJob, SameCopy, Over, ModeSet, PutResult
  <1>20. ASSUME NEW i \in Instances, SaveGame(i)
        PROVE  LinksAreKnown'
    BY <1>0, <1>20, SaveResult, KindEntries, TwoThreads DEF Control, Changing, Enabling,
       Unsynced, LinksAreKnown, Working, IsLink, IsDir, Abandon, Others, SameDisk, SameStore,
       SameGames, SameJob, SameCopy, Over, ModeSet, PutResult
  <1>21. ASSUME NEW i \in Instances, QuitGame(i)
        PROVE  LinksAreKnown'
    BY <1>0, <1>21, GameEffects, KindEntries, TwoThreads DEF Control, Changing, Enabling,
       Unsynced, LinksAreKnown, Working, IsLink, IsDir, Abandon, Others, SameDisk, SameStore,
       SameGames, SameJob, SameCopy, Over, ModeSet, PutResult
  <1>22. ASSUME Crash
        PROVE  LinksAreKnown'
    <2>1. failures' # failures
      <3>1. failures \in Nat
        BY DEF WorldTyped, StoreTyped
      <3> QED
        BY <1>22, <3>1, CrashEffect
    <2> QED
      BY <1>0, <1>22, <2>1, CrashEffect, TwoThreads DEF LinksAreKnown, Working, IsLink,
         Abandon, SameDisk, SameStore
  <1>23. ASSUME NEW t \in Threads, Filling(t)
        PROVE  LinksAreKnown'
    BY <1>0, <1>23, FillEffect, KindEntries, TwoThreads DEF Control, Changing, Enabling,
       Unsynced, LinksAreKnown, Working, IsLink, IsDir, Abandon, Others, SameDisk, SameStore,
       SameGames, SameJob, SameCopy
  <1> QED
    BY <1>1, <1>2, <1>3, <1>4, <1>5, <1>6, <1>7, <1>8, <1>9, <1>10, <1>11, <1>12, <1>13,
       <1>14, <1>15, <1>16, <1>17, <1>18, <1>19, <1>20, <1>21, <1>22, <1>23 DEF Next, Step, Filling

\* A member that is recorded as linked has its link, or is being detached.
LEMMA LinksAreThereStep ==
    ASSUME WorldTyped, Control, Alone, LinksAreThere, Next
    PROVE  LinksAreThere'
  <1>0. Quiet' => Quiet /\ failures' = 0 /\ {"wait", "overlap"} \cap trouble = {} /\ ~Abandon
    BY Past DEF Quiet
  <1>f. failures + 1 # 0
    <2>1. failures \in Nat
      BY DEF WorldTyped, StoreTyped
    <2> QED
      BY <2>1
  <1>1. ASSUME StartPass
        PROVE  LinksAreThere'
    BY <1>0, <1>f, <1>1, StartPassEffect, KindEntries, TwoThreads DEF Control, Alone,
       Changing, Enabling, Mirrors, ReplacePcs, LinksAreThere, Working, NoChange, IsLink,
       IsDir, Abandon, Others, SameDisk, SameStore, SameGames, SameJob, SameCopy, Over,
       ModeSet, PutResult
  <1>2. ASSUME NEW wanted \in SUBSET Instances, StartChange(wanted)
        PROVE  LinksAreThere'
    BY <1>0, <1>f, <1>2, StartChangeEffect, KindEntries, TwoThreads DEF Control, Alone,
       Changing, Enabling, Mirrors, ReplacePcs, LinksAreThere, Working, NoChange, IsLink,
       IsDir, Abandon, Others, SameDisk, SameStore, SameGames, SameJob, SameCopy, Over,
       ModeSet, PutResult
  <1>3. ASSUME NEW source \in Instances, NEW others \in SUBSET Instances, StartEnable(source, others)
        PROVE  LinksAreThere'
    BY <1>0, <1>f, <1>3, StartEnableEffect, KindEntries, TwoThreads DEF Control, Alone,
       Changing, Enabling, Mirrors, ReplacePcs, LinksAreThere, Working, NoChange, IsLink,
       IsDir, Abandon, Others, SameDisk, SameStore, SameGames, SameJob, SameCopy, Over,
       ModeSet, PutResult
  <1>4. ASSUME NEW t \in Threads, Survey(t)
        PROVE  LinksAreThere'
    BY <1>0, <1>f, <1>4, SurveyEffect, KindEntries, TwoThreads DEF Control, Alone, Changing,
       Enabling, Mirrors, ReplacePcs, LinksAreThere, Working, NoChange, IsLink, IsDir,
       Abandon, Others, SameDisk, SameStore, SameGames, SameJob, SameCopy, Over, ModeSet,
       PutResult
  <1>5. ASSUME NEW t \in Threads, Compare(t)
        PROVE  LinksAreThere'
    BY <1>0, <1>f, <1>5, CompareEffect, KindEntries, TwoThreads DEF Control, Alone, Changing,
       Enabling, Mirrors, ReplacePcs, LinksAreThere, Working, NoChange, IsLink, IsDir,
       Abandon, Others, SameDisk, SameStore, SameGames, SameJob, SameCopy, Over, ModeSet,
       PutResult
  <1>6. ASSUME NEW t \in Threads, Refresh(t)
        PROVE  LinksAreThere'
    BY <1>0, <1>f, <1>6, RefreshEffect, KindEntries, TwoThreads DEF Control, Alone, Changing,
       Enabling, Mirrors, ReplacePcs, LinksAreThere, Working, NoChange, IsLink, IsDir,
       Abandon, Others, SameDisk, SameStore, SameGames, SameJob, SameCopy, Over, ModeSet,
       PutResult
  <1>7. ASSUME NEW t \in Threads, Mirrored(t)
        PROVE  LinksAreThere'
    BY <1>0, <1>f, <1>7, MirroredEffect, KindEntries, TwoThreads DEF Control, Alone, Changing,
       Enabling, Mirrors, ReplacePcs, LinksAreThere, Working, NoChange, IsLink, IsDir,
       Abandon, Others, SameDisk, SameStore, SameGames, SameJob, SameCopy, Over, ModeSet,
       PutResult
  <1>8. ASSUME NEW t \in Threads, CopyToStaging(t)
        PROVE  LinksAreThere'
    BY <1>0, <1>f, <1>8, CopyResult, KindEntries, TwoThreads DEF Control, Alone, Changing,
       Enabling, Mirrors, ReplacePcs, LinksAreThere, Working, NoChange, IsLink, IsDir,
       Abandon, Others, SameDisk, SameStore, SameGames, SameJob, SameCopy, Over, ModeSet,
       PutResult
  <1>9. ASSUME NEW t \in Threads, SwapOut(t)
        PROVE  LinksAreThere'
    BY <1>0, <1>f, <1>9, SwapOutEffect, KindEntries, TwoThreads DEF Control, Alone, Changing,
       Enabling, Mirrors, ReplacePcs, LinksAreThere, Working, NoChange, IsLink, IsDir,
       Abandon, Others, SameDisk, SameStore, SameGames, SameJob, SameCopy, Over, ModeSet,
       PutResult
  <1>10. ASSUME NEW t \in Threads, SwapIn(t)
        PROVE  LinksAreThere'
    BY <1>0, <1>f, <1>10, SwapInResult, KindEntries, TwoThreads DEF Control, Alone, Changing,
       Enabling, Mirrors, ReplacePcs, LinksAreThere, Working, NoChange, IsLink, IsDir,
       Abandon, Others, SameDisk, SameStore, SameGames, SameJob, SameCopy, Over, ModeSet,
       PutResult
  <1>11. ASSUME Unlink(Changer)
        PROVE  LinksAreThere'
    BY <1>0, <1>f, <1>11, UnlinkResult, KindEntries, TwoThreads DEF Control, Alone, Changing,
       Enabling, Mirrors, ReplacePcs, LinksAreThere, Working, NoChange, IsLink, IsDir,
       Abandon, Others, SameDisk, SameStore, SameGames, SameJob, SameCopy, Over, ModeSet,
       PutResult
  <1>12. ASSUME Restore(Changer)
        PROVE  LinksAreThere'
    BY <1>0, <1>f, <1>12, RestoreResult, KindEntries, TwoThreads DEF Control, Alone, Changing,
       Enabling, Mirrors, ReplacePcs, LinksAreThere, Working, NoChange, IsLink, IsDir,
       Abandon, Others, SameDisk, SameStore, SameGames, SameJob, SameCopy, Over, ModeSet,
       PutResult
  <1>13. ASSUME Detached(Changer)
        PROVE  LinksAreThere'
    BY <1>0, <1>f, <1>13, DetachedEffect, KindEntries, TwoThreads DEF Control, Alone,
       Changing, Enabling, Mirrors, ReplacePcs, LinksAreThere, Working, NoChange, IsLink,
       IsDir, Abandon, Others, SameDisk, SameStore, SameGames, SameJob, SameCopy, Over,
       ModeSet, PutResult
  <1>14. ASSUME Move(Changer)
        PROVE  LinksAreThere'
    BY <1>0, <1>f, <1>14, MoveEffect, KindEntries, TwoThreads DEF Control, Alone, Changing,
       Enabling, Mirrors, ReplacePcs, LinksAreThere, Working, NoChange, IsLink, IsDir,
       Abandon, Others, SameDisk, SameStore, SameGames, SameJob, SameCopy, Over, ModeSet,
       PutResult
  <1>15. ASSUME PlaceBack(Changer)
        PROVE  LinksAreThere'
    BY <1>0, <1>f, <1>15, PlaceBackResult, KindEntries, TwoThreads DEF Control, Alone,
       Changing, Enabling, Mirrors, ReplacePcs, LinksAreThere, Working, NoChange, IsLink,
       IsDir, Abandon, Others, SameDisk, SameStore, SameGames, SameJob, SameCopy, Over,
       ModeSet, PutResult
  <1>16. ASSUME Place(Changer)
        PROVE  LinksAreThere'
    BY <1>0, <1>f, <1>16, PlaceResult, KindEntries, TwoThreads DEF Control, Alone, Changing,
       Enabling, Mirrors, ReplacePcs, LinksAreThere, Working, NoChange, IsLink, IsDir,
       Abandon, Others, SameDisk, SameStore, SameGames, SameJob, SameCopy, Over, ModeSet,
       PutResult
  <1>17. ASSUME Placed(Changer)
        PROVE  LinksAreThere'
    BY <1>0, <1>f, <1>17, PlacedEffect, KindEntries, TwoThreads DEF Control, Alone, Changing,
       Enabling, Mirrors, ReplacePcs, LinksAreThere, Working, NoChange, IsLink, IsDir,
       Abandon, Others, SameDisk, SameStore, SameGames, SameJob, SameCopy, Over, ModeSet,
       PutResult
  <1>18. ASSUME Reply(Changer)
        PROVE  LinksAreThere'
    BY <1>0, <1>f, <1>18, ReplyEffect, KindEntries, TwoThreads DEF Control, Alone, Changing,
       Enabling, Mirrors, ReplacePcs, LinksAreThere, Working, NoChange, IsLink, IsDir,
       Abandon, Others, SameDisk, SameStore, SameGames, SameJob, SameCopy, Over, ModeSet,
       PutResult
  <1>19. ASSUME NEW i \in Instances, StartGame(i)
        PROVE  LinksAreThere'
    BY <1>0, <1>f, <1>19, GameEffects, KindEntries, TwoThreads DEF Control, Alone, Changing,
       Enabling, Mirrors, ReplacePcs, LinksAreThere, Working, NoChange, IsLink, IsDir,
       Abandon, Others, SameDisk, SameStore, SameGames, SameJob, SameCopy, Over, ModeSet,
       PutResult
  <1>20. ASSUME NEW i \in Instances, SaveGame(i)
        PROVE  LinksAreThere'
    BY <1>0, <1>f, <1>20, SaveResult, KindEntries, TwoThreads DEF Control, Alone, Changing,
       Enabling, Mirrors, ReplacePcs, LinksAreThere, Working, NoChange, IsLink, IsDir,
       Abandon, Others, SameDisk, SameStore, SameGames, SameJob, SameCopy, Over, ModeSet,
       PutResult
  <1>21. ASSUME NEW i \in Instances, QuitGame(i)
        PROVE  LinksAreThere'
    BY <1>0, <1>f, <1>21, GameEffects, KindEntries, TwoThreads DEF Control, Alone, Changing,
       Enabling, Mirrors, ReplacePcs, LinksAreThere, Working, NoChange, IsLink, IsDir,
       Abandon, Others, SameDisk, SameStore, SameGames, SameJob, SameCopy, Over, ModeSet,
       PutResult
  <1>22. ASSUME Crash
        PROVE  LinksAreThere'
    BY <1>0, <1>f, <1>22, CrashEffect, KindEntries, TwoThreads DEF Control, Alone, Changing,
       Enabling, Mirrors, ReplacePcs, LinksAreThere, Working, NoChange, IsLink, IsDir,
       Abandon, Others, SameDisk, SameStore, SameGames, SameJob, SameCopy, Over, ModeSet,
       PutResult
  <1>23. ASSUME NEW t \in Threads, Filling(t)
        PROVE  LinksAreThere'
    BY <1>0, <1>f, <1>23, FillEffect, KindEntries, TwoThreads DEF Control, Alone, Changing,
       Enabling, Mirrors, ReplacePcs, LinksAreThere, Working, NoChange, IsLink, IsDir,
       Abandon, Others, SameDisk, SameStore, SameGames, SameJob, SameCopy, Over, ModeSet,
       PutResult
  <1> QED
    BY <1>1, <1>2, <1>3, <1>4, <1>5, <1>6, <1>7, <1>8, <1>9, <1>10, <1>11, <1>12, <1>13,
       <1>14, <1>15, <1>16, <1>17, <1>18, <1>19, <1>20, <1>21, <1>22, <1>23 DEF Next, Step, Filling

\* Without a clash, no job works on a running game's instance.
LEMMA UnplayedStep ==
    ASSUME WorldTyped, Control, Unplayed, Next
    PROVE  Unplayed'
  <1>0. "clash" \notin trouble' =>
          /\ "clash" \notin trouble
          /\ \A i \in Instances : /\ loaded[i] = 0 /\ loaded'[i] # 0 => \A t \in Threads : ~Working(t)
                                  /\ loaded[i] # 0 /\ loaded'[i] = loaded[i] => Fresh(i)' = Fresh(i)
    <2>1. (\A i \in Instances : i \notin running /\ i \in running' => AtWork = {}) =>
              \A i \in Instances : loaded[i] = 0 /\ loaded'[i] # 0 => \A t \in Threads : ~Working(t)
      BY DEF running, AtWork, Working
    <2>2. ~Clash => /\ \A i \in Instances : i \notin running /\ i \in running' => AtWork = {}
                    /\ \A i \in Instances : i \in running /\ loaded'[i] = loaded[i] => Fresh(i)' = Fresh(i)
      BY DEF Clash
    <2>3. \A i \in Instances : loaded[i] # 0 => i \in running
      BY DEF running
    <2> QED
      BY <2>1, <2>2, <2>3, Past
  <1>1. ASSUME StartPass
        PROVE  Unplayed'
    BY <1>0, <1>1, StartPassEffect, TwoThreads DEF Unplayed, Working, Control, PassJob,
       Changing, running, Others, SameDisk, SameStore, SameGames, SameJob, SameCopy, Over,
       ModeSet, PutResult
  <1>2. ASSUME NEW wanted \in SUBSET Instances, StartChange(wanted)
        PROVE  Unplayed'
    <2>1. \A i \in Instances : loaded[i] # 0 => i \in running
      BY DEF running
    <2> QED
      BY <1>0, <1>2, <2>1, StartChangeEffect, TwoThreads DEF Unplayed, Working, SameGames,
         Others
  <1>3. ASSUME NEW source \in Instances, NEW others \in SUBSET Instances, StartEnable(source, others)
        PROVE  Unplayed'
    <2>1. \A i \in Instances : loaded[i] # 0 => i \in running
      BY DEF running
    <2> QED
      BY <1>0, <1>3, <2>1, StartEnableEffect, TwoThreads DEF Unplayed, Working, SameGames,
         Others
  <1>4. ASSUME NEW t \in Threads, Survey(t)
        PROVE  Unplayed'
    BY <1>0, <1>4, SurveyEffect, TwoThreads DEF Unplayed, Working, Control, PassJob, Changing,
       running, Others, SameDisk, SameStore, SameGames, SameJob, SameCopy, Over, ModeSet,
       PutResult
  <1>5. ASSUME NEW t \in Threads, Compare(t)
        PROVE  Unplayed'
    BY <1>0, <1>5, CompareEffect, TwoThreads DEF Unplayed, Working, Control, PassJob,
       Changing, running, Others, SameDisk, SameStore, SameGames, SameJob, SameCopy, Over,
       ModeSet, PutResult
  <1>6. ASSUME NEW t \in Threads, Refresh(t)
        PROVE  Unplayed'
    BY <1>0, <1>6, RefreshEffect, TwoThreads DEF Unplayed, Working, Control, PassJob,
       Changing, running, Others, SameDisk, SameStore, SameGames, SameJob, SameCopy, Over,
       ModeSet, PutResult
  <1>7. ASSUME NEW t \in Threads, Mirrored(t)
        PROVE  Unplayed'
    BY <1>0, <1>7, MirroredEffect, TwoThreads DEF Unplayed, Working, Control, PassJob,
       Changing, running, Others, SameDisk, SameStore, SameGames, SameJob, SameCopy, Over,
       ModeSet, PutResult
  <1>8. ASSUME NEW t \in Threads, CopyToStaging(t)
        PROVE  Unplayed'
    BY <1>0, <1>8, CopyResult, TwoThreads DEF Unplayed, Working, Control, PassJob, Changing,
       running, Others, SameDisk, SameStore, SameGames, SameJob, SameCopy, Over, ModeSet,
       PutResult
  <1>9. ASSUME NEW t \in Threads, SwapOut(t)
        PROVE  Unplayed'
    BY <1>0, <1>9, SwapOutEffect, TwoThreads DEF Unplayed, Working, Control, PassJob,
       Changing, running, Others, SameDisk, SameStore, SameGames, SameJob, SameCopy, Over,
       ModeSet, PutResult
  <1>10. ASSUME NEW t \in Threads, SwapIn(t)
        PROVE  Unplayed'
    BY <1>0, <1>10, SwapInResult, TwoThreads DEF Unplayed, Working, Control, PassJob,
       Changing, running, Others, SameDisk, SameStore, SameGames, SameJob, SameCopy, Over,
       ModeSet, PutResult
  <1>11. ASSUME Unlink(Changer)
        PROVE  Unplayed'
    BY <1>0, <1>11, UnlinkResult, TwoThreads DEF Unplayed, Working, Control, Changing,
       SameGames, Others
  <1>12. ASSUME Restore(Changer)
        PROVE  Unplayed'
    BY <1>0, <1>12, RestoreResult, TwoThreads DEF Unplayed, Working, Control, PassJob,
       Changing, running, Others, SameDisk, SameStore, SameGames, SameJob, SameCopy, Over,
       ModeSet, PutResult
  <1>13. ASSUME Detached(Changer)
        PROVE  Unplayed'
    BY <1>0, <1>13, DetachedEffect, TwoThreads DEF Unplayed, Working, Control, PassJob,
       Changing, running, Others, SameDisk, SameStore, SameGames, SameJob, SameCopy, Over,
       ModeSet, PutResult
  <1>14. ASSUME Move(Changer)
        PROVE  Unplayed'
    BY <1>0, <1>14, MoveEffect, TwoThreads DEF Unplayed, Working, Control, PassJob, Changing,
       running, Others, SameDisk, SameStore, SameGames, SameJob, SameCopy, Over, ModeSet,
       PutResult
  <1>15. ASSUME PlaceBack(Changer)
        PROVE  Unplayed'
    BY <1>0, <1>15, PlaceBackResult, TwoThreads DEF Unplayed, Working, Control, PassJob,
       Changing, running, Others, SameDisk, SameStore, SameGames, SameJob, SameCopy, Over,
       ModeSet, PutResult
  <1>16. ASSUME Place(Changer)
        PROVE  Unplayed'
    BY <1>0, <1>16, PlaceResult, TwoThreads DEF Unplayed, Working, Control, PassJob, Changing,
       running, Others, SameDisk, SameStore, SameGames, SameJob, SameCopy, Over, ModeSet,
       PutResult
  <1>17. ASSUME Placed(Changer)
        PROVE  Unplayed'
    BY <1>0, <1>17, PlacedEffect, TwoThreads DEF Unplayed, Working, Control, PassJob,
       Changing, running, Others, SameDisk, SameStore, SameGames, SameJob, SameCopy, Over,
       ModeSet, PutResult
  <1>18. ASSUME Reply(Changer)
        PROVE  Unplayed'
    BY <1>0, <1>18, ReplyEffect, TwoThreads DEF Unplayed, Working, Control, PassJob, Changing,
       running, Others, SameDisk, SameStore, SameGames, SameJob, SameCopy, Over, ModeSet,
       PutResult
  <1>19. ASSUME NEW i \in Instances, StartGame(i)
        PROVE  Unplayed'
    BY <1>0, <1>19, GameEffects, TwoThreads DEF Unplayed, Working, Control, PassJob, Changing,
       running, Others, SameDisk, SameStore, SameGames, SameJob, SameCopy, Over, ModeSet,
       PutResult
  <1>20. ASSUME NEW i \in Instances, SaveGame(i)
        PROVE  Unplayed'
    <2>1. Newest' # 0
      BY <1>20, WorldTypes, SaveResult
    <2> QED
      BY <1>0, <1>20, <2>1, SaveResult DEF Unplayed, Working
  <1>21. ASSUME NEW i \in Instances, QuitGame(i)
        PROVE  Unplayed'
    BY <1>0, <1>21, GameEffects, TwoThreads DEF Unplayed, Working, Control, PassJob, Changing,
       running, Others, SameDisk, SameStore, SameGames, SameJob, SameCopy, Over, ModeSet,
       PutResult
  <1>22. ASSUME Crash
        PROVE  Unplayed'
    BY <1>0, <1>22, CrashEffect, TwoThreads DEF Unplayed, Working, SameGames
  <1>23. ASSUME NEW t \in Threads, Filling(t)
        PROVE  Unplayed'
    BY <1>0, <1>23, FillEffect, TwoThreads DEF Unplayed, Working, Control, PassJob,
       Changing, running, Others, SameDisk, SameStore, SameGames, SameJob, SameCopy, Over,
       ModeSet, PutResult
  <1> QED
    BY <1>1, <1>2, <1>3, <1>4, <1>5, <1>6, <1>7, <1>8, <1>9, <1>10, <1>11, <1>12, <1>13,
       <1>14, <1>15, <1>16, <1>17, <1>18, <1>19, <1>20, <1>21, <1>22, <1>23 DEF Next, Step, Filling

\* A game's world stays what it loaded if its directory does.
LEMMA Untouched ==
    ASSUME NEW i \in Instances, disk'[i] = disk[i], IsLink(i) => disk'[Shared] = disk[Shared]
    PROVE  At(i)' = At(i) /\ Fresh(i)' = Fresh(i)
  BY DEF At, Fresh, IsLink

\* What becomes of a running game's world when a place is emptied.
LEMMA Emptied ==
    ASSUME WorldTyped, Control, NEW i \in Instances, NEW p \in {i, Shared},
           p = i \/ IsLink(i), disk'[p].time = 0, disk'[p].kind # "link",
           \A q \in Places : q # p => disk'[q] = disk[q]
    PROVE  Fresh(i)' = 0
  BY TwoThreads DEF At, Fresh, IsLink

\* A game plays in the directory it loaded.
LEMMA IntactStep ==
    ASSUME WorldTyped, Control, Intact, Unplayed, Next
    PROVE  Intact'
  <1>0. "clash" \notin trouble' =>
          /\ "clash" \notin trouble
          /\ \A i \in Instances : /\ loaded[i] = 0 /\ loaded'[i] # 0 => \A t \in Threads : ~Working(t)
                                  /\ loaded[i] # 0 /\ loaded'[i] = loaded[i] => Fresh(i)' = Fresh(i)
    <2>1. (\A i \in Instances : i \notin running /\ i \in running' => AtWork = {}) =>
              \A i \in Instances : loaded[i] = 0 /\ loaded'[i] # 0 => \A t \in Threads : ~Working(t)
      BY DEF running, AtWork, Working
    <2>2. ~Clash => /\ \A i \in Instances : i \notin running /\ i \in running' => AtWork = {}
                    /\ \A i \in Instances : i \in running /\ loaded'[i] = loaded[i] => Fresh(i)' = Fresh(i)
      BY DEF Clash
    <2>3. \A i \in Instances : loaded[i] # 0 => i \in running
      BY DEF running
    <2> QED
      BY <2>1, <2>2, <2>3, Past
  <1>1. ASSUME StartPass
        PROVE  Intact'
    <2> SUFFICES ASSUME "clash" \notin trouble', NEW j \in Instances, loaded'[j] # 0
                 PROVE  At(j)'.whole /\ Fresh(j)' = loaded'[j]
      BY DEF Intact
    <2>1. loaded'[j] = loaded[j] /\ disk' = disk
      BY <1>1, StartPassEffect DEF SameGames, SameDisk
    <2> QED
      BY <1>0, <2>1, Untouched DEF Intact
  <1>2. ASSUME NEW wanted \in SUBSET Instances, StartChange(wanted)
        PROVE  Intact'
    <2> SUFFICES ASSUME "clash" \notin trouble', NEW j \in Instances, loaded'[j] # 0
                 PROVE  At(j)'.whole /\ Fresh(j)' = loaded'[j]
      BY DEF Intact
    <2>1. loaded'[j] = loaded[j] /\ disk' = disk
      BY <1>2, StartChangeEffect DEF SameGames, SameDisk
    <2> QED
      BY <1>0, <2>1, Untouched DEF Intact
  <1>3. ASSUME NEW source \in Instances, NEW others \in SUBSET Instances, StartEnable(source, others)
        PROVE  Intact'
    <2> SUFFICES ASSUME "clash" \notin trouble', NEW j \in Instances, loaded'[j] # 0
                 PROVE  At(j)'.whole /\ Fresh(j)' = loaded'[j]
      BY DEF Intact
    <2>1. loaded'[j] = loaded[j] /\ disk' = disk
      BY <1>3, StartEnableEffect DEF SameGames, SameDisk
    <2> QED
      BY <1>0, <2>1, Untouched DEF Intact
  <1>4. ASSUME NEW t \in Threads, Survey(t)
        PROVE  Intact'
    <2> SUFFICES ASSUME "clash" \notin trouble', NEW j \in Instances, loaded'[j] # 0
                 PROVE  At(j)'.whole /\ Fresh(j)' = loaded'[j]
      BY DEF Intact
    <2>1. loaded'[j] = loaded[j] /\ disk' = disk
      BY <1>4, SurveyEffect DEF SameGames, SameDisk
    <2> QED
      BY <1>0, <2>1, Untouched DEF Intact
  <1>5. ASSUME NEW t \in Threads, Compare(t)
        PROVE  Intact'
    <2> SUFFICES ASSUME "clash" \notin trouble', NEW j \in Instances, loaded'[j] # 0
                 PROVE  At(j)'.whole /\ Fresh(j)' = loaded'[j]
      BY DEF Intact
    <2>1. loaded'[j] = loaded[j] /\ disk' = disk
      BY <1>5, CompareEffect DEF SameGames, SameDisk
    <2> QED
      BY <1>0, <2>1, Untouched DEF Intact
  <1>6. ASSUME NEW t \in Threads, Refresh(t)
        PROVE  Intact'
    <2> SUFFICES ASSUME "clash" \notin trouble', NEW j \in Instances, loaded'[j] # 0
                 PROVE  At(j)'.whole /\ Fresh(j)' = loaded'[j]
      BY DEF Intact
    <2>1. loaded'[j] = loaded[j] /\ disk' = disk
      BY <1>6, RefreshEffect DEF SameGames, SameDisk
    <2> QED
      BY <1>0, <2>1, Untouched DEF Intact
  <1>7. ASSUME NEW t \in Threads, Mirrored(t)
        PROVE  Intact'
    <2> SUFFICES ASSUME "clash" \notin trouble', NEW j \in Instances, loaded'[j] # 0
                 PROVE  At(j)'.whole /\ Fresh(j)' = loaded'[j]
      BY DEF Intact
    <2>1. loaded'[j] = loaded[j] /\ disk' = disk
      BY <1>7, MirroredEffect DEF SameGames, SameDisk
    <2> QED
      BY <1>0, <2>1, Untouched DEF Intact
  <1>8. ASSUME NEW t \in Threads, CopyToStaging(t)
        PROVE  Intact'
    <2> SUFFICES ASSUME "clash" \notin trouble', NEW j \in Instances, loaded'[j] # 0
                 PROVE  At(j)'.whole /\ Fresh(j)' = loaded'[j]
      BY DEF Intact
    <2>1. loaded'[j] = loaded[j] /\ disk' = disk
      BY <1>8, CopyResult DEF SameGames
    <2> QED
      BY <1>0, <2>1, Untouched DEF Intact
  <1>9. ASSUME NEW t \in Threads, SwapOut(t)
        PROVE  Intact'
    <2> SUFFICES ASSUME "clash" \notin trouble', NEW j \in Instances, loaded'[j] # 0
                 PROVE  At(j)'.whole /\ Fresh(j)' = loaded'[j]
      BY DEF Intact
    <2>1. loaded'[j] = loaded[j] /\ loaded[j] # 0 /\ Fresh(j)' = Fresh(j) /\ Fresh(j) # 0
          /\ At(j).whole /\ Fresh(j) = loaded[j]
      BY <1>0, <1>9, SwapOutEffect DEF SameGames, Intact
    <2>2. disk'[j] = disk[j] /\ (IsLink(j) => disk'[Shared] = disk[Shared])
      BY <1>9, <2>1, SwapOutEffect, Emptied, KindEntries, TwoThreads DEF IsLink
    <2> QED
      BY <2>1, <2>2, Untouched
  <1>10. ASSUME NEW t \in Threads, SwapIn(t)
        PROVE  Intact'
    <2> SUFFICES ASSUME "clash" \notin trouble', NEW j \in Instances, loaded'[j] # 0
                 PROVE  At(j)'.whole /\ Fresh(j)' = loaded'[j]
      BY DEF Intact
    <2>1. loaded'[j] = loaded[j] /\ loaded[j] # 0 /\ Fresh(j)' = Fresh(j) /\ Fresh(j) # 0
          /\ At(j).whole /\ Fresh(j) = loaded[j]
      BY <1>0, <1>10, SwapInResult DEF SameGames, Intact
    <2>3. disk[j].kind # "none" /\ (IsLink(j) => disk[Shared].kind # "none")
      BY <2>1, WorldTypes DEF At, Fresh, IsLink
    <2>2. disk'[j] = disk[j] /\ (IsLink(j) => disk'[Shared] = disk[Shared])
      BY <1>10, <2>1, <2>3, SwapInResult, TwoThreads
    <2> QED
      BY <2>1, <2>2, Untouched
  <1>11. ASSUME Unlink(Changer)
        PROVE  Intact'
    <2> SUFFICES ASSUME "clash" \notin trouble', NEW j \in Instances, loaded'[j] # 0
                 PROVE  At(j)'.whole /\ Fresh(j)' = loaded'[j]
      BY DEF Intact
    <2>1. loaded'[j] = loaded[j] /\ loaded[j] # 0 /\ Fresh(j)' = Fresh(j) /\ Fresh(j) # 0
          /\ At(j).whole /\ Fresh(j) = loaded[j]
      BY <1>0, <1>11, UnlinkResult DEF SameGames, Intact
    <2>2. disk'[j] = disk[j] /\ disk'[Shared] = disk[Shared]
      BY <1>0, <1>11, <2>1, UnlinkResult, TwoThreads DEF Unplayed, Working
    <2> QED
      BY <2>1, <2>2, Untouched
  <1>12. ASSUME Restore(Changer)
        PROVE  Intact'
    <2> SUFFICES ASSUME "clash" \notin trouble', NEW j \in Instances, loaded'[j] # 0
                 PROVE  At(j)'.whole /\ Fresh(j)' = loaded'[j]
      BY DEF Intact
    <2>1. loaded'[j] = loaded[j] /\ loaded[j] # 0 /\ Fresh(j)' = Fresh(j) /\ Fresh(j) # 0
          /\ At(j).whole /\ Fresh(j) = loaded[j]
      BY <1>0, <1>12, RestoreResult DEF SameGames, Intact
    <2>2. disk'[j] = disk[j] /\ disk'[Shared] = disk[Shared]
      BY <1>0, <1>12, <2>1, RestoreResult, TwoThreads DEF Unplayed, Control, Changing,
         Enabling, Working
    <2> QED
      BY <2>1, <2>2, Untouched
  <1>13. ASSUME Detached(Changer)
        PROVE  Intact'
    <2> SUFFICES ASSUME "clash" \notin trouble', NEW j \in Instances, loaded'[j] # 0
                 PROVE  At(j)'.whole /\ Fresh(j)' = loaded'[j]
      BY DEF Intact
    <2>1. loaded'[j] = loaded[j] /\ loaded[j] # 0 /\ Fresh(j)' = Fresh(j) /\ Fresh(j) # 0
          /\ At(j).whole /\ Fresh(j) = loaded[j]
      BY <1>0, <1>13, DetachedEffect DEF SameGames, Intact
    <2>2. disk'[j] = disk[j] /\ (IsLink(j) => disk'[Shared] = disk[Shared])
      BY <1>13, <2>1, DetachedEffect, Emptied, KindEntries, TwoThreads
    <2> QED
      BY <2>1, <2>2, Untouched
  <1>14. ASSUME Move(Changer)
        PROVE  Intact'
    <2> SUFFICES ASSUME "clash" \notin trouble', NEW j \in Instances, loaded'[j] # 0
                 PROVE  At(j)'.whole /\ Fresh(j)' = loaded'[j]
      BY DEF Intact
    <2>1. loaded'[j] = loaded[j] /\ loaded[j] # 0 /\ Fresh(j)' = Fresh(j) /\ Fresh(j) # 0
          /\ At(j).whole /\ Fresh(j) = loaded[j]
      BY <1>0, <1>14, MoveEffect DEF SameGames, Intact
    <2>3. disk[Shared].kind = "none" /\ ~IsLink(j)
      BY <1>14, MoveEffect DEF Control, Enabling, Changing, Working
    <2>2. disk'[j] = disk[j] /\ (IsLink(j) => disk'[Shared] = disk[Shared])
      BY <1>0, <1>14, <2>1, <2>3, MoveEffect, TwoThreads DEF Unplayed, Working
    <2> QED
      BY <2>1, <2>2, Untouched
  <1>15. ASSUME PlaceBack(Changer)
        PROVE  Intact'
    <2> SUFFICES ASSUME "clash" \notin trouble', NEW j \in Instances, loaded'[j] # 0
                 PROVE  At(j)'.whole /\ Fresh(j)' = loaded'[j]
      BY DEF Intact
    <2>1. loaded'[j] = loaded[j] /\ loaded[j] # 0 /\ Fresh(j)' = Fresh(j) /\ Fresh(j) # 0
          /\ At(j).whole /\ Fresh(j) = loaded[j]
      BY <1>0, <1>15, PlaceBackResult DEF SameGames, Intact
    <2>3. ~IsLink(j)
      BY <1>15, PlaceBackResult DEF Control, Enabling, Changing, Working
    <2>2. disk'[j] = disk[j] /\ (IsLink(j) => disk'[Shared] = disk[Shared])
      BY <1>0, <1>15, <2>1, <2>3, PlaceBackResult, TwoThreads DEF Unplayed, Working, PutResult
    <2> QED
      BY <2>1, <2>2, Untouched
  <1>16. ASSUME Place(Changer)
        PROVE  Intact'
    <2> SUFFICES ASSUME "clash" \notin trouble', NEW j \in Instances, loaded'[j] # 0
                 PROVE  At(j)'.whole /\ Fresh(j)' = loaded'[j]
      BY DEF Intact
    <2>1. loaded'[j] = loaded[j] /\ loaded[j] # 0 /\ Fresh(j)' = Fresh(j) /\ Fresh(j) # 0
          /\ At(j).whole /\ Fresh(j) = loaded[j]
      BY <1>0, <1>16, PlaceResult DEF SameGames, Intact
    <2>2. disk'[j] = disk[j] /\ (IsLink(j) => disk'[Shared] = disk[Shared])
      BY <1>0, <1>16, <2>1, PlaceResult, TwoThreads DEF Unplayed, Working, PutResult
    <2> QED
      BY <2>1, <2>2, Untouched
  <1>17. ASSUME Placed(Changer)
        PROVE  Intact'
    <2> SUFFICES ASSUME "clash" \notin trouble', NEW j \in Instances, loaded'[j] # 0
                 PROVE  At(j)'.whole /\ Fresh(j)' = loaded'[j]
      BY DEF Intact
    <2>1. loaded'[j] = loaded[j] /\ disk' = disk
      BY <1>17, PlacedEffect DEF SameGames, SameDisk
    <2> QED
      BY <1>0, <2>1, Untouched DEF Intact
  <1>18. ASSUME Reply(Changer)
        PROVE  Intact'
    <2> SUFFICES ASSUME "clash" \notin trouble', NEW j \in Instances, loaded'[j] # 0
                 PROVE  At(j)'.whole /\ Fresh(j)' = loaded'[j]
      BY DEF Intact
    <2>1. loaded'[j] = loaded[j] /\ disk' = disk
      BY <1>18, ReplyEffect DEF SameGames, SameDisk
    <2> QED
      BY <1>0, <2>1, Untouched DEF Intact
  <1>19. ASSUME NEW i \in Instances, StartGame(i)
        PROVE  Intact'
    <2> SUFFICES ASSUME "clash" \notin trouble', NEW j \in Instances, loaded'[j] # 0
                 PROVE  At(j)'.whole /\ Fresh(j)' = loaded'[j]
      BY DEF Intact
    <2>1. disk' = disk /\ (j # i => loaded'[j] = loaded[j])
      BY <1>19, GameEffects DEF SameDisk
    <2>2. At(j)' = At(j) /\ Fresh(j)' = Fresh(j)
      BY <2>1, Untouched
    <2>3. CASE j = i
      BY <1>19, <2>2, <2>3, GameEffects
    <2>4. CASE j # i
      BY <1>0, <2>1, <2>2, <2>4 DEF Intact
    <2> QED
      BY <2>3, <2>4
  <1>20. ASSUME NEW i \in Instances, SaveGame(i)
        PROVE  Intact'
    <2> SUFFICES ASSUME "clash" \notin trouble', NEW j \in Instances, loaded'[j] # 0
                 PROVE  At(j)'.whole /\ Fresh(j)' = loaded'[j]
      BY DEF Intact
    <2>1. /\ \A p \in Places : p # Home(i) => disk'[p] = disk[p]
          /\ \A p \in Places : disk'[p].kind = disk[p].kind
          /\ disk'[Home(i)].time = Newest'
          /\ disk'[Home(i)].whole
          /\ loaded'[i] = Newest' /\ \A k \in Instances : k # i => loaded'[k] = loaded[k]
      BY <1>0, <1>20, SaveResult DEF Intact
    <2>2. CASE j = i
      BY <2>1, <2>2, TwoThreads DEF At, Fresh, Home, IsLink
    <2>3. CASE j # i
      <3>1. Fresh(j)' = Fresh(j) /\ Fresh(j) = loaded[j] /\ At(j).whole /\ loaded'[j] = loaded[j]
        BY <1>0, <2>1, <2>3 DEF Intact
      <3>2. At(j)' = At(j) \/ At(j)' = disk'[Home(i)]
        BY <2>1, TwoThreads DEF At
      <3> QED
        BY <2>1, <3>1, <3>2
    <2> QED
      BY <2>2, <2>3
  <1>21. ASSUME NEW i \in Instances, QuitGame(i)
        PROVE  Intact'
    <2> SUFFICES ASSUME "clash" \notin trouble', NEW j \in Instances, loaded'[j] # 0
                 PROVE  At(j)'.whole /\ Fresh(j)' = loaded'[j]
      BY DEF Intact
    <2>1. disk' = disk /\ loaded'[j] = loaded[j]
      BY <1>21, GameEffects DEF SameDisk
    <2> QED
      BY <1>0, <2>1, Untouched DEF Intact
  <1>22. ASSUME Crash
        PROVE  Intact'
    <2> SUFFICES ASSUME "clash" \notin trouble', NEW j \in Instances, loaded'[j] # 0
                 PROVE  At(j)'.whole /\ Fresh(j)' = loaded'[j]
      BY DEF Intact
    <2>1. loaded'[j] = loaded[j] /\ disk' = disk
      BY <1>22, CrashEffect DEF SameGames, SameDisk
    <2> QED
      BY <1>0, <2>1, Untouched DEF Intact
  <1>23. ASSUME NEW t \in Threads, Filling(t)
        PROVE  Intact'
    <2> SUFFICES ASSUME "clash" \notin trouble', NEW j \in Instances, loaded'[j] # 0
                 PROVE  At(j)'.whole /\ Fresh(j)' = loaded'[j]
      BY DEF Intact
    <2>1. loaded'[j] = loaded[j] /\ disk' = disk
      BY <1>23, FillEffect DEF SameGames
    <2> QED
      BY <1>0, <2>1, Untouched DEF Intact
  <1> QED
    BY <1>1, <1>2, <1>3, <1>4, <1>5, <1>6, <1>7, <1>8, <1>9, <1>10, <1>11, <1>12, <1>13,
       <1>14, <1>15, <1>16, <1>17, <1>18, <1>19, <1>20, <1>21, <1>22, <1>23 DEF Next, Step, Filling

-----------------------------------------------------------------------------
(* What one job does that nothing disturbs.                                 *)

\* In a calm behaviour jobs past their survey do not meet, and nobody saves meanwhile.
LEMMA CalmPast ==
    ASSUME WorldTyped, Alone, Next, Calm'
    PROVE  /\ Calm /\ "overlap" \notin trouble
           /\ \A t, u \in Threads : t # u => Waits(t) \/ Waits(u)
           /\ \A t, u \in Threads : t # u => Waits(t)' \/ Waits(u)'
           /\ \A t \in Threads : ~Waits(t) => ~Disturbed(t)
           /\ clock' = clock \/ \A t \in Threads : ~Working(t)
  <1>1. Calm /\ "overlap" \notin trouble /\ ~LateSave
    BY Past DEF Calm
  <1>2. \E t \in Threads : Waits(t)'
    BY Past DEF Calm, Waits
  <1>3. \A t, u \in Threads : t # u => Waits(t)' \/ Waits(u)'
    BY <1>2, TwoThreads
  <1>4. \A t, u \in Threads : t # u => Waits(t) \/ Waits(u)
    BY <1>1, TwoThreads DEF Alone
  <1>5. \A t \in Threads : ~Waits(t) => ~Disturbed(t)
    BY <1>1, Undisturbed
  <1>6. clock' = clock \/ \A t \in Threads : ~Working(t)
    BY <1>1 DEF LateSave, AtWork, Working
  <1> QED
    BY <1>1, <1>3, <1>4, <1>5, <1>6

\* A directory that is no link is its own target.
LEMMA Plain ==
    /\ \A p \in Places : IsDir(p) => At(p) = disk[p] /\ Fresh(p) = disk[p].time
    /\ Control => At(Shared) = disk[Shared] /\ Fresh(Shared) = disk[Shared].time
  BY DEF IsDir, At, Fresh, Control

\* What replaces a directory is newer than it.
LEMMA NewerStep ==
    ASSUME WorldTyped, Control, Alone, Newer, Next
    PROVE  Newer'
  <1>0. Calm' => /\ Calm /\ \A t, u \in Threads : t # u => Waits(t) \/ Waits(u)
                 /\ \A t, u \in Threads : t # u => Waits(t)' \/ Waits(u)'
                 /\ \A t \in Threads : ~Waits(t) => ~Disturbed(t)
                 /\ clock' = clock \/ \A t \in Threads : ~Working(t)
    BY CalmPast
  <1>1. ASSUME StartPass
        PROVE  Newer'
    BY <1>0, <1>1, StartPassEffect, TwoThreads DEF Newer, Copying, Waits, Working, Refreshing, ReplacePcs,
       Others, SameDisk, SameGames, SameCopy, PutResult, IsDir, Fresh, At
  <1>2. ASSUME NEW wanted \in SUBSET Instances, StartChange(wanted)
        PROVE  Newer'
    BY <1>0, <1>2, StartChangeEffect, TwoThreads DEF Newer, Copying, Waits, Working, Refreshing, ReplacePcs,
       Others, SameDisk, SameGames, SameCopy, PutResult, IsDir, Fresh, At
  <1>3. ASSUME NEW source \in Instances, NEW others \in SUBSET Instances, StartEnable(source, others)
        PROVE  Newer'
    BY <1>0, <1>3, StartEnableEffect, TwoThreads DEF Newer, Copying, Waits, Working, Refreshing, ReplacePcs,
       Others, SameDisk, SameGames, SameCopy, PutResult
  <1>4. ASSUME NEW t \in Threads, Survey(t)
        PROVE  Newer'
    BY <1>0, <1>4, SurveyEffect, TwoThreads, Plain DEF Newer, Copying, Waits, Control, Mirrors, Working,
       Refreshing, ReplacePcs, Others, SameDisk, SameStore, SameGames, SameJob, SameCopy,
       Over, ToShared, MirrorsOf, IsDir
  <1>5. ASSUME NEW t \in Threads, Compare(t)
        PROVE  Newer'
    BY <1>0, <1>5, CompareEffect, TwoThreads, Plain DEF Newer, Copying, Waits, Control, Mirrors, Working,
       Refreshing, ReplacePcs, Others, SameDisk, SameStore, SameGames, SameJob, SameCopy, Over
  <1>6. ASSUME NEW t \in Threads, Refresh(t)
        PROVE  Newer'
    <2>1. thread[t].mirrors \subseteq Instances
      BY WorldTypes
    <2>2. \A p \in Places : Fresh(p)' = Fresh(p)
      BY <1>6, RefreshEffect DEF SameDisk, Fresh, At
    <2> QED
      BY <1>0, <1>6, <2>1, <2>2, RefreshEffect, TwoThreads DEF Newer, Copying, Waits, Working, Refreshing,
         ReplacePcs, Others, SameDisk
  <1>7. ASSUME NEW t \in Threads, Mirrored(t)
        PROVE  Newer'
    BY <1>0, <1>7, MirroredEffect, TwoThreads, Plain DEF Newer, Copying, Waits, Control, Mirrors, Working,
       Refreshing, ReplacePcs, Others, SameDisk, SameStore, SameGames, SameJob, SameCopy, Over
  <1>8. ASSUME NEW t \in Threads, CopyToStaging(t)
        PROVE  Newer'
    BY <1>0, <1>8, CopyResult, TwoThreads, Plain DEF Newer, Copying, Waits, Control, Mirrors, Working,
       Refreshing, ReplacePcs, Others, SameDisk, SameStore, SameGames, SameJob, SameCopy,
       Over, At, Fresh, Exists, IsDir
  <1>9. ASSUME NEW t \in Threads, SwapOut(t)
        PROVE  Newer'
    BY <1>0, <1>9, SwapOutEffect, TwoThreads, Plain, KindEntries DEF Newer, Copying, Waits, Control, Mirrors,
       Working, Refreshing, ReplacePcs, Others, SameDisk, SameStore, SameGames, SameJob,
       SameCopy, Over, At, Fresh, Exists
  <1>10. ASSUME NEW t \in Threads, SwapIn(t)
        PROVE  Newer'
    BY <1>0, <1>10, SwapInResult, TwoThreads, Plain DEF Newer, Copying, Waits, Control, Mirrors, Working,
       Refreshing, ReplacePcs, Others, SameDisk, SameStore, SameGames, SameJob, SameCopy, Over
  <1>11. ASSUME Unlink(Changer)
        PROVE  Newer'
    BY <1>0, <1>11, UnlinkResult, TwoThreads DEF Newer, Copying, Waits, Working, Refreshing, ReplacePcs,
       Others, SameDisk, SameGames, SameCopy, PutResult
  <1>12. ASSUME Restore(Changer)
        PROVE  Newer'
    BY <1>0, <1>12, RestoreResult, TwoThreads DEF Newer, Copying, Waits, Working, Refreshing, ReplacePcs,
       Others, SameDisk, SameGames, SameCopy, PutResult
  <1>13. ASSUME Detached(Changer)
        PROVE  Newer'
    BY <1>0, <1>13, DetachedEffect, TwoThreads DEF Newer, Copying, Waits, Working, Refreshing, ReplacePcs,
       Others, SameDisk, SameGames, SameCopy, PutResult
  <1>14. ASSUME Move(Changer)
        PROVE  Newer'
    BY <1>0, <1>14, MoveEffect, TwoThreads DEF Newer, Copying, Waits, Working, Refreshing, ReplacePcs, Others,
       SameDisk, SameGames, SameCopy, PutResult
  <1>15. ASSUME PlaceBack(Changer)
        PROVE  Newer'
    BY <1>0, <1>15, PlaceBackResult, TwoThreads DEF Newer, Copying, Waits, Working, Refreshing, ReplacePcs,
       Others, SameDisk, SameGames, SameCopy, PutResult
  <1>16. ASSUME Place(Changer)
        PROVE  Newer'
    BY <1>0, <1>16, PlaceResult, TwoThreads DEF Newer, Copying, Waits, Working, Refreshing, ReplacePcs,
       Others, SameDisk, SameGames, SameCopy, PutResult
  <1>17. ASSUME Placed(Changer)
        PROVE  Newer'
    BY <1>0, <1>17, PlacedEffect, TwoThreads DEF Newer, Copying, Waits, Working, Refreshing, ReplacePcs,
       Others, SameDisk, SameGames, SameCopy, PutResult
  <1>18. ASSUME Reply(Changer)
        PROVE  Newer'
    BY <1>0, <1>18, ReplyEffect, TwoThreads DEF Newer, Copying, Waits, Working, Refreshing, ReplacePcs,
       Others, SameDisk, SameGames, SameCopy, PutResult
  <1>19. ASSUME NEW i \in Instances, StartGame(i)
        PROVE  Newer'
    BY <1>0, <1>19, GameEffects DEF Newer, Copying, SameDisk, Refreshing, IsDir, Fresh, At
  <1>20. ASSUME NEW i \in Instances, SaveGame(i)
        PROVE  Newer'
    <2>1. clock' # clock
      BY <1>20, SaveResult, WorldTypes
    <2> QED
      BY <1>0, <1>20, <2>1, SaveResult DEF Newer, Copying, Waits, Working, Refreshing, ReplacePcs
  <1>21. ASSUME NEW i \in Instances, QuitGame(i)
        PROVE  Newer'
    BY <1>0, <1>21, GameEffects DEF Newer, Copying, SameDisk, Refreshing, IsDir, Fresh, At
  <1>22. ASSUME Crash
        PROVE  Newer'
    BY <1>22, CrashEffect DEF Newer, Copying, Refreshing, ReplacePcs
  <1>23. ASSUME NEW t \in Threads, Filling(t)
        PROVE  Newer'
    <2>1. \A p \in Places : Fresh(p)' = Fresh(p)
      BY <1>23, FillEffect DEF Fresh, At
    <2> QED
      BY <1>0, <1>23, <2>1, FillEffect, TwoThreads DEF Newer, Copying, Waits, Refreshing,
         ReplacePcs, Others, SameJob, SameCopy, IsDir
  <1> QED
    BY <1>1, <1>2, <1>3, <1>4, <1>5, <1>6, <1>7, <1>8, <1>9, <1>10, <1>11, <1>12, <1>13,
       <1>14, <1>15, <1>16, <1>17, <1>18, <1>19, <1>20, <1>21, <1>22, <1>23 DEF Next, Step, Filling

\* A set of numbers has a smallest one.
LEMMA SmallestOf ==
    ASSUME NEW S \in SUBSET Nat, S # {}
    PROVE  \E x \in S : \A y \in S : x <= y
  <1> DEFINE R == OpToRel(<, Nat)
  <1>1. IsWellFoundedOn(R, Nat)
    BY NatLessThanWellFounded, Zenon
  <1>2. \A x, y \in Nat : x < y => <<x, y>> \in R
    BY DEF OpToRel
  <1> HIDE DEF R
  <1>3. PICK x \in S : \A y \in S : ~(<<y, x>> \in R)
    BY <1>1, WFMin, Zenon
  <1>4. \A y \in S : ~(y < x)
    BY <1>2, <1>3
  <1> QED
    BY <1>4

\* When no mirror is to be gathered, none is newer than the shared copy: of the
\* mirrors, whose times are bounded, one is the newest.
LEMMA NoneToGather ==
    ASSUME WorldTyped, NEW t \in Threads, \A p \in Places : Fresh(p) <= Newest,
           \A i \in Instances : ~ToShared(i, t)
    PROVE  \A j \in MirrorsOf(t) : Fresh(j) <= Fresh(Shared)
  <1> SUFFICES ASSUME NEW k \in MirrorsOf(t)
               PROVE  Fresh(k) <= Fresh(Shared)
    OBVIOUS
  <1> DEFINE gaps == {Newest - Fresh(j) : j \in MirrorsOf(t)}
  <1>0. MirrorsOf(t) \subseteq Instances /\ Newest \in Nat /\ Fresh(Shared) \in Nat
        /\ \A j \in Instances : Fresh(j) \in Nat /\ Fresh(j) <= Newest
    BY WorldTypes DEF MirrorsOf
  <1>1. gaps \in SUBSET Nat /\ gaps # {}
    BY <1>0
  <1>2. PICK x \in gaps : \A y \in gaps : x <= y
    BY <1>1, SmallestOf
  <1>3. PICK i \in MirrorsOf(t) : x = Newest - Fresh(i)
    BY <1>2
  <1>4. \A j \in MirrorsOf(t) : Newest - Fresh(i) <= Newest - Fresh(j)
    BY <1>2, <1>3
  <1>5. \A j \in MirrorsOf(t) : Fresh(j) <= Fresh(i)
    BY <1>0, <1>4
  <1>6. ~(Fresh(i) > Fresh(Shared))
    BY <1>0, <1>5 DEF ToShared
  <1> QED
    BY <1>0, <1>5, <1>6

\* No directory is newer than the last save.
LEMMA FreshIsBounded ==
    ASSUME WorldTyped, Times, Judged
    PROVE  \A p \in Places : Fresh(p) <= Newest
  BY TwoThreads DEF Times, Fresh, At

\* A pass knows the newest of the mirrors it looked at.
LEMMA GatheringStep ==
    ASSUME WorldTyped, Control, Alone, Times, Newer, Gathering, Next
    PROVE  Gathering'
  <1>0. Untroubled' => /\ Untroubled /\ Calm /\ failures' = failures
                       /\ "overlap" \notin trouble
                       /\ \A t, u \in Threads : t # u => Waits(t) \/ Waits(u)
                       /\ \A t, u \in Threads : t # u => Waits(t)' \/ Waits(u)'
                       /\ \A t \in Threads : ~Waits(t) => ~Disturbed(t)
                       /\ clock' = clock \/ \A t \in Threads : ~Working(t)
    BY CalmPast, Past DEF Untroubled
  <1>f. failures + 1 # failures
    <2>1. failures \in Nat
      BY DEF WorldTyped, StoreTyped
    <2> QED
      BY <2>1
  <1>1. ASSUME StartPass
        PROVE  Gathering'
    BY <1>0, <1>1, StartPassEffect, TwoThreads DEF Gathering, Copying, Waits, Working, Refreshing, ReplacePcs,
       Others, SameDisk, SameGames, SameCopy, PutResult, MirrorsOf
  <1>2. ASSUME NEW wanted \in SUBSET Instances, StartChange(wanted)
        PROVE  Gathering'
    BY <1>0, <1>2, StartChangeEffect, TwoThreads DEF Gathering, Copying, Waits, Working, Refreshing,
       ReplacePcs, Others, SameDisk, SameGames, SameCopy, PutResult, MirrorsOf
  <1>3. ASSUME NEW source \in Instances, NEW others \in SUBSET Instances, StartEnable(source, others)
        PROVE  Gathering'
    BY <1>0, <1>3, StartEnableEffect, TwoThreads DEF Gathering, Copying, Waits, Working, Refreshing,
       ReplacePcs, Others, SameDisk, SameGames, SameCopy, PutResult
  <1>4. ASSUME NEW t \in Threads, Survey(t)
        PROVE  Gathering'
    <2>1. Untroubled' => \A p \in Places : Fresh(p) <= Newest
      BY <1>0, FreshIsBounded DEF Judged, Calm
    <2>2. MirrorsOf(t)' = MirrorsOf(t)
      BY <1>4, SurveyEffect DEF MirrorsOf, SameDisk, SameJob
    <2>3. \A j \in MirrorsOf(t) : j \in Places /\ Fresh(j) = disk[j].time
      BY Plain, WorldTypes DEF MirrorsOf, IsDir
    <2>4. Fresh(Shared) = disk[Shared].time
      BY Plain
    <2>5. Untroubled' /\ thread'[t].pc = "compare" => \A j \in MirrorsOf(t) : disk[j].time <= disk[Shared].time
      BY <1>4, <2>1, <2>3, <2>4, NoneToGather, SurveyEffect
    <2>6. thread'[t].pc = "copy" =>
            thread'[t].src \in MirrorsOf(t) /\ \A j \in MirrorsOf(t) : disk[j].time <= disk[thread'[t].src].time
      BY <1>4, <2>3, SurveyEffect DEF ToShared
    <2> QED
      BY <1>0, <1>4, <2>2, <2>5, <2>6, SurveyEffect, TwoThreads DEF Gathering, Copying, Waits, Working,
         ReplacePcs, SameDisk, SameJob, Others
  <1>5. ASSUME NEW t \in Threads, Compare(t)
        PROVE  Gathering'
    BY <1>0, <1>f, <1>5, CompareEffect, TwoThreads, Plain DEF Gathering, Copying, Waits, Newer, Control,
       Mirrors, MirrorsOf, Working, Refreshing, ReplacePcs, Others, SameDisk, SameStore,
       SameGames, SameJob, SameCopy, Over
  <1>6. ASSUME NEW t \in Threads, Refresh(t)
        PROVE  Gathering'
    <2>1. thread[t].mirrors \subseteq Instances
      BY WorldTypes
    <2> QED
      BY <1>0, <1>6, <2>1, RefreshEffect, TwoThreads DEF Gathering, Copying, Waits, Working, ReplacePcs,
         Others, SameDisk
  <1>7. ASSUME NEW t \in Threads, Mirrored(t)
        PROVE  Gathering'
    BY <1>0, <1>f, <1>7, MirroredEffect, TwoThreads, Plain DEF Gathering, Copying, Waits, Newer, Control,
       Mirrors, MirrorsOf, Working, Refreshing, ReplacePcs, Others, SameDisk, SameStore,
       SameGames, SameJob, SameCopy, Over
  <1>8. ASSUME NEW t \in Threads, CopyToStaging(t)
        PROVE  Gathering'
    BY <1>0, <1>f, <1>8, CopyResult, TwoThreads, Plain DEF Gathering, Copying, Waits, Newer, Control, Mirrors,
       MirrorsOf, Working, Refreshing, ReplacePcs, Others, SameDisk, SameStore, SameGames,
       SameJob, SameCopy, Over, At, Fresh, Exists, IsDir
  <1>9. ASSUME NEW t \in Threads, SwapOut(t)
        PROVE  Gathering'
    <2> SUFFICES ASSUME Untroubled', thread[t].dst = Shared
                 PROVE  Gathering'
      BY <1>0, <1>9, SwapOutEffect, TwoThreads DEF Gathering, Copying, Waits, Working, ReplacePcs, Others,
         SameCopy
    <2>1. \A j \in Instances : disk'[j] = disk[j]
      BY <1>9, SwapOutEffect, TwoThreads
    <2>2. MirrorsOf(t)' = MirrorsOf(t) /\ MirrorsOf(t) \subseteq Instances
      BY <1>9, <2>1, SwapOutEffect, WorldTypes DEF MirrorsOf, SameJob
    <2>3. disk'[Shared].kind = "none"
      BY <1>9, SwapOutEffect, Plain, WorldTypes, KindEntries DEF Control, Exists
    <2> QED
      BY <1>0, <1>9, <2>1, <2>2, <2>3, SwapOutEffect, TwoThreads DEF Gathering, Copying, Waits, Working,
         ReplacePcs, Others, SameCopy
  <1>10. ASSUME NEW t \in Threads, SwapIn(t)
        PROVE  Gathering'
    <2> SUFFICES ASSUME Untroubled', thread[t].dst = Shared
                 PROVE  Gathering'
      BY <1>0, <1>10, SwapInResult, TwoThreads DEF Gathering, Copying, Waits, Working, ReplacePcs, Others, Over
    <2>1. \A j \in Instances : disk'[j] = disk[j]
      BY <1>10, SwapInResult, TwoThreads
    <2>2. MirrorsOf(t)' = MirrorsOf(t) /\ MirrorsOf(t) \subseteq Instances
      BY <1>10, <2>1, SwapInResult, WorldTypes DEF MirrorsOf, SameJob
    <2>3. disk[Shared].kind = "none" /\ staging[Shared].kind = "dir"
      BY <1>0, <1>10, SwapInResult DEF Gathering, Copying, Waits, Alone, Calm
    <2>4. disk'[Shared] = staging[Shared]
      BY <1>10, <2>3, SwapInResult
    <2>5. /\ thread[t].mirrors = MirrorsOf(t)
          /\ \A j \in MirrorsOf(t) : disk[j].time <= staging[Shared].time
      BY <1>0, <1>10, SwapInResult DEF Gathering, Copying, Waits, ReplacePcs
    <2> QED
      BY <1>0, <1>10, <2>1, <2>2, <2>4, <2>5, SwapInResult, TwoThreads DEF Gathering, Copying, Waits, Working,
         ReplacePcs, Others, Over
  <1>11. ASSUME Unlink(Changer)
        PROVE  Gathering'
    BY <1>0, <1>11, UnlinkResult, TwoThreads DEF Gathering, Copying, Waits, Working, Refreshing, ReplacePcs,
       Others, SameDisk, SameGames, SameCopy, PutResult
  <1>12. ASSUME Restore(Changer)
        PROVE  Gathering'
    BY <1>0, <1>12, RestoreResult, TwoThreads DEF Gathering, Copying, Waits, Working, Refreshing, ReplacePcs,
       Others, SameDisk, SameGames, SameCopy, PutResult
  <1>13. ASSUME Detached(Changer)
        PROVE  Gathering'
    BY <1>0, <1>13, DetachedEffect, TwoThreads DEF Gathering, Copying, Waits, Working, Refreshing, ReplacePcs,
       Others, SameDisk, SameGames, SameCopy, PutResult
  <1>14. ASSUME Move(Changer)
        PROVE  Gathering'
    BY <1>0, <1>14, MoveEffect, TwoThreads DEF Gathering, Copying, Waits, Working, Refreshing, ReplacePcs,
       Others, SameDisk, SameGames, SameCopy, PutResult
  <1>15. ASSUME PlaceBack(Changer)
        PROVE  Gathering'
    BY <1>0, <1>15, PlaceBackResult, TwoThreads DEF Gathering, Copying, Waits, Working, Refreshing,
       ReplacePcs, Others, SameDisk, SameGames, SameCopy, PutResult
  <1>16. ASSUME Place(Changer)
        PROVE  Gathering'
    BY <1>0, <1>16, PlaceResult, TwoThreads DEF Gathering, Copying, Waits, Working, Refreshing, ReplacePcs,
       Others, SameDisk, SameGames, SameCopy, PutResult
  <1>17. ASSUME Placed(Changer)
        PROVE  Gathering'
    BY <1>0, <1>17, PlacedEffect, TwoThreads DEF Gathering, Copying, Waits, Working, Refreshing, ReplacePcs,
       Others, SameDisk, SameGames, SameCopy, PutResult
  <1>18. ASSUME Reply(Changer)
        PROVE  Gathering'
    BY <1>0, <1>18, ReplyEffect, TwoThreads DEF Gathering, Copying, Waits, Working, Refreshing, ReplacePcs,
       Others, SameDisk, SameGames, SameCopy, PutResult
  <1>19. ASSUME NEW i \in Instances, StartGame(i)
        PROVE  Gathering'
    BY <1>0, <1>19, GameEffects DEF Gathering, Copying, Waits, SameDisk, Refreshing, MirrorsOf, Heading, IsDir
  <1>20. ASSUME NEW i \in Instances, SaveGame(i)
        PROVE  Gathering'
    <2>1. clock' # clock
      BY <1>20, SaveResult, WorldTypes
    <2> QED
      BY <1>0, <1>20, <2>1, SaveResult DEF Gathering, Copying, Waits, Working, Refreshing, ReplacePcs
  <1>21. ASSUME NEW i \in Instances, QuitGame(i)
        PROVE  Gathering'
    BY <1>0, <1>21, GameEffects DEF Gathering, Copying, Waits, SameDisk, Refreshing, MirrorsOf, Heading, IsDir
  <1>22. ASSUME Crash
        PROVE  Gathering'
    BY <1>22, CrashEffect DEF Gathering, Copying, Waits, Refreshing, ReplacePcs
  <1>23. ASSUME NEW t \in Threads, Filling(t)
        PROVE  Gathering'
    <2>1. MirrorsOf(t)' = MirrorsOf(t)
      BY <1>23, FillEffect DEF MirrorsOf, SameJob
    <2> QED
      BY <1>0, <1>23, <2>1, FillEffect, TwoThreads DEF Gathering, Copying, Waits, ReplacePcs,
         Others, SameCopy
  <1> QED
    BY <1>1, <1>2, <1>3, <1>4, <1>5, <1>6, <1>7, <1>8, <1>9, <1>10, <1>11, <1>12, <1>13,
       <1>14, <1>15, <1>16, <1>17, <1>18, <1>19, <1>20, <1>21, <1>22, <1>23 DEF Next, Step, Filling

\* A mirror a pass is done with is not behind the shared copy.
LEMMA SpreadingStep ==
    ASSUME WorldTyped, Control, Alone, Newer, Gathering, Spreading, Next
    PROVE  Spreading'
  <1>0. Untroubled' => /\ Untroubled /\ Calm /\ failures' = failures
                       /\ "overlap" \notin trouble
                       /\ \A t, u \in Threads : t # u => Waits(t) \/ Waits(u)
                       /\ \A t, u \in Threads : t # u => Waits(t)' \/ Waits(u)'
                       /\ \A t \in Threads : ~Waits(t) => ~Disturbed(t)
                       /\ clock' = clock \/ \A t \in Threads : ~Working(t)
    BY CalmPast, Past DEF Untroubled
  <1>f. failures + 1 # failures
    <2>1. failures \in Nat
      BY DEF WorldTyped, StoreTyped
    <2> QED
      BY <2>1
  <1>1. ASSUME StartPass
        PROVE  Spreading'
    BY <1>0, <1>1, StartPassEffect, TwoThreads DEF Spreading, Copying, Waits, Working, Refreshing, ReplacePcs,
       Others, SameDisk, SameGames, SameCopy, PutResult, MirrorsOf, Heading, IsDir
  <1>2. ASSUME NEW wanted \in SUBSET Instances, StartChange(wanted)
        PROVE  Spreading'
    BY <1>0, <1>2, StartChangeEffect, TwoThreads DEF Spreading, Copying, Waits, Working, Refreshing,
       ReplacePcs, Others, SameDisk, SameGames, SameCopy, PutResult, MirrorsOf, Heading, IsDir
  <1>3. ASSUME NEW source \in Instances, NEW others \in SUBSET Instances, StartEnable(source, others)
        PROVE  Spreading'
    BY <1>0, <1>3, StartEnableEffect, TwoThreads DEF Spreading, Copying, Waits, Working, Refreshing,
       ReplacePcs, Others, SameDisk, SameGames, SameCopy, PutResult
  <1>4. ASSUME NEW t \in Threads, Survey(t)
        PROVE  Spreading'
    BY <1>0, <1>4, SurveyEffect, TwoThreads DEF Spreading, Copying, Waits, Working, Refreshing, ReplacePcs,
       Others
  <1>5. ASSUME NEW t \in Threads, Compare(t)
        PROVE  Spreading'
    <2>1. MirrorsOf(t)' = MirrorsOf(t)
      BY <1>5, CompareEffect DEF MirrorsOf, SameDisk, SameJob
    <2>2. Fresh(Shared) = disk[Shared].time
      BY Plain
    <2> QED
      BY <1>0, <1>5, <2>1, <2>2, CompareEffect, TwoThreads DEF Spreading, Copying, Waits, Gathering, Working,
         Refreshing, ReplacePcs, SameDisk, Others
  <1>6. ASSUME NEW t \in Threads, Refresh(t)
        PROVE  Spreading'
    <2>0. Untroubled' => thread[t].mirrors \subseteq MirrorsOf(t)
      BY <1>0, <1>6, RefreshEffect DEF Spreading, Copying, Waits, Refreshing
    <2>1. MirrorsOf(t)' = MirrorsOf(t) /\ \A j \in MirrorsOf(t) : /\ j \in Instances /\ IsDir(j)
                                                                  /\ Fresh(j) = disk[j].time
      BY <1>6, RefreshEffect, WorldTypes, Plain DEF MirrorsOf, SameDisk, SameJob, IsDir
    <2>2. \A j \in MirrorsOf(t) : disk[j].time \in Nat
      BY <2>1, WorldTypes
    <2>3. thread[t].fresh \in Nat
      BY WorldTypes
    <2>4. PICK i \in thread[t].mirrors :
            /\ thread'[t].mirrors = thread[t].mirrors \ {i}
            /\ \/ /\ thread[t].fresh > Fresh(i) /\ thread'[t].pc = "copy"
                  /\ thread'[t].src = Shared /\ thread'[t].dst = i
               \/ /\ ~(thread[t].fresh > Fresh(i)) /\ thread'[t].pc = "refresh"
                  /\ thread'[t].src = thread[t].src /\ thread'[t].dst = thread[t].dst
      BY <1>6, RefreshEffect
    <2>5. /\ thread[t].pc = "refresh" /\ disk' = disk /\ thread'[t].fresh = thread[t].fresh
          /\ \A u \in Threads : u # t => thread'[u] = thread[u]
      BY <1>6, RefreshEffect DEF SameDisk, Others
    <2>6. Untroubled' => /\ thread'[t].mirrors \subseteq MirrorsOf(t)
                         /\ \A j \in MirrorsOf(t) :
                               /\ disk[j].time <= thread[t].fresh
                               /\ j \in thread'[t].mirrors \/ Heading(t, j)' \/ disk[j].time = thread[t].fresh
      BY <1>0, <2>0, <2>1, <2>2, <2>3, <2>4, <2>5 DEF Spreading, Copying, Waits, Refreshing, Heading
    <2> QED
      BY <1>0, <2>0, <2>1, <2>4, <2>5, <2>6, TwoThreads DEF Spreading, Copying, Waits, Working, Refreshing,
         ReplacePcs, IsDir
  <1>7. ASSUME NEW t \in Threads, Mirrored(t)
        PROVE  Spreading'
    BY <1>0, <1>7, MirroredEffect, TwoThreads DEF Spreading, Copying, Waits, Working, Refreshing, ReplacePcs,
       Others
  <1>8. ASSUME NEW t \in Threads, CopyToStaging(t)
        PROVE  Spreading'
    <2> SUFFICES ASSUME Untroubled', thread[t].dst # Shared
                 PROVE  Spreading'
      BY <1>0, <1>8, CopyResult, TwoThreads DEF Spreading, Copying, Waits, Working, Refreshing, ReplacePcs,
         Others, Over
    <2>1. /\ thread[t].src = Shared /\ thread[t].fresh # 0 /\ thread[t].fresh = disk[Shared].time
      BY <1>0, <1>8, CopyResult DEF Control, Mirrors, ReplacePcs, Newer, Refreshing
    <2>2. Fresh(Shared) = disk[Shared].time /\ Exists(Shared)
      BY <2>1, Plain, WorldTypes
    <2>3. /\ thread'[t].pc = "swapOut" /\ thread'[t].dst = thread[t].dst
          /\ staging'[thread[t].dst].time = thread[t].fresh
          /\ disk' = disk /\ thread'[t].fresh = thread[t].fresh /\ SameJob(t) /\ Others(t)
          /\ thread'[t].mirrors = thread[t].mirrors
      BY <1>0, <1>f, <1>8, <2>1, <2>2, CopyResult DEF Waits
    <2>4. MirrorsOf(t)' = MirrorsOf(t)
      BY <2>3 DEF MirrorsOf, SameJob
    <2>5. thread[t].pc = "fill"
      BY <1>8, CopyResult
    <2> QED
      BY <1>0, <2>3, <2>4, <2>5, TwoThreads DEF Spreading, Copying, Waits, Working, Refreshing, ReplacePcs,
         Others, Heading, IsDir
  <1>9. ASSUME NEW t \in Threads, SwapOut(t)
        PROVE  Spreading'
    <2> SUFFICES ASSUME Untroubled', thread[t].dst # Shared
                 PROVE  Spreading'
      BY <1>0, <1>9, SwapOutEffect, TwoThreads DEF Spreading, Copying, Waits, Working, Refreshing, ReplacePcs,
         Others, SameCopy
    <2>1. /\ thread[t].pc = "swapOut" /\ thread'[t].pc = "swapIn" /\ SameJob(t) /\ SameCopy(t) /\ Others(t)
          /\ staging' = staging /\ thread[t].dst \in Instances
      BY <1>9, SwapOutEffect, TwoThreads, WorldTypes
    <2>2. IsDir(thread[t].dst)
      BY <1>0, <2>1 DEF Spreading
    <2>3. disk'[thread[t].dst].kind = "none" /\ \A p \in Places : p # thread[t].dst => disk'[p] = disk[p]
      BY <1>9, <2>1, <2>2, SwapOutEffect, KindEntries DEF IsDir, Exists, At
    <2>4. MirrorsOf(t)' = MirrorsOf(t) \ {thread[t].dst}
      BY <2>1, <2>3, WorldTypes, TwoThreads DEF MirrorsOf, SameJob
    <2>5. MirrorsOf(t) \subseteq Instances
      BY WorldTypes DEF MirrorsOf
    <2> QED
      BY <1>0, <2>1, <2>3, <2>4, <2>5, TwoThreads DEF Spreading, Copying, Waits, Working, Refreshing,
         ReplacePcs, Others, SameCopy, Heading
  <1>10. ASSUME NEW t \in Threads, SwapIn(t)
        PROVE  Spreading'
    <2> SUFFICES ASSUME Untroubled', thread[t].dst # Shared
                 PROVE  Spreading'
      BY <1>0, <1>10, SwapInResult, TwoThreads DEF Spreading, Copying, Waits, Working, Refreshing, ReplacePcs,
         Others, Over
    <2>1. /\ thread[t].pc = "swapIn" /\ thread'[t].pc = "refresh" /\ SameJob(t) /\ Others(t)
          /\ thread'[t].mirrors = thread[t].mirrors /\ thread'[t].fresh = thread[t].fresh
          /\ thread[t].dst \in Instances
      BY <1>10, SwapInResult, TwoThreads DEF Over
    <2>2. staging[thread[t].dst].kind = "dir" /\ disk[thread[t].dst].kind = "none"
          /\ staging[thread[t].dst].time = thread[t].fresh
          /\ thread[t].dst \notin thread[t].mirrors
      BY <1>0, <2>1 DEF Spreading, Copying, Waits, Alone, Calm, ReplacePcs
    <2>3. disk'[thread[t].dst] = staging[thread[t].dst] /\ \A p \in Places : p # thread[t].dst => disk'[p] = disk[p]
      BY <1>10, <2>2, SwapInResult
    <2>4. MirrorsOf(t)' = MirrorsOf(t) \cup (MirrorsOf(t)' \cap {thread[t].dst})
          /\ thread[t].dst \notin MirrorsOf(t)
          /\ MirrorsOf(t) \subseteq Instances
      BY <2>1, <2>2, <2>3, WorldTypes, TwoThreads DEF MirrorsOf, SameJob
    <2>5. thread[t].fresh \in Nat
      BY WorldTypes
    <2>6. \A j \in MirrorsOf(t)' : /\ disk'[j].time <= thread[t].fresh
                                   /\ j \in thread[t].mirrors \/ disk'[j].time = thread[t].fresh
      BY <1>0, <2>1, <2>2, <2>3, <2>4, <2>5, TwoThreads DEF Spreading, Copying, Waits, Refreshing, ReplacePcs,
         Heading
    <2>7. thread[t].mirrors \subseteq MirrorsOf(t)
      BY <1>0, <2>1 DEF Spreading, Copying, Waits, Refreshing, ReplacePcs
    <2> QED
      BY <1>0, <2>1, <2>4, <2>6, <2>7, TwoThreads DEF Spreading, Copying, Waits, Working, Refreshing,
         ReplacePcs, Others
  <1>11. ASSUME Unlink(Changer)
        PROVE  Spreading'
    BY <1>0, <1>11, UnlinkResult, TwoThreads DEF Spreading, Copying, Waits, Working, Refreshing, ReplacePcs,
       Others, SameDisk, SameGames, SameCopy, PutResult
  <1>12. ASSUME Restore(Changer)
        PROVE  Spreading'
    BY <1>0, <1>12, RestoreResult, TwoThreads DEF Spreading, Copying, Waits, Working, Refreshing, ReplacePcs,
       Others, SameDisk, SameGames, SameCopy, PutResult
  <1>13. ASSUME Detached(Changer)
        PROVE  Spreading'
    BY <1>0, <1>13, DetachedEffect, TwoThreads DEF Spreading, Copying, Waits, Working, Refreshing, ReplacePcs,
       Others, SameDisk, SameGames, SameCopy, PutResult
  <1>14. ASSUME Move(Changer)
        PROVE  Spreading'
    BY <1>0, <1>14, MoveEffect, TwoThreads DEF Spreading, Copying, Waits, Working, Refreshing, ReplacePcs,
       Others, SameDisk, SameGames, SameCopy, PutResult
  <1>15. ASSUME PlaceBack(Changer)
        PROVE  Spreading'
    BY <1>0, <1>15, PlaceBackResult, TwoThreads DEF Spreading, Copying, Waits, Working, Refreshing,
       ReplacePcs, Others, SameDisk, SameGames, SameCopy, PutResult
  <1>16. ASSUME Place(Changer)
        PROVE  Spreading'
    BY <1>0, <1>16, PlaceResult, TwoThreads DEF Spreading, Copying, Waits, Working, Refreshing, ReplacePcs,
       Others, SameDisk, SameGames, SameCopy, PutResult
  <1>17. ASSUME Placed(Changer)
        PROVE  Spreading'
    BY <1>0, <1>17, PlacedEffect, TwoThreads DEF Spreading, Copying, Waits, Working, Refreshing, ReplacePcs,
       Others, SameDisk, SameGames, SameCopy, PutResult
  <1>18. ASSUME Reply(Changer)
        PROVE  Spreading'
    BY <1>0, <1>18, ReplyEffect, TwoThreads DEF Spreading, Copying, Waits, Working, Refreshing, ReplacePcs,
       Others, SameDisk, SameGames, SameCopy, PutResult
  <1>19. ASSUME NEW i \in Instances, StartGame(i)
        PROVE  Spreading'
    BY <1>0, <1>19, GameEffects DEF Spreading, Copying, Waits, SameDisk, Refreshing, MirrorsOf, Heading, IsDir
  <1>20. ASSUME NEW i \in Instances, SaveGame(i)
        PROVE  Spreading'
    <2>1. clock' # clock
      BY <1>20, SaveResult, WorldTypes
    <2> QED
      BY <1>0, <1>20, <2>1, SaveResult DEF Spreading, Copying, Waits, Working, Refreshing, ReplacePcs
  <1>21. ASSUME NEW i \in Instances, QuitGame(i)
        PROVE  Spreading'
    BY <1>0, <1>21, GameEffects DEF Spreading, Copying, Waits, SameDisk, Refreshing, MirrorsOf, Heading, IsDir
  <1>22. ASSUME Crash
        PROVE  Spreading'
    BY <1>22, CrashEffect DEF Spreading, Copying, Waits, Refreshing, ReplacePcs
  <1>23. ASSUME NEW t \in Threads, Filling(t)
        PROVE  Spreading'
    <2>1. MirrorsOf(t)' = MirrorsOf(t)
      BY <1>23, FillEffect DEF MirrorsOf, SameJob
    <2> QED
      BY <1>0, <1>23, <2>1, FillEffect, TwoThreads DEF Spreading, Waits, Refreshing,
         ReplacePcs, Others, SameCopy, Heading, IsDir
  <1> QED
    BY <1>1, <1>2, <1>3, <1>4, <1>5, <1>6, <1>7, <1>8, <1>9, <1>10, <1>11, <1>12, <1>13,
       <1>14, <1>15, <1>16, <1>17, <1>18, <1>19, <1>20, <1>21, <1>22, <1>23 DEF Next, Step, Filling

-----------------------------------------------------------------------------
(* No directory looks newer than the last save.                             *)

\* What is judged was judged before; no change was abandoned and no game met a
\* job; jobs past their survey do not meet; and nothing failed if a game saved late.
LEMMA JudgedPast ==
    ASSUME WorldTyped, Alone, Next, Judged'
    PROVE  /\ Judged /\ ~Abandon /\ ~Clash /\ ~Again
           /\ \A t, u \in Threads : t # u => Waits(t) \/ Waits(u)
           /\ \A t, u \in Threads : t # u => Waits(t)' \/ Waits(u)'
           /\ \A t \in Threads : ~Waits(t) => ~Disturbed(t)
  <1>1. Judged /\ ~Abandon /\ ~Clash /\ ~Again
    BY Past DEF Judged, Calm
  <1>2. "overlap" \notin trouble' /\ "overlap" \notin trouble
    BY <1>1 DEF Judged, Calm
  <1>3. \E t \in Threads : Waits(t)'
    BY <1>2, Past DEF Waits
  <1>4. \A t, u \in Threads : t # u => Waits(t)' \/ Waits(u)'
    BY <1>3, TwoThreads
  <1>5. \A t, u \in Threads : t # u => Waits(t) \/ Waits(u)
    BY <1>2, TwoThreads DEF Alone
  <1>6. \A t \in Threads : ~Waits(t) => ~Disturbed(t)
    BY <1>2, Undisturbed
  <1> QED
    BY <1>1, <1>4, <1>5, <1>6

\* No directory on disk is newer than the last save.
LEMMA TimesStep ==
    ASSUME WorldTyped, Control, Alone, Times, Next
    PROVE  Times'
  <1>0. Judged' => /\ Judged /\ ~Abandon
                   /\ \A t, u \in Threads : t # u => Waits(t) \/ Waits(u)
                   /\ \A t \in Threads : ~Waits(t) => ~Disturbed(t)
    BY JudgedPast
  <1>f. failures + 1 # 0
    <2>1. failures \in Nat
      BY DEF WorldTyped, StoreTyped
    <2> QED
      BY <2>1
  <1>n. SameGames => Newest' = Newest
    BY DEF SameGames, Newest
  <1>b. Judged' => /\ \A p \in Places : Fresh(p) <= Newest /\ disk[p].time <= Newest
                   /\ \A t \in Threads :
                         /\ Working(t) => thread[t].fresh <= Newest
                         /\ thread[t].pc \in {"swapOut", "swapIn"} => staging[thread[t].dst].time <= Newest
    BY <1>0, FreshIsBounded DEF Times
  <1>z. 0 <= Newest /\ Newest \in Nat
    BY WorldTypes
  <1>p. /\ \A t \in Threads : thread[t].dst \in Places
        /\ thread[Changer].todo \subseteq Instances
    BY WorldTypes
  <1>1. ASSUME StartPass
        PROVE  Times'
    BY <1>0, <1>n, <1>b, <1>z, <1>p, <1>1, StartPassEffect, KindEntries, TwoThreads DEF Times,
       Working, Others, SameDisk, SameStore, SameJob, SameCopy, Over, PutResult
  <1>2. ASSUME NEW wanted \in SUBSET Instances, StartChange(wanted)
        PROVE  Times'
    BY <1>0, <1>n, <1>b, <1>z, <1>p, <1>2, StartChangeEffect, KindEntries, TwoThreads
       DEF Times, Working, Others, SameDisk, SameStore, SameJob, SameCopy, Over, PutResult
  <1>3. ASSUME NEW source \in Instances, NEW others \in SUBSET Instances, StartEnable(source, others)
        PROVE  Times'
    BY <1>0, <1>n, <1>b, <1>z, <1>p, <1>3, StartEnableEffect, KindEntries, TwoThreads
       DEF Times, Working, Others, SameDisk, SameStore, SameJob, SameCopy, Over, PutResult
  <1>4. ASSUME NEW t \in Threads, Survey(t)
        PROVE  Times'
    BY <1>0, <1>n, <1>b, <1>4, SurveyEffect DEF Times, Working, SameDisk, Others
  <1>5. ASSUME NEW t \in Threads, Compare(t)
        PROVE  Times'
    BY <1>0, <1>n, <1>b, <1>z, <1>p, <1>5, CompareEffect, KindEntries, TwoThreads DEF Times,
       Working, Others, SameDisk, SameStore, SameJob, SameCopy, Over, PutResult
  <1>6. ASSUME NEW t \in Threads, Refresh(t)
        PROVE  Times'
    BY <1>0, <1>n, <1>b, <1>6, RefreshEffect DEF Times, Working, SameDisk, Others
  <1>7. ASSUME NEW t \in Threads, Mirrored(t)
        PROVE  Times'
    BY <1>0, <1>n, <1>b, <1>z, <1>p, <1>7, MirroredEffect, KindEntries, TwoThreads DEF Times,
       Working, Others, SameDisk, SameStore, SameJob, SameCopy, Over, PutResult
  <1>8. ASSUME NEW t \in Threads, CopyToStaging(t)
        PROVE  Times'
    <2> SUFFICES ASSUME Judged'
                 PROVE  Times'
      BY DEF Times
    <2>1. /\ thread[t].pc = "fill" /\ disk' = disk /\ Newest' = Newest /\ Others(t)
          /\ thread'[t].fresh = thread[t].fresh
          /\ thread[t].src \in Places /\ thread[t].dst \in Places
      BY <1>n, <1>8, CopyResult
    <2>2. ~Disturbed(t) /\ \A u \in Threads : u # t => thread[u].pc \in {"idle", "survey"}
      BY <1>0, <2>1 DEF Waits
    <2>3. CASE thread'[t].dst = thread[t].dst /\ staging'[thread[t].dst].time = Fresh(thread[t].src)
      BY <1>b, <2>1, <2>2, <2>3 DEF Times, Working, Others
    <2>4. CASE Over(t)
      <3>1. thread'[t].pc \in {"compare", "refresh"}
        BY <2>4 DEF Over
      <3> QED
        BY <1>b, <2>1, <2>2, <3>1 DEF Times, Working, Others
    <2> QED
      BY <1>8, <2>2, <2>3, <2>4, CopyResult
  <1>9. ASSUME NEW t \in Threads, SwapOut(t)
        PROVE  Times'
    BY <1>0, <1>n, <1>b, <1>z, <1>p, <1>9, SwapOutEffect, KindEntries, TwoThreads DEF Times,
       Working, Others, SameDisk, SameStore, SameJob, SameCopy, Over, PutResult
  <1>10. ASSUME NEW t \in Threads, SwapIn(t)
        PROVE  Times'
    BY <1>0, <1>n, <1>b, <1>z, <1>p, <1>10, SwapInResult, KindEntries, TwoThreads DEF Times,
       Working, Others, SameDisk, SameStore, SameJob, SameCopy, Over, PutResult
  <1>11. ASSUME Unlink(Changer)
        PROVE  Times'
    BY <1>0, <1>n, <1>b, <1>z, <1>p, <1>11, UnlinkResult, KindEntries, TwoThreads DEF Times,
       Working, Others, SameDisk, SameStore, SameJob, SameCopy, Over, PutResult
  <1>12. ASSUME Restore(Changer)
        PROVE  Times'
    <2>1. thread'[Changer].pc = "idle" => Abandon
      <3>1. thread[Changer].pc = "restore"
        BY <1>12, RestoreResult
      <3> QED
        BY <3>1 DEF Abandon
    <2> QED
      BY <1>0, <1>n, <1>b, <2>1, <1>12, RestoreResult, TwoThreads DEF Times, Working, Others,
         SameJob
  <1>13. ASSUME Detached(Changer)
        PROVE  Times'
    BY <1>0, <1>n, <1>b, <1>z, <1>p, <1>13, DetachedEffect, KindEntries, TwoThreads DEF Times,
       Working, Others, SameDisk, SameStore, SameJob, SameCopy, Over, PutResult
  <1>14. ASSUME Move(Changer)
        PROVE  Times'
    BY <1>0, <1>n, <1>b, <1>z, <1>p, <1>14, MoveEffect, KindEntries, TwoThreads DEF Times,
       Working, Others, SameDisk, SameStore, SameJob, SameCopy, Over, PutResult
  <1>15. ASSUME PlaceBack(Changer)
        PROVE  Times'
    BY <1>0, <1>n, <1>b, <1>z, <1>p, <1>15, PlaceBackResult, KindEntries, TwoThreads
       DEF Times, Working, Others, SameDisk, SameStore, SameJob, SameCopy, Over, PutResult
  <1>16. ASSUME Place(Changer)
        PROVE  Times'
    BY <1>0, <1>n, <1>b, <1>z, <1>p, <1>16, PlaceResult, KindEntries, TwoThreads DEF Times,
       Working, Others, SameDisk, SameStore, SameJob, SameCopy, Over, PutResult
  <1>17. ASSUME Placed(Changer)
        PROVE  Times'
    BY <1>0, <1>n, <1>b, <1>z, <1>p, <1>17, PlacedEffect, KindEntries, TwoThreads DEF Times,
       Working, Others, SameDisk, SameStore, SameJob, SameCopy, Over, PutResult
  <1>18. ASSUME Reply(Changer)
        PROVE  Times'
    BY <1>0, <1>n, <1>b, <1>z, <1>p, <1>18, ReplyEffect, KindEntries, TwoThreads DEF Times,
       Working, Others, SameDisk, SameStore, SameJob, SameCopy, Over, PutResult
  <1>19. ASSUME NEW i \in Instances, StartGame(i)
        PROVE  Times'
    BY <1>0, <1>b, <1>19, GameEffects DEF Times, Working, SameDisk, Newest
  <1>20. ASSUME NEW i \in Instances, SaveGame(i)
        PROVE  Times'
    <2>1. /\ \A p \in Places : disk'[p].time = Newest' \/ disk'[p].time = disk[p].time
          /\ Newest' = Newest + 2 /\ staging' = staging /\ thread' = thread
      BY <1>20, SaveResult
    <2>2. \A n \in Nat : n <= Newest => n <= Newest'
      BY <1>z, <2>1
    <2>3. Newest' \in Nat /\ Newest' <= Newest'
      BY <1>z, <2>1
    <2>4. /\ \A p \in Places : disk[p].time \in Nat /\ staging[p].time \in Nat
          /\ \A t \in Threads : thread[t].fresh \in Nat /\ thread[t].dst \in Places
      BY WorldTypes
    <2> QED
      BY <1>0, <1>b, <2>1, <2>2, <2>3, <2>4 DEF Times, Working
  <1>21. ASSUME NEW i \in Instances, QuitGame(i)
        PROVE  Times'
    BY <1>0, <1>b, <1>21, GameEffects DEF Times, Working, SameDisk, Newest
  <1>22. ASSUME Crash
        PROVE  Times'
    BY <1>0, <1>n, <1>b, <1>z, <1>22, CrashEffect DEF Times, Working, SameDisk
  <1>23. ASSUME NEW t \in Threads, Filling(t)
        PROVE  Times'
    <2> SUFFICES ASSUME Judged'
                 PROVE  Times'
      BY DEF Times
    <2>1. /\ thread[t].pc \in {"copy", "fill"} /\ thread'[t].pc = "fill"
          /\ disk' = disk /\ Newest' = Newest /\ Others(t) /\ thread'[t].fresh = thread[t].fresh
      BY <1>n, <1>23, FillEffect DEF SameCopy
    <2>2. \A u \in Threads : u # t => thread[u].pc \in {"idle", "survey"}
      BY <1>0, <2>1 DEF Waits
    <2> QED
      BY <1>b, <2>1, <2>2 DEF Times, Working, Others
  <1> QED
    BY <1>1, <1>2, <1>3, <1>4, <1>5, <1>6, <1>7, <1>8, <1>9, <1>10, <1>11, <1>12, <1>13,
       <1>14, <1>15, <1>16, <1>17, <1>18, <1>19, <1>20, <1>21, <1>22, <1>23 DEF Next, Step, Filling

\* The mirror that is copied to the shared directory stays there.
LEMMA SourcesStep ==
    ASSUME WorldTyped, Control, Alone, Sources, Next
    PROVE  Sources'
  <1>0. Judged' => /\ Judged
                   /\ \A t, u \in Threads : t # u => Waits(t) \/ Waits(u)
                   /\ \A t, u \in Threads : t # u => Waits(t)' \/ Waits(u)'
    BY JudgedPast
  <1>1. ASSUME StartPass
        PROVE  Sources'
    BY <1>0, <1>1, StartPassEffect, TwoThreads DEF Sources, Copying, Waits, IsDir, Others,
       SameDisk, SameCopy, Over, PutResult
  <1>2. ASSUME NEW wanted \in SUBSET Instances, StartChange(wanted)
        PROVE  Sources'
    BY <1>0, <1>2, StartChangeEffect, TwoThreads DEF Sources, Copying, Waits, IsDir, Others,
       SameDisk, SameCopy, Over, PutResult
  <1>3. ASSUME NEW source \in Instances, NEW others \in SUBSET Instances, StartEnable(source, others)
        PROVE  Sources'
    BY <1>0, <1>3, StartEnableEffect, TwoThreads DEF Sources, Copying, Waits, IsDir, Others,
       SameDisk, SameCopy, Over, PutResult
  <1>4. ASSUME NEW t \in Threads, Survey(t)
        PROVE  Sources'
    BY <1>0, <1>4, SurveyEffect, TwoThreads DEF Sources, Copying, Waits, IsDir, Others,
       SameDisk, ToShared, MirrorsOf
  <1>5. ASSUME NEW t \in Threads, Compare(t)
        PROVE  Sources'
    BY <1>0, <1>5, CompareEffect, TwoThreads DEF Sources, Copying, Waits, IsDir, Others,
       SameDisk, SameCopy, Over, PutResult
  <1>6. ASSUME NEW t \in Threads, Refresh(t)
        PROVE  Sources'
    <2>1. thread[t].mirrors \subseteq Instances
      BY WorldTypes
    <2> QED
      BY <1>0, <1>6, <2>1, RefreshEffect, TwoThreads DEF Sources, Copying, Waits, IsDir, Others,
         SameDisk
  <1>7. ASSUME NEW t \in Threads, Mirrored(t)
        PROVE  Sources'
    BY <1>0, <1>7, MirroredEffect, TwoThreads DEF Sources, Copying, Waits, IsDir, Others,
       SameDisk, SameCopy, Over, PutResult
  <1>8. ASSUME NEW t \in Threads, CopyToStaging(t)
        PROVE  Sources'
    BY <1>0, <1>8, CopyResult, TwoThreads DEF Sources, Copying, Waits, IsDir, Others,
       SameDisk, SameCopy, Over, PutResult
  <1>9. ASSUME NEW t \in Threads, SwapOut(t)
        PROVE  Sources'
    BY <1>0, <1>9, SwapOutEffect, TwoThreads DEF Sources, Copying, Waits, IsDir, Others,
       SameDisk, SameCopy, Over, PutResult
  <1>10. ASSUME NEW t \in Threads, SwapIn(t)
        PROVE  Sources'
    BY <1>0, <1>10, SwapInResult, TwoThreads DEF Sources, Copying, Waits, IsDir, Others,
       SameDisk, SameCopy, Over, PutResult
  <1>11. ASSUME Unlink(Changer)
        PROVE  Sources'
    BY <1>0, <1>11, UnlinkResult, TwoThreads DEF Sources, Copying, Waits, IsDir, Others,
       SameDisk, SameCopy, Over, PutResult
  <1>12. ASSUME Restore(Changer)
        PROVE  Sources'
    BY <1>0, <1>12, RestoreResult, TwoThreads DEF Sources, Copying, Waits, IsDir, Others,
       SameDisk, SameCopy, Over, PutResult
  <1>13. ASSUME Detached(Changer)
        PROVE  Sources'
    BY <1>0, <1>13, DetachedEffect, TwoThreads DEF Sources, Copying, Waits, IsDir, Others,
       SameDisk, SameCopy, Over, PutResult
  <1>14. ASSUME Move(Changer)
        PROVE  Sources'
    BY <1>0, <1>14, MoveEffect, TwoThreads DEF Sources, Copying, Waits, IsDir, Others,
       SameDisk, SameCopy, Over, PutResult
  <1>15. ASSUME PlaceBack(Changer)
        PROVE  Sources'
    BY <1>0, <1>15, PlaceBackResult, TwoThreads DEF Sources, Copying, Waits, IsDir, Others,
       SameDisk, SameCopy, Over, PutResult
  <1>16. ASSUME Place(Changer)
        PROVE  Sources'
    BY <1>0, <1>16, PlaceResult, TwoThreads DEF Sources, Copying, Waits, IsDir, Others,
       SameDisk, SameCopy, Over, PutResult
  <1>17. ASSUME Placed(Changer)
        PROVE  Sources'
    BY <1>0, <1>17, PlacedEffect, TwoThreads DEF Sources, Copying, Waits, IsDir, Others,
       SameDisk, SameCopy, Over, PutResult
  <1>18. ASSUME Reply(Changer)
        PROVE  Sources'
    BY <1>0, <1>18, ReplyEffect, TwoThreads DEF Sources, Copying, Waits, IsDir, Others,
       SameDisk, SameCopy, Over, PutResult
  <1>19. ASSUME NEW i \in Instances, StartGame(i)
        PROVE  Sources'
    BY <1>0, <1>19, GameEffects, TwoThreads, WorldTypes DEF Sources, Copying, Waits, IsDir, SameDisk
  <1>20. ASSUME NEW i \in Instances, SaveGame(i)
        PROVE  Sources'
    BY <1>0, <1>20, SaveResult, TwoThreads, WorldTypes DEF Sources, Copying, Waits, IsDir, SameDisk
  <1>21. ASSUME NEW i \in Instances, QuitGame(i)
        PROVE  Sources'
    BY <1>0, <1>21, GameEffects, TwoThreads, WorldTypes DEF Sources, Copying, Waits, IsDir, SameDisk
  <1>22. ASSUME Crash
        PROVE  Sources'
    BY <1>0, <1>22, CrashEffect, TwoThreads, WorldTypes DEF Sources, Copying, Waits, IsDir, SameDisk
  <1>23. ASSUME NEW t \in Threads, Filling(t)
        PROVE  Sources'
    BY <1>0, <1>23, FillEffect, TwoThreads DEF Sources, Copying, Waits, IsDir, Others,
       SameDisk, SameCopy, Over, PutResult
  <1> QED
    BY <1>1, <1>2, <1>3, <1>4, <1>5, <1>6, <1>7, <1>8, <1>9, <1>10, <1>11, <1>12, <1>13,
       <1>14, <1>15, <1>16, <1>17, <1>18, <1>19, <1>20, <1>21, <1>22, <1>23 DEF Next, Step, Filling

-----------------------------------------------------------------------------
(* Where the last save is.                                                  *)

\* Nothing fails after a late save, and jobs stay alone.
LEMMA LateSavePast ==
    ASSUME WorldTyped, Alone, Next, Judged', "late save" \in trouble
    PROVE  /\ failures' = 0 /\ failures' = failures /\ "late save" \in trouble'
           /\ \E t \in Threads : ~Working(t)
           /\ \E t \in Threads : thread'[t].pc = "idle"
  <1>1. "late save" \in trouble' /\ trouble \subseteq trouble'
    BY Past
  <1>2. failures' = 0 /\ trouble' = {"late save"}
    BY <1>1 DEF Judged, Calm
  <1>3. "wait" \notin trouble' /\ "wait" \notin trouble
    BY <1>1, <1>2
  <1> QED
    BY <1>1, <1>2, <1>3, Past DEF Alone

\* What a thread in a pass leaves of the anchors.
LEMMA AnchoredKept ==
    ASSUME Anchored, NEW t \in Threads, thread[t].pc \in MirrorPcs, Others(t),
           listed' = listed, everSynced' = everSynced,
           thread'[t].pc = "idle" \/ thread'[t].still = {}
               \/ (thread'[t].still = thread[t].still /\ thread'[t].mode = thread[t].mode),
           \A l \in Instances : IsLink(l) /\ Unmirrored(l) => disk'[l] = disk[l]
    PROVE  Anchored'
  <1>1. \A i \in Instances : Unmirrored(i) => Unmirrored(i)'
    BY DEF Unmirrored, Working, Others, MirrorPcs
  <1>2. CASE \E l \in Instances : IsLink(l) /\ Unmirrored(l)
    BY <1>1, <1>2 DEF Anchored, IsLink
  <1>3. CASE thread[Changer].pc \in {"restore", "placeBack", "idle"}
    <2>1. thread'[Changer] = thread[Changer]
      BY <1>3, TwoThreads DEF MirrorPcs, Others
    <2>2. \A i : Unmirrored(i) => Unmirrored(i)'
      BY DEF Unmirrored, Working, Others, MirrorPcs
    <2> QED
      BY <1>1, <1>2, <2>1, <2>2 DEF Anchored, NoChange
  <1> QED
    BY <1>2, <1>3 DEF Anchored, NoChange

\* The last save is where no step of the job at hand destroys it.
LEMMA NewestIsSafeStep ==
    ASSUME WorldTyped, Control, Alone, LinksAreKnown, Intact, Unplayed, Times, Sources, NewestIsSafe, Next
    PROVE  NewestIsSafe'
  <1>0. Judged' => /\ Judged /\ ~Abandon /\ ~Again /\ Held
                   /\ "clash" \notin trouble /\ "abandoned" \notin trouble
    <2>1. Judged => "clash" \notin trouble /\ "abandoned" \notin trouble
      BY DEF Judged, Calm
    <2> QED
      BY <2>1, JudgedPast DEF NewestIsSafe
  <1>l. Judged' /\ "late save" \in trouble =>
           /\ failures' = 0 /\ failures' = failures /\ "late save" \in trouble'
           /\ \E t \in Threads : ~Working(t)
           /\ \E t \in Threads : thread'[t].pc = "idle"
    BY LateSavePast
  <1>f. failures + 1 # failures
    <2>1. failures \in Nat
      BY DEF WorldTyped, StoreTyped
    <2> QED
      BY <2>1
  <1>n. SameGames => Newest' = Newest
    BY DEF SameGames, Newest
  <1>w. /\ Newest \in Nat /\ Newest # 0
        /\ \A p \in Places : disk[p].kind = "dir" <=> disk[p].time # 0
    BY WorldTypes
  <1>1. ASSUME StartPass
        PROVE  NewestIsSafe'
    <2> SUFFICES ASSUME Judged'
                 PROVE  Held'
      BY DEF NewestIsSafe
    <2>a. ASSUME NEW j \in Instances, Safe(j)
          PROVE  Held'
      <3>1. j \in Places /\ j # Shared /\ Passer \in Threads /\ Changer \in Threads
        BY <2>a, TwoThreads
      <3>2. /\ disk'[j].whole /\ disk'[j].time = Newest'
            /\ ~(thread'[Changer].pc = "restore" /\ thread'[Changer].dst = j)
        BY <1>1, <1>n, <2>a, StartPassEffect, <3>1 DEF Safe, Heading, SameDisk, Others
      <3>3. \A u \in Threads : ~Heading(u, j)'
        BY <1>1, <1>n, <2>a, StartPassEffect, <3>1, TwoThreads DEF Safe, Heading, SameDisk,
           Others
      <3> QED
        BY <2>a, <3>2, <3>3 DEF Held, Safe
    <2>b. ASSUME Safe(Shared), Anchored
          PROVE  Held'
      <3>1. Safe(Shared)'
        BY <1>1, <1>n, <2>b, StartPassEffect, TwoThreads DEF Safe, Heading, SameDisk, Others
      <3>2. thread'[Changer] = thread[Changer] /\ ~Working(Passer) /\ disk' = disk /\ listed
            /\ thread'[Passer].mode = members
        BY <1>1, StartPassEffect, TwoThreads DEF Working, Others, SameDisk
      <3>3. CASE \E l \in Instances : IsLink(l) /\ Unmirrored(l)
        <4>1. PICK l \in Instances : IsLink(l) /\ Unmirrored(l)
          BY <3>3
        <4>2. members[l] # "mirror"
          BY <1>0, <4>1 DEF LinksAreKnown, Control, Adding, Working
        <4>3. Unmirrored(l)'
          BY <3>2, <4>1, <4>2, TwoThreads DEF Unmirrored, Working
        <4>4. IsLink(l)'
          BY <3>2, <4>1 DEF IsLink
        <4> QED
          BY <3>1, <4>3, <4>4 DEF Held, Anchored
      <3>4. CASE thread[Changer].pc = "restore" /\ Unmirrored(thread[Changer].dst)
        <4>1. members[thread[Changer].dst] = "symlink"
          BY <1>0, <3>4 DEF LinksAreKnown
        <4> QED
          BY <3>1, <3>2, <3>4, <4>1, TwoThreads DEF Held, Anchored, Unmirrored, Working
      <3> QED
        BY <2>b, <3>2, <3>3, <3>4 DEF Anchored, Control, Enabling, Changing, Working
    <2>c. ASSUME "late save" \in trouble, SetAside
          PROVE  Held'
      <3>1. Again
        BY <1>1, <2>c, StartPassEffect, TwoThreads DEF Again, AtWork
      <3> QED
        BY <1>0, <3>1
    <2> QED
      BY <1>0, <2>a, <2>b, <2>c DEF Held
  <1>2. ASSUME NEW wanted \in SUBSET Instances, StartChange(wanted)
        PROVE  NewestIsSafe'
    <2> SUFFICES ASSUME Judged'
                 PROVE  Held'
      BY DEF NewestIsSafe
    <2>a. ASSUME NEW j \in Instances, Safe(j)
          PROVE  Held'
      <3>1. j \in Places /\ j # Shared /\ Passer \in Threads /\ Changer \in Threads
        BY <2>a, TwoThreads
      <3>2. /\ disk'[j].whole /\ disk'[j].time = Newest'
            /\ ~(thread'[Changer].pc = "restore" /\ thread'[Changer].dst = j)
        BY <1>2, <1>n, <2>a, StartChangeEffect, <3>1 DEF Safe, Heading, SameDisk, Others
      <3>3. \A u \in Threads : ~Heading(u, j)'
        BY <1>2, <1>n, <2>a, StartChangeEffect, <3>1, TwoThreads DEF Safe, Heading, SameDisk,
           Others
      <3> QED
        BY <2>a, <3>2, <3>3 DEF Held, Safe
    <2>b. ASSUME Safe(Shared), Anchored
          PROVE  Held'
      <3>1. Safe(Shared)'
        BY <1>2, <1>n, <2>b, StartChangeEffect, TwoThreads DEF Safe, Heading, SameDisk, Others
      <3>2. thread'[Passer] = thread[Passer] /\ ~Working(Changer) /\ disk' = disk /\ listed
            /\ thread'[Changer].mode = members
        BY <1>2, StartChangeEffect, TwoThreads DEF Working, Others, SameDisk
      <3>3. PICK l \in Instances : IsLink(l) /\ Unmirrored(l)
        BY <2>b, <3>2 DEF Anchored, Working, NoChange
      <3>4. members[l] = "symlink"
        BY <1>0, <3>2, <3>3 DEF LinksAreKnown, Working
      <3> QED
        BY <3>1, <3>2, <3>3, <3>4, TwoThreads DEF Held, Anchored, Unmirrored, IsLink, Working
    <2>c. ASSUME "late save" \in trouble, SetAside
          PROVE  Held'
      <3>1. Again
        BY <1>2, <2>c, StartChangeEffect, TwoThreads DEF Again, AtWork
      <3> QED
        BY <1>0, <3>1
    <2> QED
      BY <1>0, <2>a, <2>b, <2>c DEF Held
  <1>3. ASSUME NEW source \in Instances, NEW others \in SUBSET Instances, StartEnable(source, others)
        PROVE  NewestIsSafe'
    <2> SUFFICES ASSUME Judged'
                 PROVE  Held'
      BY DEF NewestIsSafe
    <2>a. ASSUME NEW j \in Instances, Safe(j)
          PROVE  Held'
      <3>1. j \in Places /\ j # Shared /\ Passer \in Threads /\ Changer \in Threads
        BY <2>a, TwoThreads
      <3>2. /\ disk'[j].whole /\ disk'[j].time = Newest'
            /\ ~(thread'[Changer].pc = "restore" /\ thread'[Changer].dst = j)
        BY <1>3, <1>n, <2>a, StartEnableEffect, <3>1 DEF Safe, Heading, SameDisk, Others
      <3>3. \A u \in Threads : ~Heading(u, j)'
        BY <1>3, <1>n, <2>a, StartEnableEffect, <3>1, TwoThreads DEF Safe, Heading, SameDisk,
           Others
      <3> QED
        BY <2>a, <3>2, <3>3 DEF Held, Safe
    <2>b. ASSUME Safe(Shared), Anchored
          PROVE  Held'
      <3>1. disk[Shared].kind = "none"
        BY <1>3, StartEnableEffect DEF Control, Unsynced
      <3> QED
        BY <1>w, <2>b, <3>1, TwoThreads DEF Safe
    <2>c. ASSUME "late save" \in trouble, SetAside
          PROVE  Held'
      <3>1. Again
        BY <1>3, <2>c, StartEnableEffect, TwoThreads DEF Again, AtWork
      <3> QED
        BY <1>0, <3>1
    <2> QED
      BY <1>0, <2>a, <2>b, <2>c DEF Held
  <1>4. ASSUME NEW t \in Threads, Survey(t)
        PROVE  NewestIsSafe'
    <2> SUFFICES ASSUME Judged'
                 PROVE  Held'
      BY DEF NewestIsSafe
    <2>a. ASSUME NEW j \in Instances, Safe(j)
          PROVE  Held'
      <3>1. j \in Places /\ j # Shared /\ Passer \in Threads /\ Changer \in Threads
        BY <2>a, TwoThreads
      <3>2. /\ disk'[j].whole /\ disk'[j].time = Newest'
            /\ ~(thread'[Changer].pc = "restore" /\ thread'[Changer].dst = j)
        BY <1>4, <1>n, <2>a, SurveyEffect, <3>1 DEF Safe, Heading, SameDisk, Others
      <3>3. \A u \in Threads : ~Heading(u, j)'
        BY <1>4, <1>n, <2>a, SurveyEffect, <3>1, TwoThreads DEF Safe, Heading, SameDisk, Others
      <3> QED
        BY <2>a, <3>2, <3>3 DEF Held, Safe
    <2>b. ASSUME Safe(Shared), Anchored
          PROVE  Held'
      <3>1. Safe(Shared)'
        <4>1. \A i \in Instances : ~ToShared(i, t)
          BY <1>0, <1>w, <2>b, FreshIsBounded, Plain, WorldTypes DEF ToShared, Safe
        <4> QED
          BY <1>4, <1>n, <2>b, <4>1, SurveyEffect, TwoThreads DEF Safe, Heading, SameDisk,
             Others
      <3>2. Anchored'
        <4>1. thread[t].pc \in MirrorPcs /\ Others(t) /\ listed' = listed /\ everSynced' = everSynced
          BY <1>4, SurveyEffect DEF MirrorPcs, SameStore
        <4>2. \/ thread'[t].pc = "idle" \/ thread'[t].still = {}
              \/ thread'[t].still = thread[t].still /\ thread'[t].mode = thread[t].mode
          BY <1>4, SurveyEffect DEF SameJob
        <4>3. \A l \in Instances : IsLink(l) /\ Unmirrored(l) => disk'[l] = disk[l]
          BY <1>4, SurveyEffect, TwoThreads DEF SameDisk
        <4> QED
          BY <2>b, <4>1, <4>2, <4>3, AnchoredKept
      <3> QED
        BY <3>1, <3>2 DEF Held
    <2>c. ASSUME "late save" \in trouble, SetAside
          PROVE  Held'
      <3>l. \E u \in Threads : ~Working(u)
        BY <1>l, <2>c
      <3>w. Working(t) /\ Others(t)
        BY <1>4, SurveyEffect DEF Working
      <3>1. \A u \in Threads : u # t => thread[u].pc = "idle" /\ thread'[u] = thread[u]
        BY <3>l, <3>w, TwoThreads DEF Working, Others
      <3> QED
        BY <1>4, <2>c, <3>1, SurveyEffect DEF SetAside, Heading
    <2> QED
      BY <1>0, <2>a, <2>b, <2>c DEF Held
  <1>5. ASSUME NEW t \in Threads, Compare(t)
        PROVE  NewestIsSafe'
    <2> SUFFICES ASSUME Judged'
                 PROVE  Held'
      BY DEF NewestIsSafe
    <2>a. ASSUME NEW j \in Instances, Safe(j)
          PROVE  Held'
      <3>1. j \in Places /\ j # Shared /\ Passer \in Threads /\ Changer \in Threads
        BY <2>a, TwoThreads
      <3>2. /\ disk'[j].whole /\ disk'[j].time = Newest'
            /\ ~(thread'[Changer].pc = "restore" /\ thread'[Changer].dst = j)
        BY <1>5, <1>n, <2>a, CompareEffect, <3>1 DEF Safe, Heading, SameDisk, Others
      <3>3. \A u \in Threads : ~Heading(u, j)'
        BY <1>5, <1>n, <2>a, CompareEffect, <3>1, TwoThreads DEF Safe, Heading, SameDisk, Others
      <3> QED
        BY <2>a, <3>2, <3>3 DEF Held, Safe
    <2>b. ASSUME Safe(Shared), Anchored
          PROVE  Held'
      <3>1. Safe(Shared)'
        BY <1>5, <1>n, <2>b, CompareEffect, TwoThreads DEF Safe, Heading, SameDisk, Others
      <3>2. Anchored'
        <4>1. thread[t].pc \in MirrorPcs /\ Others(t) /\ listed' = listed /\ everSynced' = everSynced
          BY <1>5, CompareEffect DEF MirrorPcs, SameStore
        <4>2. \/ thread'[t].pc = "idle" \/ thread'[t].still = {}
              \/ thread'[t].still = thread[t].still /\ thread'[t].mode = thread[t].mode
          BY <1>5, CompareEffect DEF SameJob
        <4>3. \A l \in Instances : IsLink(l) /\ Unmirrored(l) => disk'[l] = disk[l]
          BY <1>5, CompareEffect, TwoThreads DEF SameDisk
        <4> QED
          BY <2>b, <4>1, <4>2, <4>3, AnchoredKept
      <3> QED
        BY <3>1, <3>2 DEF Held
    <2>c. ASSUME "late save" \in trouble, SetAside
          PROVE  Held'
      <3>l. \E u \in Threads : ~Working(u)
        BY <1>l, <2>c
      <3>w. Working(t) /\ Others(t)
        BY <1>5, CompareEffect DEF Working
      <3>1. \A u \in Threads : u # t => thread[u].pc = "idle" /\ thread'[u] = thread[u]
        BY <3>l, <3>w, TwoThreads DEF Working, Others
      <3> QED
        BY <1>5, <1>l, <1>n, <2>c, <3>1, CompareEffect DEF Held, SetAside, Heading, SameDisk
    <2> QED
      BY <1>0, <2>a, <2>b, <2>c DEF Held
  <1>6. ASSUME NEW t \in Threads, Refresh(t)
        PROVE  NewestIsSafe'
    <2> SUFFICES ASSUME Judged'
                 PROVE  Held'
      BY DEF NewestIsSafe
    <2>a. ASSUME NEW j \in Instances, Safe(j)
          PROVE  Held'
      <3>1. thread[t].fresh <= Newest /\ thread[t].fresh \in Nat
        BY <1>0, <1>6, RefreshEffect, WorldTypes DEF Times, Working
      <3>2. Fresh(j) = Newest
        BY <1>w, <2>a, TwoThreads, Plain DEF Safe, IsDir
      <3>3. ~(thread[t].fresh > Fresh(j))
        BY <1>w, <3>1, <3>2
      <3>4. /\ disk'[j].whole /\ disk'[j].time = Newest'
            /\ ~(thread'[Changer].pc = "restore" /\ thread'[Changer].dst = j)
        BY <1>6, <1>n, <2>a, RefreshEffect, TwoThreads DEF Safe, SameDisk, Others
      <3>5. \A u \in Threads : ~Heading(u, j)'
        BY <1>6, <2>a, <3>3, RefreshEffect, TwoThreads DEF Safe, Heading, Others
      <3> QED
        BY <2>a, <3>4, <3>5 DEF Held, Safe
    <2>b. ASSUME Safe(Shared), Anchored
          PROVE  Held'
      <3>1. Safe(Shared)'
        <4>1. thread[t].mirrors \subseteq Instances
          BY WorldTypes
        <4> QED
          BY <1>6, <1>n, <2>b, <4>1, RefreshEffect, TwoThreads DEF Safe, Heading, SameDisk,
             Others
      <3>2. Anchored'
        <4>1. thread[t].pc \in MirrorPcs /\ Others(t) /\ listed' = listed /\ everSynced' = everSynced
          BY <1>6, RefreshEffect DEF MirrorPcs, SameStore
        <4>2. \/ thread'[t].pc = "idle" \/ thread'[t].still = {}
              \/ thread'[t].still = thread[t].still /\ thread'[t].mode = thread[t].mode
          BY <1>6, RefreshEffect DEF SameJob
        <4>3. \A l \in Instances : IsLink(l) /\ Unmirrored(l) => disk'[l] = disk[l]
          BY <1>6, RefreshEffect, TwoThreads DEF SameDisk
        <4> QED
          BY <2>b, <4>1, <4>2, <4>3, AnchoredKept
      <3> QED
        BY <3>1, <3>2 DEF Held
    <2>c. ASSUME "late save" \in trouble, SetAside
          PROVE  Held'
      <3>l. \E u \in Threads : ~Working(u)
        BY <1>l, <2>c
      <3>w. Working(t) /\ Others(t)
        BY <1>6, RefreshEffect DEF Working
      <3>1. \A u \in Threads : u # t => thread[u].pc = "idle" /\ thread'[u] = thread[u]
        BY <3>l, <3>w, TwoThreads DEF Working, Others
      <3>2. thread[t].mirrors \subseteq Instances
        BY WorldTypes
      <3> QED
        <4>1. disk' = disk /\ backup' = backup /\ Newest' = Newest
          BY <1>6, <1>n, RefreshEffect DEF SameDisk
        <4>2. thread'[t].pc # "survey" /\ ~Heading(t, Shared)' /\ ~Heading(t, Shared)
          BY <1>6, <3>2, RefreshEffect, TwoThreads DEF Heading
        <4>3. \A u \in Threads : thread'[u].pc # "survey" /\ ~Heading(u, Shared)' /\ ~Heading(u, Shared)
          BY <3>1, <4>2 DEF Heading
        <4> QED
          BY <1>l, <2>c, <4>1, <4>3 DEF Held, SetAside
    <2> QED
      BY <1>0, <2>a, <2>b, <2>c DEF Held
  <1>7. ASSUME NEW t \in Threads, Mirrored(t)
        PROVE  NewestIsSafe'
    <2> SUFFICES ASSUME Judged'
                 PROVE  Held'
      BY DEF NewestIsSafe
    <2>a. ASSUME NEW j \in Instances, Safe(j)
          PROVE  Held'
      <3>1. j \in Places /\ j # Shared /\ Passer \in Threads /\ Changer \in Threads
        BY <2>a, TwoThreads
      <3>2. /\ disk'[j].whole /\ disk'[j].time = Newest'
            /\ ~(thread'[Changer].pc = "restore" /\ thread'[Changer].dst = j)
        BY <1>7, <1>n, <2>a, MirroredEffect, <3>1 DEF Safe, Heading, SameDisk, Others
      <3>3. \A u \in Threads : ~Heading(u, j)'
        BY <1>7, <1>n, <2>a, MirroredEffect, <3>1, TwoThreads DEF Safe, Heading, SameDisk,
           Others
      <3> QED
        BY <2>a, <3>2, <3>3 DEF Held, Safe
    <2>b. ASSUME Safe(Shared), Anchored
          PROVE  Held'
      <3>1. Safe(Shared)'
        BY <1>7, <1>n, <2>b, MirroredEffect, TwoThreads DEF Safe, Heading, SameDisk, Others
      <3>2. Anchored'
        <4>1. thread[t].pc \in MirrorPcs /\ Others(t) /\ listed' = listed /\ everSynced' = everSynced
          BY <1>7, MirroredEffect DEF MirrorPcs, SameStore
        <4>2. \/ thread'[t].pc = "idle" \/ thread'[t].still = {}
              \/ thread'[t].still = thread[t].still /\ thread'[t].mode = thread[t].mode
          BY <1>7, MirroredEffect DEF SameJob
        <4>3. \A l \in Instances : IsLink(l) /\ Unmirrored(l) => disk'[l] = disk[l]
          BY <1>7, MirroredEffect, TwoThreads DEF SameDisk
        <4> QED
          BY <2>b, <4>1, <4>2, <4>3, AnchoredKept
      <3> QED
        BY <3>1, <3>2 DEF Held
    <2>c. ASSUME "late save" \in trouble, SetAside
          PROVE  Held'
      <3>l. \E u \in Threads : ~Working(u)
        BY <1>l, <2>c
      <3>w. Working(t) /\ Others(t)
        BY <1>7, MirroredEffect DEF Working
      <3>1. \A u \in Threads : u # t => thread[u].pc = "idle" /\ thread'[u] = thread[u]
        BY <3>l, <3>w, TwoThreads DEF Working, Others
      <3> QED
        BY <1>7, <1>l, <1>n, <2>c, <3>1, MirroredEffect DEF Held, SetAside, Heading, SameDisk
    <2> QED
      BY <1>0, <2>a, <2>b, <2>c DEF Held
  <1>8. ASSUME NEW t \in Threads, CopyToStaging(t)
        PROVE  NewestIsSafe'
    <2> SUFFICES ASSUME Judged'
                 PROVE  Held'
      BY DEF NewestIsSafe
    <2>a. ASSUME NEW j \in Instances, Safe(j)
          PROVE  Held'
      <3>1. j \in Places /\ j # Shared /\ Passer \in Threads /\ Changer \in Threads
        BY <2>a, TwoThreads
      <3>2. /\ disk'[j].whole /\ disk'[j].time = Newest'
            /\ ~(thread'[Changer].pc = "restore" /\ thread'[Changer].dst = j)
        BY <1>8, <1>n, <2>a, CopyResult, <3>1 DEF Safe, Heading, Over, Others
      <3>3. \A u \in Threads : ~Heading(u, j)'
        BY <1>8, <1>n, <2>a, CopyResult, <3>1, TwoThreads DEF Safe, Heading, Over, Others
      <3> QED
        BY <2>a, <3>2, <3>3 DEF Held, Safe
    <2>b. ASSUME Safe(Shared), Anchored
          PROVE  Held'
      <3>1. Safe(Shared)'
        BY <1>8, <1>n, <2>b, CopyResult, TwoThreads DEF Safe, Heading, Over, Others
      <3>2. Anchored'
        <4>1. thread[t].pc \in MirrorPcs /\ Others(t) /\ listed' = listed /\ everSynced' = everSynced
          BY <1>8, CopyResult DEF MirrorPcs, SameStore
        <4>2. \/ thread'[t].pc = "idle" \/ thread'[t].still = {}
              \/ thread'[t].still = thread[t].still /\ thread'[t].mode = thread[t].mode
          BY <1>8, CopyResult DEF SameJob
        <4>3. \A l \in Instances : IsLink(l) /\ Unmirrored(l) => disk'[l] = disk[l]
          BY <1>8, CopyResult, TwoThreads DEF SameDisk
        <4> QED
          BY <2>b, <4>1, <4>2, <4>3, AnchoredKept
      <3> QED
        BY <3>1, <3>2 DEF Held
    <2>c. ASSUME "late save" \in trouble, SetAside
          PROVE  Held'
      <3>l. \E u \in Threads : ~Working(u)
        BY <1>l, <2>c
      <3>w. Working(t) /\ Others(t)
        BY <1>8, CopyResult DEF Working
      <3>1. \A u \in Threads : u # t => thread[u].pc = "idle" /\ thread'[u] = thread[u]
        BY <3>l, <3>w, TwoThreads DEF Working, Others
      <3>d. ~Disturbed(t)
        BY <3>1 DEF Disturbed, Engaged
      <3>2. thread[t].dst = Shared => Exists(thread[t].src)
        BY <1>0, <1>8, CopyResult DEF Sources, Copying, IsDir, Exists, At
      <3> QED
        <4>1. disk' = disk /\ backup' = backup /\ Newest' = Newest /\ failures' = failures
          BY <1>8, <1>l, <1>n, <2>c, CopyResult
        <4>2. thread'[t].pc # "survey" /\ (Heading(t, Shared)' <=> Heading(t, Shared))
          BY <1>8, <1>f, <3>d, <3>2, <4>1, CopyResult DEF Heading, Over
        <4>3. \A u \in Threads : (thread'[u].pc # "survey") /\ (Heading(u, Shared)' <=> Heading(u, Shared))
          BY <3>1, <4>2 DEF Heading
        <4> QED
          BY <1>l, <2>c, <4>1, <4>3 DEF Held, SetAside
    <2> QED
      BY <1>0, <2>a, <2>b, <2>c DEF Held
  <1>9. ASSUME NEW t \in Threads, SwapOut(t)
        PROVE  NewestIsSafe'
    <2> SUFFICES ASSUME Judged'
                 PROVE  Held'
      BY DEF NewestIsSafe
    <2>a. ASSUME NEW j \in Instances, Safe(j)
          PROVE  Held'
      <3>1. j \in Places /\ j # Shared /\ Passer \in Threads /\ Changer \in Threads
        BY <2>a, TwoThreads
      <3>2. /\ disk'[j].whole /\ disk'[j].time = Newest'
            /\ ~(thread'[Changer].pc = "restore" /\ thread'[Changer].dst = j)
        BY <1>9, <1>n, <2>a, SwapOutEffect, <3>1 DEF Safe, Heading, SameCopy, Others
      <3>3. \A u \in Threads : ~Heading(u, j)'
        BY <1>9, <1>n, <2>a, SwapOutEffect, <3>1, TwoThreads DEF Safe, Heading, SameCopy, Others
      <3> QED
        BY <2>a, <3>2, <3>3 DEF Held, Safe
    <2>b. ASSUME Safe(Shared), Anchored
          PROVE  Held'
      <3>1. Safe(Shared)'
        BY <1>9, <1>n, <2>b, SwapOutEffect, TwoThreads DEF Safe, Heading, SameCopy, Others
      <3>2. Anchored'
        <4>1. thread[t].pc \in MirrorPcs /\ Others(t) /\ listed' = listed /\ everSynced' = everSynced
          BY <1>9, SwapOutEffect DEF MirrorPcs, SameStore
        <4>2. \/ thread'[t].pc = "idle" \/ thread'[t].still = {}
              \/ thread'[t].still = thread[t].still /\ thread'[t].mode = thread[t].mode
          BY <1>9, SwapOutEffect DEF SameJob
        <4>3. \A l \in Instances : IsLink(l) /\ Unmirrored(l) => disk'[l] = disk[l]
          BY <1>9, SwapOutEffect, TwoThreads, WorldTypes DEF SameDisk, Control, Mirrors,
             ReplacePcs, Unmirrored, Working
        <4> QED
          BY <2>b, <4>1, <4>2, <4>3, AnchoredKept
      <3> QED
        BY <3>1, <3>2 DEF Held
    <2>c. ASSUME "late save" \in trouble, SetAside
          PROVE  Held'
      <3>l. \E u \in Threads : ~Working(u)
        BY <1>l, <2>c
      <3>w. Working(t) /\ Others(t)
        BY <1>9, SwapOutEffect DEF Working
      <3>1. \A u \in Threads : u # t => thread[u].pc = "idle" /\ thread'[u] = thread[u]
        BY <3>l, <3>w, TwoThreads DEF Working, Others
      <3>2. disk[Shared].time = Newest => Exists(Shared)
        BY <1>w, TwoThreads, Plain DEF Exists, Control
      <3>3. thread[t].dst \in Places
        BY WorldTypes
      <3> QED
        <4>1. \A u \in Threads : (thread'[u].pc # "survey") /\ ~Heading(u, Shared)'
          BY <1>9, <3>1, SwapOutEffect DEF Heading
        <4>2. Newest' = Newest /\ "late save" \in trouble'
          BY <1>9, <1>l, <1>n, <2>c, SwapOutEffect
        <4>3. CASE Heading(t, Shared) /\ disk[Shared].whole /\ disk[Shared].time = Newest
          <5>1. backup'[Shared] = disk[Shared]
            BY <1>9, <3>2, <3>3, <4>3, SwapOutEffect, TwoThreads DEF Heading
          <5> QED
            BY <4>1, <4>2, <4>3, <5>1 DEF Held, SetAside
        <4>4. CASE /\ backup[Shared].whole /\ backup[Shared].time = Newest
                   /\ \A u \in Threads : ~Heading(u, Shared)
          <5>1. backup'[Shared] = backup[Shared]
            BY <1>9, <3>3, <4>4, SwapOutEffect, TwoThreads DEF Heading
          <5> QED
            BY <4>1, <4>2, <4>4, <5>1 DEF Held, SetAside
        <4> QED
          BY <2>c, <3>1, <4>3, <4>4 DEF SetAside, Heading
    <2> QED
      BY <1>0, <2>a, <2>b, <2>c DEF Held
  <1>10. ASSUME NEW t \in Threads, SwapIn(t)
        PROVE  NewestIsSafe'
    <2> SUFFICES ASSUME Judged'
                 PROVE  Held'
      BY DEF NewestIsSafe
    <2>a. ASSUME NEW j \in Instances, Safe(j)
          PROVE  Held'
      <3>1. j \in Places /\ j # Shared /\ Passer \in Threads /\ Changer \in Threads
        BY <2>a, TwoThreads
      <3>2. /\ disk'[j].whole /\ disk'[j].time = Newest'
            /\ ~(thread'[Changer].pc = "restore" /\ thread'[Changer].dst = j)
        BY <1>10, <1>n, <1>w, <2>a, SwapInResult, <3>1 DEF Safe, Heading, Over, Others
      <3>3. \A u \in Threads : ~Heading(u, j)'
        BY <1>10, <1>n, <1>w, <2>a, SwapInResult, <3>1, TwoThreads DEF Safe, Heading, Over,
           Others
      <3> QED
        BY <2>a, <3>2, <3>3 DEF Held, Safe
    <2>b. ASSUME Safe(Shared), Anchored
          PROVE  Held'
      <3>1. Safe(Shared)'
        BY <1>10, <1>n, <1>w, <2>b, SwapInResult, TwoThreads DEF Safe, Heading, Over, Others
      <3>2. Anchored'
        <4>1. thread[t].pc \in MirrorPcs /\ Others(t) /\ listed' = listed /\ everSynced' = everSynced
          BY <1>10, SwapInResult DEF MirrorPcs, SameStore
        <4>2. \/ thread'[t].pc = "idle" \/ thread'[t].still = {}
              \/ thread'[t].still = thread[t].still /\ thread'[t].mode = thread[t].mode
          BY <1>10, SwapInResult DEF SameJob
        <4>3. \A l \in Instances : IsLink(l) /\ Unmirrored(l) => disk'[l] = disk[l]
          BY <1>10, SwapInResult, TwoThreads DEF SameDisk, IsLink
        <4> QED
          BY <2>b, <4>1, <4>2, <4>3, AnchoredKept
      <3> QED
        BY <3>1, <3>2 DEF Held
    <2>c. ASSUME "late save" \in trouble, SetAside
          PROVE  Held'
      <3>l. \E u \in Threads : ~Working(u)
        BY <1>l, <2>c
      <3>w. Working(t) /\ Others(t)
        BY <1>10, SwapInResult DEF Working
      <3>1. \A u \in Threads : u # t => thread[u].pc = "idle" /\ thread'[u] = thread[u]
        BY <3>l, <3>w, TwoThreads DEF Working, Others
      <3>2. /\ \A u \in Threads : ~Heading(u, Shared) /\ thread'[u].pc # "survey"
            /\ \A u \in Threads : ~Heading(u, Shared)'
        BY <1>10, <3>1, SwapInResult DEF Heading, Over
      <3> QED
        BY <1>10, <1>l, <1>n, <2>c, <3>2, SwapInResult DEF Held, SetAside
    <2> QED
      BY <1>0, <2>a, <2>b, <2>c DEF Held
  <1>11. ASSUME Unlink(Changer)
        PROVE  NewestIsSafe'
    <2> SUFFICES ASSUME Judged'
                 PROVE  Held'
      BY DEF NewestIsSafe
    <2>p. thread'[Passer] = thread[Passer] /\ Newest' = Newest
      BY <1>11, <1>n, UnlinkResult, TwoThreads DEF Others
    <2>q. "late save" \in trouble => ~Working(Passer) /\ "late save" \in trouble'
      BY <1>11, <1>l, UnlinkResult, TwoThreads DEF Working
    <2>a. ASSUME NEW j \in Instances, Safe(j)
          PROVE  Held'
      <3>1. j \in Places /\ j # Shared /\ Passer \in Threads /\ Changer \in Threads
        BY <2>a, TwoThreads
      <3>2. /\ disk'[j].whole /\ disk'[j].time = Newest'
            /\ ~(thread'[Changer].pc = "restore" /\ thread'[Changer].dst = j)
        BY <1>11, <1>w, <2>a, <2>p, UnlinkResult, <3>1 DEF Safe, Heading, IsLink
      <3>3. \A u \in Threads : ~Heading(u, j)'
        BY <1>11, <1>w, <2>a, <2>p, UnlinkResult, <3>1, TwoThreads DEF Safe, Heading, IsLink
      <3> QED
        BY <2>a, <3>2, <3>3 DEF Held, Safe
    <2>b. ASSUME Safe(Shared), Anchored
          PROVE  Held'
      <3>1. PICK i \in Instances :
              /\ ModeSet(i, "out") /\ \A p \in Places : p # i => disk'[p] = disk[p]
              /\ \/ /\ IsLink(i) /\ thread'[Changer].dst = i /\ thread'[Changer].pc = "restore"
                 \/ /\ ~IsLink(i) /\ disk'[i] = disk[i] /\ thread'[Changer].pc = "detach"
        BY <1>11, UnlinkResult
      <3>2. thread[Changer].pc = "detach" /\ thread'[Changer].still = thread[Changer].still
        BY <1>11, UnlinkResult
      <3>3. Safe(Shared)'
        BY <2>b, <2>p, <3>1, <3>2, TwoThreads DEF Safe, Heading
      <3>4. PICK l \in Instances : IsLink(l) /\ Unmirrored(l)
        BY <2>b, <3>2 DEF Anchored, NoChange
      <3>5. Unmirrored(l)'
        BY <2>p, <3>1, <3>2, <3>4, TwoThreads DEF Unmirrored, ModeSet, Working
      <3>6. CASE l = i
        BY <3>1, <3>3, <3>4, <3>5, <3>6 DEF Held, Anchored
      <3>7. CASE l # i
        BY <3>1, <3>3, <3>4, <3>5, <3>7, TwoThreads DEF Held, Anchored, IsLink
      <3> QED
        BY <3>6, <3>7
    <2>c. ASSUME "late save" \in trouble, SetAside
          PROVE  Held'
      BY <1>11, <2>c, <2>p, <2>q, UnlinkResult, TwoThreads DEF Held, SetAside, Heading, Working
    <2> QED
      BY <1>0, <2>a, <2>b, <2>c DEF Held
  <1>12. ASSUME Restore(Changer)
        PROVE  NewestIsSafe'
    <2> SUFFICES ASSUME Judged'
                 PROVE  Held'
      BY DEF NewestIsSafe
    <2>p. thread'[Passer] = thread[Passer] /\ Newest' = Newest
      BY <1>12, <1>n, RestoreResult, TwoThreads DEF Others
    <2>q. "late save" \in trouble => ~Working(Passer) /\ "late save" \in trouble'
      BY <1>12, <1>l, RestoreResult, TwoThreads DEF Working
    <2> DEFINE k == thread[Changer].dst
    <2>r. /\ thread[Changer].pc = "restore" /\ thread'[Changer].pc = "detach"
          /\ k \in Instances /\ ~IsLink(k)
      <3>1. thread[Changer].pc = "restore"
        BY <1>12, RestoreResult
      <3>2. thread'[Changer].pc # "idle"
        BY <1>0, <3>1 DEF Abandon
      <3> QED
        BY <1>12, <3>1, <3>2, RestoreResult DEF Control, Changing, Enabling, Working
    <2>a. ASSUME NEW j \in Instances, Safe(j)
          PROVE  Held'
      <3>1. j \in Places /\ j # Shared /\ Passer \in Threads /\ Changer \in Threads
        BY <2>a, TwoThreads
      <3>2. /\ disk'[j].whole /\ disk'[j].time = Newest'
            /\ ~(thread'[Changer].pc = "restore" /\ thread'[Changer].dst = j)
        BY <1>12, <2>a, <2>p, <2>r, RestoreResult, <3>1 DEF Safe, Heading
      <3>3. \A u \in Threads : ~Heading(u, j)'
        BY <1>12, <2>a, <2>p, <2>r, RestoreResult, <3>1, TwoThreads DEF Safe, Heading
      <3> QED
        BY <2>a, <3>2, <3>3 DEF Held, Safe
    <2>b. ASSUME Safe(Shared), Anchored
          PROVE  Held'
      <3>1. /\ disk'[Shared] = disk[Shared] /\ disk'[k].time = Newest /\ SameJob(Changer)
            /\ ~Played(Shared) => disk'[k].whole
            /\ \A p \in Places : p # k => disk'[p] = disk[p]
        BY <1>12, <2>b, <2>r, RestoreResult, TwoThreads, Plain DEF Safe
      <3>2. Safe(Shared)'
        BY <2>b, <2>p, <2>r, <3>1, TwoThreads DEF Safe, Heading
      <3>3. \A i : Unmirrored(i) => Unmirrored(i)'
        BY <2>p, <2>r, <3>1, TwoThreads DEF Unmirrored, SameJob, Working
      <3>4. \A l \in Instances : IsLink(l) => IsLink(l)'
        BY <2>r, <3>1, TwoThreads DEF IsLink
      <3>5. CASE \E l \in Instances : IsLink(l) /\ Unmirrored(l)
        BY <3>2, <3>3, <3>4, <3>5 DEF Held, Anchored
      <3>6. CASE Played(Shared)
        <4>1. PICK i \in Instances : loaded[i] # 0 /\ IsLink(i)
          BY <3>6, TwoThreads DEF Played, running, IsLink
        <4>2. Unmirrored(i)
          BY <1>0, <4>1 DEF Unplayed, Unmirrored
        <4> QED
          BY <3>5, <4>1, <4>2
      <3>7. CASE Unmirrored(k) /\ ~Played(Shared)
        <4>1. Mirrors
          BY DEF Control
        <4>2. ~Heading(Passer, k)
          BY <2>r, <3>7, <4>1, TwoThreads DEF Heading, Unmirrored, Mirrors, ReplacePcs, Working
        <4>3. thread'[Changer].pc = "detach" /\ thread'[Passer] = thread[Passer]
          BY <2>p, <2>r
        <4>4. ASSUME NEW i \in Instances, i = k
              PROVE  Safe(i)'
          <5>1. \A t \in Threads : ~Heading(t, i)'
            BY <4>2, <4>3, <4>4, TwoThreads DEF Heading
          <5>2. disk'[i].whole /\ disk'[i].time = Newest'
            BY <2>p, <3>1, <3>7, <4>4
          <5>3. ~(thread'[Changer].pc = "restore" /\ thread'[Changer].dst = i)
            BY <4>3
          <5> QED
            BY <5>1, <5>2, <5>3 DEF Safe
        <4> QED
          BY <2>r, <4>4 DEF Held
      <3> QED
        BY <2>b, <2>r, <3>5, <3>6, <3>7 DEF Anchored, NoChange
    <2>c. ASSUME "late save" \in trouble, SetAside
          PROVE  Held'
      BY <1>12, <2>c, <2>p, <2>q, <2>r, RestoreResult, TwoThreads DEF Held, SetAside, Heading,
         Working
    <2> QED
      BY <1>0, <2>a, <2>b, <2>c DEF Held
  <1>13. ASSUME Detached(Changer)
        PROVE  NewestIsSafe'
    <2> SUFFICES ASSUME Judged'
                 PROVE  Held'
      BY DEF NewestIsSafe
    <2>p. thread'[Passer] = thread[Passer] /\ Newest' = Newest
      BY <1>13, <1>n, DetachedEffect, TwoThreads DEF Others
    <2>q. "late save" \in trouble => ~Working(Passer) /\ "late save" \in trouble'
      BY <1>13, <1>l, DetachedEffect, TwoThreads DEF Working
    <2>a. ASSUME NEW j \in Instances, Safe(j)
          PROVE  Held'
      <3>1. j \in Places /\ j # Shared /\ Passer \in Threads /\ Changer \in Threads
        BY <2>a, TwoThreads
      <3>2. /\ disk'[j].whole /\ disk'[j].time = Newest'
            /\ ~(thread'[Changer].pc = "restore" /\ thread'[Changer].dst = j)
        BY <1>13, <2>a, <2>p, DetachedEffect, <3>1 DEF Safe, Heading
      <3>3. \A u \in Threads : ~Heading(u, j)'
        BY <1>13, <2>a, <2>p, DetachedEffect, <3>1, TwoThreads DEF Safe, Heading
      <3> QED
        BY <2>a, <3>2, <3>3 DEF Held, Safe
    <2>b. ASSUME Safe(Shared), Anchored
          PROVE  Held'
      <3>1. thread[Changer].pc = "detach" /\ thread[Changer].todo = {} /\ SameJob(Changer)
            /\ \A i \in Instances : disk'[i] = disk[i]
        BY <1>13, DetachedEffect
      <3>2. PICK l \in Instances : IsLink(l) /\ Unmirrored(l)
        BY <2>b, <3>1 DEF Anchored, NoChange
      <3>3. thread[Changer].mode[l] = "symlink"
        BY <1>0, <3>1, <3>2 DEF LinksAreKnown, Working
      <3>4. thread[Changer].job # "disable"
        BY <3>1, <3>3 DEF Control, Changing, Enabling, Working
      <3>5. thread'[Changer].pc = "place" /\ disk' = disk
        BY <1>13, <3>4, DetachedEffect
      <3>6. Unmirrored(l)'
        BY <2>p, <3>1, <3>2, TwoThreads DEF Unmirrored, SameJob, Working
      <3>7. Safe(Shared)'
        BY <2>b, <2>p, <3>1, <3>5, TwoThreads DEF Safe, Heading
      <3>8. IsLink(l)'
        BY <3>2, <3>5 DEF IsLink
      <3> QED
        BY <3>6, <3>7, <3>8 DEF Held, Anchored
    <2>c. ASSUME "late save" \in trouble, SetAside
          PROVE  Held'
      BY <1>13, <2>c, <2>p, <2>q, DetachedEffect, TwoThreads DEF Held, SetAside, Heading,
         Working
    <2> QED
      BY <1>0, <2>a, <2>b, <2>c DEF Held
  <1>14. ASSUME Move(Changer)
        PROVE  NewestIsSafe'
    <2> SUFFICES ASSUME Judged'
                 PROVE  Held'
      BY DEF NewestIsSafe
    <2>p. thread'[Passer] = thread[Passer] /\ Newest' = Newest
      BY <1>14, <1>n, MoveEffect, TwoThreads DEF Others
    <2>q. "late save" \in trouble => ~Working(Passer) /\ "late save" \in trouble'
      BY <1>14, <1>l, MoveEffect, TwoThreads DEF Working
    <2>r. /\ ~Working(Passer) /\ \A i \in Instances : ~IsLink(i)
          /\ \E s \in Instances : thread[Changer].todo = {s}
      BY <1>14, MoveEffect DEF Control, Enabling, Changing, Working
    <2>a. ASSUME NEW j \in Instances, Safe(j)
          PROVE  Held'
      <3>1. CASE disk' = disk
        <4>1. thread'[Changer].pc = "placeBack" \/ thread'[Changer].pc = "idle"
          BY <1>14, MoveEffect
        <4>2. \A t \in Threads : ~Heading(t, j)'
          BY <2>a, <2>p, <4>1, TwoThreads DEF Safe, Heading
        <4>3. Safe(j)'
          BY <2>a, <2>p, <3>1, <4>1, <4>2 DEF Safe
        <4> QED
          BY <2>a, <4>3 DEF Held
      <3>2. CASE disk' # disk
        <4>1. PICK s \in Instances :
                /\ disk'[Shared] = disk[s] /\ \A p \in Places : p # s /\ p # Shared => disk'[p] = disk[p]
                /\ thread'[Changer].pc = "placeBack"
          BY <1>14, <2>r, <3>2, MoveEffect
        <4>2. CASE j = s
          BY <2>a, <2>p, <2>r, <4>1, <4>2, TwoThreads DEF Held, Safe, Heading, Anchored, Working
        <4>3. CASE j # s
          BY <2>a, <2>p, <2>r, <4>1, <4>3, TwoThreads DEF Held, Safe, Heading, Working
        <4> QED
          BY <4>2, <4>3
      <3> QED
        BY <3>1, <3>2
    <2>b. ASSUME Safe(Shared), Anchored
          PROVE  Held'
      <3>1. disk[Shared].kind = "none"
        BY <1>14, MoveEffect DEF Control, Enabling, Changing, Working
      <3> QED
        BY <1>w, <2>b, <3>1, TwoThreads DEF Safe
    <2>c. ASSUME "late save" \in trouble, SetAside
          PROVE  Held'
      BY <1>14, <2>c, <2>p, <2>q, <2>r, MoveEffect, TwoThreads DEF Held, SetAside, Heading,
         Working
    <2> QED
      BY <1>0, <2>a, <2>b, <2>c DEF Held
  <1>15. ASSUME PlaceBack(Changer)
        PROVE  NewestIsSafe'
    <2> SUFFICES ASSUME Judged'
                 PROVE  Held'
      BY DEF NewestIsSafe
    <2>p. thread'[Passer] = thread[Passer] /\ Newest' = Newest
      BY <1>15, <1>n, PlaceBackResult, TwoThreads DEF Others
    <2>q. "late save" \in trouble => ~Working(Passer) /\ "late save" \in trouble'
      BY <1>15, <1>l, PlaceBackResult, TwoThreads DEF Working
    <2>r. /\ ~Working(Passer) /\ \A i \in Instances : ~IsLink(i)
          /\ \E s \in Instances : thread[Changer].todo = {s}
      BY <1>15, PlaceBackResult DEF Control, Enabling, Changing, Working
    <2>s. PICK s \in Instances :
            /\ thread[Changer].todo = {s}
            /\ \/ PutResult(s)
               \/ /\ disk'[s] = disk[Shared] /\ disk'[Shared] = Nothing
                  /\ \A p \in Places : p # s /\ p # Shared => disk'[p] = disk[p]
                  /\ thread'[Changer].pc = "idle"
      BY <1>15, <2>r, PlaceBackResult
    <2>a. ASSUME NEW j \in Instances, Safe(j)
          PROVE  Held'
      <3>1. disk[s].kind = "none"
        BY <1>15, <2>s, PlaceBackResult DEF Control, Enabling, Changing, Working
      <3>2. j # s
        BY <1>w, <2>a, <3>1, TwoThreads DEF Safe
      <3> QED
        BY <2>a, <2>p, <2>r, <2>s, <3>2, TwoThreads DEF Held, Safe, Heading, PutResult, Working
    <2>b. ASSUME Safe(Shared), Anchored
          PROVE  Held'
      <3>1. CASE PutResult(s)
        <4>1. /\ \A p \in Places : p # s => disk'[p] = disk[p]
              /\ thread'[Changer].pc = "place"
              /\ \/ ModeSet(s, "symlink") /\ disk'[s] = Link
                 \/ /\ disk'[s].time = Fresh(Shared)
                    /\ ~Played(Shared) => disk'[s].whole = At(Shared).whole
          BY <3>1 DEF PutResult
        <4>2. Safe(Shared)'
          BY <2>b, <2>p, <2>r, <4>1, TwoThreads DEF Safe, Heading, Working
        <4>3. CASE ModeSet(s, "symlink") /\ disk'[s] = Link
          <5>1. Unmirrored(s)' /\ IsLink(s)'
            BY <2>p, <2>r, <4>3, KindEntries, TwoThreads DEF Unmirrored, ModeSet, IsLink,
               Working
          <5> QED
            BY <4>2, <5>1 DEF Held, Anchored
        <4>4. CASE disk'[s].time = Fresh(Shared) /\ (~Played(Shared) => disk'[s].whole = At(Shared).whole)
          <5>1. ~Played(Shared)
            BY <2>r, TwoThreads DEF Played, running, IsLink
          <5>2. disk'[s].time = Newest /\ disk'[s].whole
            BY <2>b, <4>4, <5>1, Plain DEF Safe
          <5> QED
            BY <2>p, <2>r, <4>1, <5>2, TwoThreads DEF Held, Safe, Heading, Working
        <4> QED
          BY <4>1, <4>3, <4>4
      <3>2. CASE disk'[s] = disk[Shared] /\ thread'[Changer].pc = "idle"
        BY <2>b, <2>p, <2>r, <3>2, TwoThreads DEF Held, Safe, Heading, Working
      <3> QED
        BY <2>s, <3>1, <3>2
    <2>c. ASSUME "late save" \in trouble, SetAside
          PROVE  Held'
      BY <1>15, <2>c, <2>p, <2>q, <2>r, PlaceBackResult, TwoThreads DEF Held, SetAside,
         Heading, Working, PutResult
    <2> QED
      BY <1>0, <2>a, <2>b, <2>c DEF Held
  <1>16. ASSUME Place(Changer)
        PROVE  NewestIsSafe'
    <2> SUFFICES ASSUME Judged'
                 PROVE  Held'
      BY DEF NewestIsSafe
    <2>p. thread'[Passer] = thread[Passer] /\ Newest' = Newest
      BY <1>16, <1>n, PlaceResult, TwoThreads DEF Others
    <2>q. "late save" \in trouble => ~Working(Passer) /\ "late save" \in trouble'
      BY <1>16, <1>l, PlaceResult, TwoThreads DEF Working
    <2>s. PICK i \in Instances :
            /\ thread[Changer].pc = "place" /\ thread'[Changer].pc = "place"
            /\ thread'[Changer].still = thread[Changer].still
            /\ \/ /\ disk[i].kind = "none" /\ \A p \in Places : p # i => disk'[p] = disk[p]
                  /\ \A l \in Instances : l # i => thread'[Changer].mode[l] = thread[Changer].mode[l]
               \/ disk' = disk /\ thread'[Changer].mode = thread[Changer].mode
      <3>1. PICK i \in Instances :
              \/ disk[i].kind = "none" /\ PutResult(i)
              \/ disk' = disk /\ thread'[Changer].mode = thread[Changer].mode
        BY <1>16, PlaceResult
      <3>2. /\ thread[Changer].pc = "place" /\ thread'[Changer].pc = "place"
            /\ thread'[Changer].still = thread[Changer].still
        BY <1>16, PlaceResult
      <3> QED
        BY <3>1, <3>2 DEF PutResult, ModeSet
    <2>a. ASSUME NEW j \in Instances, Safe(j)
          PROVE  Held'
      <3>1. j \in Places /\ j # Shared /\ Passer \in Threads /\ Changer \in Threads
        BY <2>a, TwoThreads
      <3>2. /\ disk'[j].whole /\ disk'[j].time = Newest'
            /\ ~(thread'[Changer].pc = "restore" /\ thread'[Changer].dst = j)
        BY <2>a, <2>p, <2>s, <1>w, <3>1 DEF Safe, Heading
      <3>3. \A u \in Threads : ~Heading(u, j)'
        BY <2>a, <2>p, <2>s, <1>w, <3>1, TwoThreads DEF Safe, Heading
      <3> QED
        BY <2>a, <3>2, <3>3 DEF Held, Safe
    <2>b. ASSUME Safe(Shared), Anchored
          PROVE  Held'
      <3>1. Safe(Shared)'
        BY <2>b, <2>p, <2>s, <1>w, TwoThreads DEF Safe, Heading
      <3>2. PICK l \in Instances : IsLink(l) /\ Unmirrored(l)
        BY <2>b, <2>s DEF Anchored, NoChange
      <3>3. IsLink(l)' /\ thread'[Changer].mode[l] = thread[Changer].mode[l]
        BY <2>s, <3>2, TwoThreads DEF IsLink
      <3>4. Unmirrored(l)'
        BY <2>p, <2>s, <3>2, <3>3, TwoThreads DEF Unmirrored, ModeSet, Working
      <3> QED
        BY <3>1, <3>2, <3>3, <3>4 DEF Held, Anchored
    <2>c. ASSUME "late save" \in trouble, SetAside
          PROVE  Held'
      BY <1>16, <2>c, <2>p, <2>q, <2>s, PlaceResult, TwoThreads DEF Held, SetAside, Heading,
         Working
    <2> QED
      BY <1>0, <2>a, <2>b, <2>c DEF Held
  <1>17. ASSUME Placed(Changer)
        PROVE  NewestIsSafe'
    <2> SUFFICES ASSUME Judged'
                 PROVE  Held'
      BY DEF NewestIsSafe
    <2>p. thread'[Passer] = thread[Passer] /\ Newest' = Newest
      BY <1>17, <1>n, PlacedEffect, TwoThreads DEF Others
    <2>q. "late save" \in trouble => ~Working(Passer) /\ "late save" \in trouble'
      BY <1>17, <1>l, PlacedEffect, TwoThreads DEF Working
    <2>a. ASSUME NEW j \in Instances, Safe(j)
          PROVE  Held'
      <3>1. j \in Places /\ j # Shared /\ Passer \in Threads /\ Changer \in Threads
        BY <2>a, TwoThreads
      <3>2. /\ disk'[j].whole /\ disk'[j].time = Newest'
            /\ ~(thread'[Changer].pc = "restore" /\ thread'[Changer].dst = j)
        BY <1>17, <2>a, <2>p, PlacedEffect, <3>1 DEF Safe, Heading, SameDisk
      <3>3. \A u \in Threads : ~Heading(u, j)'
        BY <1>17, <2>a, <2>p, PlacedEffect, <3>1, TwoThreads DEF Safe, Heading, SameDisk
      <3> QED
        BY <2>a, <3>2, <3>3 DEF Held, Safe
    <2>b. ASSUME Safe(Shared), Anchored
          PROVE  Held'
      <3>1. Safe(Shared)'
        BY <1>17, <2>b, <2>p, PlacedEffect, TwoThreads DEF Safe, Heading, SameDisk
      <3>2. PICK l \in Instances : IsLink(l) /\ Unmirrored(l)
        BY <1>17, <2>b, PlacedEffect DEF Anchored, NoChange
      <3>4. IsLink(l)' /\ Unmirrored(l)'
        BY <1>17, <2>p, <3>2, PlacedEffect, TwoThreads DEF Unmirrored, IsLink, SameDisk,
           SameJob, Working
      <3> QED
        BY <3>1, <3>2, <3>4 DEF Held, Anchored
    <2>c. ASSUME "late save" \in trouble, SetAside
          PROVE  Held'
      BY <1>17, <2>c, <2>p, <2>q, PlacedEffect, TwoThreads DEF Held, SetAside, Heading,
         Working, SameDisk
    <2> QED
      BY <1>0, <2>a, <2>b, <2>c DEF Held
  <1>18. ASSUME Reply(Changer)
        PROVE  NewestIsSafe'
    <2> SUFFICES ASSUME Judged'
                 PROVE  Held'
      BY DEF NewestIsSafe
    <2>p. thread'[Passer] = thread[Passer] /\ Newest' = Newest
      BY <1>18, <1>n, ReplyEffect, TwoThreads DEF Others
    <2>q. "late save" \in trouble => ~Working(Passer) /\ "late save" \in trouble'
      BY <1>18, <1>l, ReplyEffect, TwoThreads DEF Working
    <2>a. ASSUME NEW j \in Instances, Safe(j)
          PROVE  Held'
      <3>1. j \in Places /\ j # Shared /\ Passer \in Threads /\ Changer \in Threads
        BY <2>a, TwoThreads
      <3>2. /\ disk'[j].whole /\ disk'[j].time = Newest'
            /\ ~(thread'[Changer].pc = "restore" /\ thread'[Changer].dst = j)
        BY <1>18, <2>a, <2>p, ReplyEffect, <3>1 DEF Safe, Heading, SameDisk
      <3>3. \A u \in Threads : ~Heading(u, j)'
        BY <1>18, <2>a, <2>p, ReplyEffect, <3>1, TwoThreads DEF Safe, Heading, SameDisk
      <3> QED
        BY <2>a, <3>2, <3>3 DEF Held, Safe
    <2>b. ASSUME Safe(Shared), Anchored
          PROVE  Held'
      <3>1. Safe(Shared)'
        BY <1>18, <2>b, <2>p, ReplyEffect, TwoThreads DEF Safe, Heading, SameDisk
      <3>2. PICK l \in Instances : IsLink(l) /\ Unmirrored(l)
        BY <1>18, <2>b, ReplyEffect DEF Anchored, NoChange
      <3>4. IsLink(l)' /\ Unmirrored(l)'
        BY <1>18, <2>p, <3>2, ReplyEffect, TwoThreads DEF Unmirrored, IsLink, SameDisk, Working
      <3> QED
        BY <3>1, <3>2, <3>4 DEF Held, Anchored
    <2>c. ASSUME "late save" \in trouble, SetAside
          PROVE  Held'
      BY <1>18, <2>c, <2>p, <2>q, ReplyEffect, TwoThreads DEF Held, SetAside, Heading,
         Working, SameDisk
    <2> QED
      BY <1>0, <2>a, <2>b, <2>c DEF Held
  <1>19. ASSUME NEW i \in Instances, StartGame(i)
        PROVE  NewestIsSafe'
    <2> SUFFICES ASSUME Judged'
                 PROVE  Held'
      BY DEF NewestIsSafe
    <2>g. SameDisk /\ SameStore /\ UNCHANGED <<thread, clock, failures, everSynced>> /\ Newest' = Newest
      BY <1>19, GameEffects DEF Newest
    <2>a. ASSUME NEW j \in Instances, Safe(j)
          PROVE  Held'
      BY <2>a, <2>g DEF Held, Safe, Heading, SameDisk
    <2>b. ASSUME Safe(Shared), Anchored
          PROVE  Held'
      BY <2>b, <2>g DEF Held, Safe, Heading, SameDisk, SameStore, Anchored, IsLink,
         Unmirrored, Working, NoChange
    <2>c. ASSUME "late save" \in trouble, SetAside
          PROVE  Held'
      BY <1>l, <2>c, <2>g DEF Held, SetAside, Heading, SameDisk
    <2> QED
      BY <1>0, <2>a, <2>b, <2>c DEF Held
  <1>20. ASSUME NEW i \in Instances, SaveGame(i)
        PROVE  NewestIsSafe'
    <2> SUFFICES ASSUME Judged'
                 PROVE  Held'
      BY DEF NewestIsSafe
    <2>1. /\ loaded[i] # 0 /\ disk'[Home(i)].time = Newest' /\ disk'[Home(i)].whole
          /\ \A p \in Places : disk'[p].kind = disk[p].kind
          /\ thread' = thread /\ clock' # clock
      BY <1>0, <1>20, SaveResult, WorldTypes DEF Intact
    <2>2. Unmirrored(i) /\ ~(thread[Changer].pc = "restore" /\ thread[Changer].dst = i)
      BY <1>0, <2>1 DEF Unplayed, Unmirrored
    <2>3. CASE ~IsLink(i)
      <3>1. Home(i) = i
        BY <2>3 DEF Home
      <3>2. \A t \in Threads : ~Heading(t, i)
        BY <2>2, TwoThreads DEF Heading, Unmirrored, Control, Mirrors, ReplacePcs, Working
      <3> QED
        BY <2>1, <2>2, <3>1, <3>2 DEF Held, Safe, Heading
    <2>4. CASE IsLink(i)
      <3>1. Home(i) = Shared
        BY <2>4 DEF Home
      <3>2. Anchored'
        BY <2>1, <2>2, <2>4, TwoThreads DEF Anchored, Unmirrored, IsLink, Working
      <3>3. CASE \E t \in Threads : Heading(t, Shared)
        <4>1. LateSave
          BY <2>1, <3>3 DEF LateSave, AtWork, Heading
        <4>2. "late save" \in trouble'
          BY <4>1, Past
        <4> QED
          BY <2>1, <3>1, <3>3, <4>2 DEF Held, SetAside, Heading
      <3>4. CASE \A t \in Threads : ~Heading(t, Shared)
        <4>1. ~(thread[Changer].pc = "restore" /\ thread[Changer].dst = Shared)
          BY TwoThreads DEF Control, Changing, Enabling, Working
        <4> QED
          BY <2>1, <3>1, <3>2, <3>4, <4>1 DEF Held, Safe, Heading
      <3> QED
        BY <3>3, <3>4
    <2> QED
      BY <2>3, <2>4
  <1>21. ASSUME NEW i \in Instances, QuitGame(i)
        PROVE  NewestIsSafe'
    <2> SUFFICES ASSUME Judged'
                 PROVE  Held'
      BY DEF NewestIsSafe
    <2>g. SameDisk /\ SameStore /\ UNCHANGED <<thread, clock, failures, everSynced>> /\ Newest' = Newest
      BY <1>21, GameEffects DEF Newest
    <2>a. ASSUME NEW j \in Instances, Safe(j)
          PROVE  Held'
      BY <2>a, <2>g DEF Held, Safe, Heading, SameDisk
    <2>b. ASSUME Safe(Shared), Anchored
          PROVE  Held'
      BY <2>b, <2>g DEF Held, Safe, Heading, SameDisk, SameStore, Anchored, IsLink,
         Unmirrored, Working, NoChange
    <2>c. ASSUME "late save" \in trouble, SetAside
          PROVE  Held'
      BY <1>l, <2>c, <2>g DEF Held, SetAside, Heading, SameDisk
    <2> QED
      BY <1>0, <2>a, <2>b, <2>c DEF Held
  <1>22. ASSUME Crash
        PROVE  NewestIsSafe'
    <2> SUFFICES ASSUME Judged'
                 PROVE  Held'
      BY DEF NewestIsSafe
    <2>a. ASSUME NEW j \in Instances, Safe(j)
          PROVE  Held'
      BY <1>22, <1>n, <2>a, CrashEffect, TwoThreads DEF Held, Safe, Heading, SameDisk
    <2>b. ASSUME Safe(Shared), Anchored
          PROVE  Held'
      <3>1. Safe(Shared)'
        BY <1>22, <1>n, <2>b, CrashEffect, TwoThreads DEF Safe, Heading, SameDisk
      <3>2. \A i : Unmirrored(i)'
        BY <1>22, CrashEffect DEF Unmirrored, Working
      <3>3. thread[Changer].pc # "restore"
        BY <1>0, <1>22, CrashEffect, TwoThreads DEF Abandon
      <3>4. CASE \E l \in Instances : IsLink(l) /\ Unmirrored(l)
        BY <1>22, <3>1, <3>2, <3>4, CrashEffect DEF Held, Anchored, IsLink, SameDisk
      <3>5. CASE thread[Changer].pc = "placeBack"
        <4>1. ~listed /\ everSynced
          BY <3>5, TwoThreads DEF Control, Enabling, Changing, Unsynced, Working
        <4> QED
          BY <1>22, <3>1, <4>1, CrashEffect, TwoThreads DEF Held, Anchored, NoChange, SameStore
      <3>6. CASE NoChange /\ ~listed /\ everSynced
        BY <1>22, <3>1, <3>6, CrashEffect, TwoThreads DEF Held, Anchored, NoChange, SameStore
      <3> QED
        BY <2>b, <3>3, <3>4, <3>5, <3>6 DEF Anchored
    <2>c. ASSUME "late save" \in trouble, SetAside
          PROVE  Held'
      BY <1>22, <1>f, <1>l, <2>c, CrashEffect
    <2> QED
      BY <1>0, <2>a, <2>b, <2>c DEF Held
  <1>23. ASSUME NEW t \in Threads, Filling(t)
        PROVE  NewestIsSafe'
    <2> SUFFICES ASSUME Judged'
                 PROVE  Held'
      BY DEF NewestIsSafe
    <2>1. /\ disk' = disk /\ backup' = backup /\ Newest' = Newest /\ Others(t)
          /\ SameJob(t) /\ SameStore /\ everSynced' = everSynced
          /\ thread[t].pc \in {"copy", "fill"} /\ thread'[t].pc = "fill"
          /\ thread'[t].dst = thread[t].dst
      BY <1>n, <1>23, FillEffect DEF SameCopy
    <2>2. \A u \in Threads : /\ \A p : Heading(u, p)' <=> Heading(u, p)
                             /\ thread'[u].pc = "survey" => thread[u].pc = "survey"
      BY <2>1 DEF Heading, Others
    <2>3. \A p : Safe(p) => Safe(p)'
      BY <2>1, <2>2, TwoThreads DEF Safe, Others
    <2>4. Anchored => Anchored'
      BY <2>1, AnchoredKept DEF MirrorPcs, SameStore, SameJob
    <2>5. "late save" \in trouble /\ SetAside => "late save" \in trouble' /\ SetAside'
      BY <1>l, <2>1, <2>2 DEF SetAside
    <2> QED
      BY <1>0, <2>3, <2>4, <2>5 DEF Held
  <1> QED
    BY <1>1, <1>2, <1>3, <1>4, <1>5, <1>6, <1>7, <1>8, <1>9, <1>10, <1>11, <1>12, <1>13,
       <1>14, <1>15, <1>16, <1>17, <1>18, <1>19, <1>20, <1>21, <1>22, <1>23 DEF Next, Step, Filling

-----------------------------------------------------------------------------
(* The invariant, and what it says.                                         *)

\* The world a player has is the last save, whole.
LEMMA WorldInit ==
    ASSUME Init
    PROVE  WorldInv
  <1> USE TwoThreads
  <1>1. PICK owner \in Instances :
          disk = [p \in Places |-> IF p = owner THEN Dir(2, TRUE) ELSE Nothing]
    BY DEF Init
  <1>2. /\ \A p \in Places : /\ disk[p] = IF p = owner THEN Dir(2, TRUE) ELSE Nothing
                             /\ staging[p] = Nothing /\ backup[p] = Nothing
        /\ \A t \in Threads : thread[t] = Idle
        /\ \A i \in Instances : members[i] = "out" /\ loaded[i] = 0
        /\ ~listed /\ ~everSynced /\ failures = 0 /\ clock = 1 /\ trouble = {}
    BY <1>1 DEF Init
  <1>3. /\ \A t \in Threads : ~Working(t)
        /\ \A t \in Threads : thread[t].dst = Shared /\ thread[t].fresh = 0
        /\ thread[Changer].pc = "idle" /\ thread[Passer].pc = "idle"
        /\ \A i \in Instances : ~IsLink(i)
        /\ disk[Shared].kind = "none"
    BY <1>2 DEF Working, Idle, IsLink, Dir, Nothing
  <1>4. WorldTyped
    <2>1. Nothing \in Entry /\ Dir(2, TRUE) \in Entry /\ Idle \in Locals
      BY DEF Nothing, Dir, Entry, Idle, Locals, Pcs, Jobs, Modes
    <2>2. DiskTyped
      BY <1>1, <1>2, <2>1 DEF Init, DiskTyped, Nothing, Dir
    <2>3. StoreTyped
      <3>1. members \in [Instances -> Modes] /\ loaded \in [Instances -> Nat]
        BY DEF Init, Modes
      <3>2. listed \in BOOLEAN /\ everSynced \in BOOLEAN
        BY DEF Init
      <3>3. clock \in Nat \ {0} /\ failures \in Nat
        BY DEF Init
      <3> QED
        BY <3>1, <3>2, <3>3 DEF StoreTyped
    <2>4. thread \in [Threads -> Locals]
      BY <2>1 DEF Init
    <2> QED
      BY <1>2, <2>2, <2>3, <2>4 DEF WorldTyped
  <1>5. Control
    BY <1>2, <1>3 DEF Control, Unsynced, Mirrors, PassJob, Enabling, Changing, Adding,
                      Working, ReplacePcs, MirrorPcs
  <1>6. Alone /\ LinksAreKnown /\ LinksAreThere /\ Intact /\ Unplayed
    BY <1>2, <1>3 DEF Alone, Waits, LinksAreKnown, LinksAreThere, Intact, Unplayed, Working, NoChange
  <1>7. Times /\ Sources
    <2>1. \A p \in Places : disk[p].time <= Newest
      BY <1>2 DEF Newest, Dir, Nothing
    <2>2. Times
      BY <1>3, <2>1 DEF Times, Working
    <2>3. Sources
      BY <1>3 DEF Sources, Copying, Working
    <2> QED
      BY <2>2, <2>3
  <1>8. NewestIsSafe
    <2>1. disk[owner].whole /\ disk[owner].time = Newest
      BY <1>2 DEF Newest, Dir
    <2> QED
      BY <1>3, <2>1 DEF NewestIsSafe, Held, Safe, Heading, Working
  <1>9. Newer /\ Gathering /\ Spreading
    BY <1>3 DEF Newer, Gathering, Spreading, Copying, Refreshing, Heading, ReplacePcs, Working
  <1> QED
    BY <1>4, <1>5, <1>6, <1>7, <1>8, <1>9 DEF WorldInv

\* A step that changes nothing keeps the invariant.
LEMMA WorldStutter ==
    ASSUME WorldInv, UNCHANGED vars
    PROVE  WorldInv'
  <1> USE DEF vars
  <1>1. WorldTyped'
    BY DEF WorldInv, WorldTyped, DiskTyped, StoreTyped
  <1>2. Control'
    BY DEF WorldInv, Control, Unsynced, Mirrors, PassJob, Enabling, Changing, Adding,
           Working, IsLink, IsDir
  <1>3. Alone' /\ LinksAreKnown' /\ LinksAreThere'
    BY DEF WorldInv, Alone, Waits, LinksAreKnown, LinksAreThere, Quiet, Working, IsLink, NoChange
  <1>4. Intact' /\ Unplayed'
    BY DEF WorldInv, Intact, Unplayed, Working, At, Fresh
  <1>5. Judged' = Judged /\ Newest' = Newest
    BY DEF Judged, Calm, Newest
  <1>6. Times'
    BY <1>5 DEF WorldInv, Times, Working
  <1>7. Sources'
    BY <1>5 DEF WorldInv, Sources, Copying, IsDir
  <1>8. NewestIsSafe'
    <2>1. \A p : Safe(p)' = Safe(p)
      BY <1>5 DEF Safe, Heading
    <2>2. Anchored' = Anchored /\ SetAside' = SetAside
      BY <1>5 DEF Anchored, SetAside, Unmirrored, Heading, IsLink, NoChange, Working
    <2> QED
      BY <1>5, <2>1, <2>2 DEF WorldInv, NewestIsSafe, Held
  <1>9. Newer' /\ Gathering' /\ Spreading'
    <2>1. Calm' = Calm /\ Untroubled' = Untroubled
      BY DEF Calm, Untroubled
    <2>2. \A t : MirrorsOf(t)' = MirrorsOf(t) /\ Refreshing(t)' = Refreshing(t)
      BY DEF MirrorsOf, Refreshing
    <2>3. Newer'
      BY <2>1, <2>2 DEF WorldInv, Newer, Copying, IsDir, Fresh, At
    <2>4. Gathering'
      BY <2>1, <2>2 DEF WorldInv, Gathering, Copying
    <2>5. Spreading'
      BY <2>1, <2>2 DEF WorldInv, Spreading, Heading, IsDir
    <2> QED
      BY <2>3, <2>4, <2>5
  <1> QED
    BY <1>1, <1>2, <1>3, <1>4, <1>6, <1>7, <1>8, <1>9 DEF WorldInv

\* Every step keeps the invariant.
LEMMA WorldStep ==
    ASSUME WorldInv, [Next]_vars
    PROVE  WorldInv'
  <1>1. ASSUME Next
        PROVE  WorldInv'
    BY <1>1, WorldTypedStep, ControlStep, AloneStep, LinksAreKnownStep, LinksAreThereStep,
       IntactStep, UnplayedStep, TimesStep, SourcesStep, NewestIsSafeStep, NewerStep,
       GatheringStep, SpreadingStep
       DEF WorldInv
  <1> QED
    BY <1>1, WorldStutter

\* In every state a thread or a game can bring about, the parts of the
\* invariant hold: what the jobs rely on is there, and the last save is out of
\* their way (worlds.rs, sync_runner.rs).
THEOREM WorldInvariance == Spec => []WorldInv
  <1>1. Init => WorldInv
    BY WorldInit
  <1>2. WorldInv /\ [Next]_vars => WorldInv'
    BY WorldStep
  <1> QED
    BY <1>1, <1>2, PTL DEF Spec

\* The invariant contains the first property.
LEMMA InvKeepsNewest ==
    ASSUME WorldInv
    PROVE  NewestKept
  <1> USE TwoThreads
  <1>1. Judged => NewestSomewhere
    <2> SUFFICES ASSUME Judged
                 PROVE  NewestSomewhere
      OBVIOUS
    <2>1. Held
      BY DEF WorldInv, NewestIsSafe
    <2>2. Newest # 0 /\ DiskTyped
      BY WorldTypes DEF WorldInv, WorldTyped
    <2>3. ASSUME NEW p \in Places, disk[p].whole, disk[p].time = Newest
          PROVE  NewestSomewhere
      BY <2>2, <2>3 DEF DiskTyped, NewestSomewhere
    <2>4. ASSUME backup[Shared].whole, backup[Shared].time = Newest
          PROVE  NewestSomewhere
      BY <2>2, <2>4 DEF DiskTyped, NewestSomewhere
    <2> QED
      BY <2>1, <2>3, <2>4 DEF Held, Safe, SetAside
  <1>2. Calm =>
            \A t \in Threads :
                LET dst == thread[t].dst
                IN  thread[t].pc = "swapIn" /\ backup[dst].kind = "dir" =>
                        backup[dst].time < staging[dst].time
    BY DEF WorldInv, Newer
  <1> QED
    BY <1>1, <1>2 DEF NewestKept

\* The last save of a shared world is never lost: while no two jobs are past their
\* survey at once and nobody plays meanwhile it survives every failed file operation
\* and every crash, and while nothing fails it survives a game that saves during a job
\* (worlds.rs:304-319, fs_util.rs:66-80).
THEOREM LastSaveSurvives == Spec => []NewestKept
  <1>1. WorldInv => NewestKept
    BY InvKeepsNewest
  <1> QED
    BY <1>1, WorldInvariance, PTL

\* The invariant contains the second property.
LEMMA InvConverges ==
    ASSUME WorldInv
    PROVE  PassConverges
  <1> USE TwoThreads
  <1> SUFFICES ASSUME NEW t \in Threads, Calm, failures = 0,
                      thread[t].pc = "refresh", thread[t].mirrors = {},
                      NEW i \in thread[t].still,
                      thread[t].mode[i] = "mirror", disk[i].kind = "dir"
               PROVE  Fresh(i) = Fresh(Shared)
    BY DEF PassConverges
  <1>1. i \in Instances
    BY WorldTypes DEF WorldInv
  <1>2. Refreshing(t) /\ i \in MirrorsOf(t)
    BY <1>1 DEF Refreshing, MirrorsOf
  <1>3. disk[i].time = thread[t].fresh
    BY <1>2 DEF WorldInv, Spreading, Untroubled, Calm, Heading
  <1>4. thread[t].fresh = disk[Shared].time
    BY <1>2 DEF WorldInv, Newer, Calm
  <1>5. disk[Shared].kind # "link"
    BY DEF WorldInv, Control
  <1> QED
    BY <1>3, <1>4, <1>5 DEF Fresh, At

\* A pass no other job joined after its survey leaves no idle mirror behind the shared copy:
\* it took the newest of them for the shared copy, and refreshed the others
\* from it (worlds.rs).
THEOREM PassesConverge == Spec => []PassConverges
  <1>1. WorldInv => PassConverges
    BY InvConverges
  <1> QED
    BY <1>1, WorldInvariance, PTL

\* The invariant contains the third property.
LEMMA InvMatchesStore ==
    ASSUME WorldInv
    PROVE  StoreMatchesDisk
  <1> SUFFICES ASSUME NoChange, failures = 0, trouble \subseteq {"late save", "again"}
               PROVE  \A i \in Instances : members[i] = "symlink" <=> disk[i].kind = "link"
    BY DEF StoreMatchesDisk
  <1>1. \A i \in Instances : members[i] = "symlink" => IsLink(i)
    BY DEF WorldInv, LinksAreThere, Quiet
  <1>2. "abandoned" \notin trouble /\ thread[Changer].pc \notin {"place", "reply"}
    BY DEF NoChange
  <1>3. \A i \in Instances : IsLink(i) => members[i] = "symlink"
    BY <1>2 DEF WorldInv, LinksAreKnown
  <1> QED
    BY <1>1, <1>3 DEF IsLink

\* Between changes the store's list of members agrees with the links on disk,
\* as long as nothing failed and changes ran alone (sync_runner.rs).
THEOREM StoreKnowsTheLinks == Spec => []StoreMatchesDisk
  <1>1. WorldInv => StoreMatchesDisk
    BY InvMatchesStore
  <1> QED
    BY <1>1, WorldInvariance, PTL
=============================================================================
