------------------------------ MODULE WorldSync ------------------------------
(***************************************************************************)
(* A world shared between instances: instance_sync/src/worlds.rs, run by   *)
(* the unsynchronised threads of launcher_ui/src/sync_runner.rs.           *)
(*                                                                         *)
(* The world's data lives in one shared directory.  A member's saves       *)
(* folder is a link to it, or, where linking fails, a real copy that       *)
(* mirror passes keep in step (the newest save wins).  One thread runs     *)
(* passes and one runs the user's change (enable, set members, disable);   *)
(* each works on the members and running instances it read when it         *)
(* started.  The module follows one world through one enable and at most   *)
(* one completed disable.                                                  *)
(***************************************************************************)
EXTENDS Naturals, FiniteSets

CONSTANTS Instances,
          Shared,       \* the shared directory, as opposed to a saves folder
          Passer, Changer,  \* the two threads
          MaxSaves,     \* bound: how often games save
          Failures      \* bound: how many file operations fail

ASSUME WorldAssumption ==
    /\ Shared \notin Instances
    /\ Passer # Changer
    /\ MaxSaves \in Nat /\ Failures \in Nat

Places == Instances \cup {Shared}
Threads == {Passer, Changer}

VARIABLES
    disk,       \* what is at each place: nothing, a link to Shared, a directory
    staging,    \* <place>.vertex-sync-new
    backup,     \* <place>.vertex-sync-backup
    listed,     \* store.synced_worlds has the world
    members,    \* the link mode the store records for each instance
    loaded,     \* the time of the world each running game last loaded or saved
    thread,     \* the local state of each thread
    clock,      \* how often the world was saved
    failures,   \* file operations that failed, and crashes
    everSynced, \* bound: sync was enabled once (another enable has a new Shared)
    trouble     \* history: what went wrong that the code does not repair

vars == <<disk, staging, backup, listed, members, loaded, thread, clock,
          failures, everSynced, trouble>>
store == <<listed, members>>
games == <<loaded, clock>>

running == {i \in Instances : loaded[i] # 0}

\* A directory's time is that of its level.dat; save n is made at time 2n.
Nothing == [kind |-> "none", time |-> 0, whole |-> FALSE]
Link == [kind |-> "link", time |-> 0, whole |-> FALSE]
Dir(t, w) == [kind |-> "dir", time |-> t, whole |-> w]
Entries == {Nothing, Link} \cup {Dir(t, w) : t \in 2..2*MaxSaves+1, w \in BOOLEAN}
Newest == 2 * clock

\* Following a link, as every std::fs call but read_link does.
At(place) == IF disk[place].kind = "link" THEN disk[Shared] ELSE disk[place]
Exists(place) == At(place).kind = "dir"

\* world_freshness: the time of the last save, 0 where there is no world.
Fresh(place) == At(place).time

\* What a job read when it started, and where it is.
Idle == [pc |-> "idle", job |-> "none", still |-> {},
         mode |-> [i \in Instances |-> "out"], mirrors |-> {},
         todo |-> {}, added |-> {}, src |-> Shared, dst |-> Shared, fresh |-> 0]

\* Thread t goes on at pc l, having changed the given locals.
Goto(t, l) == thread' = [thread EXCEPT ![t].pc = l]
Stop(t) == thread' = [thread EXCEPT ![t] = Idle]

MayFail == failures < Failures
Fail == failures' = failures + 1

\* What copying a directory can leave: the whole of it, unless the source is
\* broken or a game is writing to it; and, if the copy fails, part of it, which
\* looks as new as the source or, without level.dat, as new as its folder.
Played(place) ==
    \E i \in running : i = place \/ (disk[i].kind = "link" /\ place = Shared)
Copies(place) ==
    {Dir(Fresh(place), w) :
        w \in IF ~At(place).whole THEN {FALSE}
              ELSE IF Played(place) THEN BOOLEAN ELSE {TRUE}}
Fragments(place) ==
    {Dir(Newest + 1, FALSE)}
        \cup (IF Exists(place) THEN {Dir(Fresh(place), FALSE)} ELSE {})

\* Who works, and who has begun to look at the directories or to change them.
AtWork == {t \in Threads : thread[t].pc # "idle"}
Engaged == {t \in Threads : thread[t].pc \notin {"idle", "survey"}}

Members == {i \in Instances : members[i] # "out"}
NoChange == thread[Changer].pc = "idle"

Init ==
    /\ \E owner \in Instances :
          disk = [p \in Places |-> IF p = owner THEN Dir(2, TRUE) ELSE Nothing]
    /\ staging = [p \in Places |-> Nothing]
    /\ backup = [p \in Places |-> Nothing]
    /\ listed = FALSE
    /\ members = [i \in Instances |-> "out"]
    /\ loaded = [i \in Instances |-> 0]
    /\ thread = [t \in Threads |-> Idle]
    /\ clock = 1
    /\ failures = 0
    /\ everSynced = FALSE
    /\ trouble = {}

-----------------------------------------------------------------------------
(* Starting a job: the store and the running set are read here and are not  *)
(* read again (sync_runner.rs).                                             *)

Begin(t, job, pc, todo, added) ==
    thread' = [thread EXCEPT ![t] =
        [Idle EXCEPT !.pc = pc, !.job = job, !.still = Instances \ running,
                     !.mode = members, !.todo = todo, !.added = added]]

\* mirror_pass skips a world without mirrored members.
StartPass ==
    /\ thread[Passer].pc = "idle"
    /\ listed
    /\ \E i \in Instances : members[i] = "mirror"
    /\ Begin(Passer, "pass", "survey", {}, {})
    /\ UNCHANGED <<disk, staging, backup, store, games, failures, everSynced>>

\* set_world_members and disable_world_sync (which it becomes when nobody is
\* wanted) refuse while an instance they change is running.
StartChange(wanted) ==
    LET removed == Members \ wanted
        added == wanted \ Members
    IN  /\ NoChange
        /\ listed
        /\ running \cap (removed \cup added) = {}
        /\ Begin(Changer, IF wanted = {} THEN "disable" ELSE "members",
                 "survey", removed, added)
        /\ UNCHANGED <<disk, staging, backup, store, games, failures, everSynced>>

StartEnable(source, others) ==
    /\ NoChange
    /\ ~listed /\ ~everSynced
    /\ running \cap (others \cup {source}) = {}
    /\ disk[source].kind = "dir"
    /\ Begin(Changer, "enable", "move", {source}, others \ {source})
    /\ everSynced' = TRUE
    /\ UNCHANGED <<disk, staging, backup, store, games, failures>>

-----------------------------------------------------------------------------
(* mirror_world: the freshest idle mirror updates the shared copy, then the *)
(* shared copy refreshes the mirrors older than it.  Failures are reported  *)
(* and passed over.                                                         *)

MirrorsOf(t) ==
    {i \in thread[t].still : thread[t].mode[i] = "mirror" /\ disk[i].kind = "dir"}

ToShared(i, t) ==
    /\ i \in MirrorsOf(t)
    /\ \A j \in MirrorsOf(t) : Fresh(j) <= Fresh(i)
    /\ Fresh(i) > Fresh(Shared)

Survey(t) ==
    /\ thread[t].pc = "survey"
    /\ \/ \E i \in Instances :
             /\ ToShared(i, t)
             /\ thread' = [thread EXCEPT ![t].pc = "copy", ![t].src = i, ![t].dst = Shared,
                                        ![t].mirrors = MirrorsOf(t)]
       \/ /\ \A i \in Instances : ~ToShared(i, t)
          /\ thread' = [thread EXCEPT ![t].pc = "compare", ![t].mirrors = MirrorsOf(t)]
    /\ UNCHANGED <<disk, staging, backup, store, games, failures, everSynced>>

\* The shared copy's time is read once, then each mirror's in its turn.
Compare(t) ==
    /\ thread[t].pc = "compare"
    /\ thread' = [thread EXCEPT ![t].pc = "refresh", ![t].fresh = Fresh(Shared)]
    /\ UNCHANGED <<disk, staging, backup, store, games, failures, everSynced>>

\* Mutant of Refresh: the comparison is the wrong way round.
RefreshNewer(t) ==
    /\ thread[t].pc = "refresh"
    /\ \E i \in thread[t].mirrors :
          IF thread[t].fresh < Fresh(i)
          THEN thread' = [thread EXCEPT ![t].pc = "copy", ![t].src = Shared,
                                        ![t].dst = i, ![t].mirrors = @ \ {i}]
          ELSE thread' = [thread EXCEPT ![t].mirrors = @ \ {i}]
    /\ UNCHANGED <<disk, staging, backup, store, games, failures, everSynced>>

Refresh(t) ==
    /\ thread[t].pc = "refresh"
    /\ \E i \in thread[t].mirrors :
          IF thread[t].fresh > Fresh(i)
          THEN thread' = [thread EXCEPT ![t].pc = "copy", ![t].src = Shared,
                                        ![t].dst = i, ![t].mirrors = @ \ {i}]
          ELSE thread' = [thread EXCEPT ![t].mirrors = @ \ {i}]
    /\ UNCHANGED <<disk, staging, backup, store, games, failures, everSynced>>

Mirrored(t) ==
    /\ thread[t].pc = "refresh"
    /\ thread[t].mirrors = {}
    /\ IF thread[t].job = "pass"
       THEN Stop(t)
       ELSE thread' = [thread EXCEPT ![t].pc = "detach", ![t].still = {}, ![t].fresh = 0]
    /\ UNCHANGED <<disk, staging, backup, store, games, failures, everSynced>>

-----------------------------------------------------------------------------
(* replace_with_copy, one file operation at a time: another thread may be   *)
(* between the same operations on the same names.  Of the copying, which    *)
(* goes file by file, the model has any number of steps.                    *)

Replaced(t) ==
    thread' = [thread EXCEPT ![t].pc = IF thread[t].dst = Shared THEN "compare" ELSE "refresh",
                             ![t].src = Shared, ![t].dst = Shared]

ClearStaging(t) ==
    /\ thread[t].pc = "copy"
    /\ staging' = [staging EXCEPT ![thread[t].dst] = Nothing]
    /\ Goto(t, "fill")
    /\ UNCHANGED <<disk, backup, store, games, failures, everSynced>>

FillSome(t) ==
    /\ thread[t].pc = "fill"
    /\ \E part \in Fragments(thread[t].src) :
          staging' = [staging EXCEPT ![thread[t].dst] = part]
    /\ UNCHANGED <<disk, backup, store, games, thread, failures, everSynced>>

\* Another thread that is past its survey may replace what is copied, or clear or take
\* what has been copied, between two files; each path is looked up anew, so the copy
\* may end without an error and be incomplete, or a mixture.
Disturbed(t) == Engaged \ {t} # {}

\* The copying ends.
CopyToStaging(t) ==
    LET src == thread[t].src
        dst == thread[t].dst
    IN  /\ thread[t].pc = "fill"
        /\ \/ /\ Exists(src)
              /\ \E copy \in Copies(src) \cup (IF Disturbed(t) THEN Fragments(src) ELSE {}) :
                    staging' = [staging EXCEPT ![dst] = copy]
              /\ Goto(t, "swapOut")
              /\ UNCHANGED failures
           \/ /\ ~Exists(src) \/ Disturbed(t)
              /\ \E part \in Fragments(src) : staging' = [staging EXCEPT ![dst] = part]
              /\ Replaced(t)
              /\ UNCHANGED failures
           \/ /\ Exists(src) /\ MayFail /\ Fail
              /\ \E part \in Fragments(src) : staging' = [staging EXCEPT ![dst] = part]
              /\ Replaced(t)
        /\ UNCHANGED <<disk, backup, store, games, everSynced>>

SwapOut(t) ==
    LET dst == thread[t].dst
    IN  /\ thread[t].pc = "swapOut"
        /\ IF Exists(dst)
           THEN /\ backup' = [backup EXCEPT ![dst] = disk[dst]]
                /\ disk' = [disk EXCEPT ![dst] = Nothing]
           ELSE /\ backup' = [backup EXCEPT ![dst] = Nothing]
                /\ UNCHANGED disk
        /\ Goto(t, "swapIn")
        /\ UNCHANGED <<staging, store, games, failures, everSynced>>

\* The rename fails when the other thread took the staging directory or put
\* one in its place.
SwapIn(t) ==
    LET dst == thread[t].dst
    IN  /\ thread[t].pc = "swapIn"
        /\ IF staging[dst].kind = "dir" /\ disk[dst].kind = "none"
           THEN /\ disk' = [disk EXCEPT ![dst] = staging[dst]]
                /\ staging' = [staging EXCEPT ![dst] = Nothing]
           ELSE UNCHANGED <<disk, staging>>
        /\ Replaced(t)
        /\ UNCHANGED <<backup, store, games, failures, everSynced>>

-----------------------------------------------------------------------------
(* detach_member, one member after the other: a link is removed, then the   *)
(* shared data is copied in its place.  A failure ends the whole change     *)
(* and leaves the store as it was.                                          *)

\* Mutant of Unlink: the member keeps its link.
UnlinkSkipped(t) ==
    /\ thread[t].pc = "detach"
    /\ \E i \in thread[t].todo :
          thread' = [thread EXCEPT ![t].todo = @ \ {i}, ![t].mode[i] = "out"]
    /\ UNCHANGED <<disk, staging, backup, store, games, failures, everSynced>>

Unlink(t) ==
    /\ thread[t].pc = "detach"
    /\ \E i \in thread[t].todo :
          /\ thread' = [thread EXCEPT
                ![t].todo = @ \ {i}, ![t].mode[i] = "out",
                ![t].dst = IF disk[i].kind = "link" THEN i ELSE Shared,
                ![t].pc = IF disk[i].kind = "link" THEN "restore" ELSE "detach"]
          /\ disk' = [disk EXCEPT ![i] = IF @.kind = "link" THEN Nothing ELSE @]
    /\ UNCHANGED <<staging, backup, store, games, failures, everSynced>>

Restore(t) ==
    LET dst == thread[t].dst
    IN  /\ thread[t].pc = "restore"
        /\ \/ /\ Exists(Shared)
              /\ \E copy \in Copies(Shared) : disk' = [disk EXCEPT ![dst] = copy]
              /\ thread' = [thread EXCEPT ![t].pc = "detach", ![t].dst = Shared]
              /\ UNCHANGED failures
           \/ /\ ~Exists(Shared)
              /\ \E part \in Fragments(Shared) : disk' = [disk EXCEPT ![dst] = part]
              /\ Stop(t)
              /\ UNCHANGED failures
           \/ /\ Exists(Shared) /\ MayFail /\ Fail
              /\ \E part \in Fragments(Shared) : disk' = [disk EXCEPT ![dst] = part]
              /\ Stop(t)
        /\ UNCHANGED <<staging, backup, store, games, everSynced>>

\* Mutant of Detached: the shared data is deleted before the members have copies.
DetachedEarly(t) ==
    /\ thread[t].pc = "detach"
    /\ IF thread[t].job = "disable"
       THEN /\ disk' = [disk EXCEPT ![Shared] = Nothing]
            /\ Goto(t, "reply")
       ELSE /\ Goto(t, "place")
            /\ UNCHANGED disk
    /\ UNCHANGED <<staging, backup, store, games, failures, everSynced>>

\* With every member detached, disable deletes the shared data; a change of
\* members goes on to place the added ones.
Detached(t) ==
    /\ thread[t].pc = "detach"
    /\ thread[t].todo = {}
    /\ IF thread[t].job = "disable"
       THEN /\ disk' = [disk EXCEPT ![Shared] = Nothing]
            /\ Goto(t, "reply")
       ELSE /\ Goto(t, "place")
            /\ UNCHANGED disk
    /\ UNCHANGED <<staging, backup, store, games, failures, everSynced>>

-----------------------------------------------------------------------------
(* enable_world_sync moves the world to the shared folder and places it     *)
(* back, then places it in the other members; set_world_members places it   *)
(* in the added ones.                                                       *)

Move(t) ==
    /\ thread[t].pc = "move"
    /\ \E source \in thread[t].todo :
          \/ /\ disk' = [disk EXCEPT ![Shared] = disk[source], ![source] = Nothing]
             /\ Goto(t, "placeBack")
             /\ UNCHANGED failures
          \/ MayFail /\ Fail /\ Stop(t) /\ UNCHANGED disk
    /\ UNCHANGED <<staging, backup, store, games, everSynced>>

\* place_member: a link, or a copy where linking fails.
Put(t, i, mode) ==
    /\ mode = "mirror" => Exists(Shared)
    /\ IF mode = "symlink"
       THEN disk' = [disk EXCEPT ![i] = Link]
       ELSE \E copy \in Copies(Shared) : disk' = [disk EXCEPT ![i] = copy]
    /\ thread' = [thread EXCEPT ![t].mode[i] = mode, ![t].todo = @ \ {i},
                               ![t].added = @ \ {i}, ![t].pc = "place"]

\* When the source cannot be placed back the world is moved home again.
PlaceBack(t) ==
    /\ thread[t].pc = "placeBack"
    /\ \E source \in thread[t].todo :
          \/ /\ \E mode \in {"symlink", "mirror"} : Put(t, source, mode)
             /\ UNCHANGED failures
          \/ /\ MayFail /\ Fail
             /\ disk' = [disk EXCEPT ![source] = disk[Shared], ![Shared] = Nothing]
             /\ Stop(t)
    /\ UNCHANGED <<staging, backup, store, games, everSynced>>

\* A member that has a world of that name, or that cannot be placed, is passed
\* over with a warning.
Place(t) ==
    /\ thread[t].pc = "place"
    /\ \E i \in thread[t].added :
          \/ /\ disk[i].kind = "none"
             /\ \E mode \in {"symlink", "mirror"} : Put(t, i, mode)
             /\ UNCHANGED failures
          \/ /\ \/ disk[i].kind # "none" /\ UNCHANGED failures
                \/ disk[i].kind = "none" /\ MayFail /\ Fail
             /\ thread' = [thread EXCEPT ![t].added = @ \ {i}]
             /\ UNCHANGED disk
    /\ UNCHANGED <<staging, backup, store, games, everSynced>>

Placed(t) ==
    /\ thread[t].pc = "place"
    /\ thread[t].added = {}
    /\ Goto(t, "reply")
    /\ UNCHANGED <<disk, staging, backup, store, games, failures, everSynced>>

\* The UI stores the worlds the finished thread sent back.
Reply(t) ==
    /\ thread[t].pc = "reply"
    /\ listed' = (thread[t].job # "disable")
    /\ members' = thread[t].mode
    /\ Stop(t)
    /\ UNCHANGED <<disk, staging, backup, games, failures, everSynced>>

-----------------------------------------------------------------------------
(* Games.  The session lock of a world admits one game at a time.  A game   *)
(* saves what it loaded: into another directory than it loaded from, that   *)
(* makes a mixture of two saves.  A broken world is not played.             *)

StartGame(i) ==
    /\ i \notin running
    /\ Exists(i) /\ At(i).whole
    /\ ~Played(IF disk[i].kind = "link" THEN Shared ELSE i)
    /\ loaded' = [loaded EXCEPT ![i] = Fresh(i)]
    /\ UNCHANGED <<disk, staging, backup, store, thread, clock, failures, everSynced>>

SaveGame(i) ==
    LET place == IF disk[i].kind = "link" THEN Shared ELSE i
    IN  /\ i \in running
        /\ Exists(i)
        /\ clock < MaxSaves
        /\ clock' = clock + 1
        /\ disk' = [disk EXCEPT ![place] = Dir(Newest', @.whole /\ @.time = loaded[i])]
        /\ loaded' = [loaded EXCEPT ![i] = Newest']
        /\ UNCHANGED <<staging, backup, store, thread, failures, everSynced>>

QuitGame(i) ==
    /\ i \in running
    /\ loaded' = [loaded EXCEPT ![i] = 0]
    /\ UNCHANGED <<disk, staging, backup, store, thread, clock, failures, everSynced>>

\* The launcher dies between two file operations; the saved store is as it was
\* before the change.
Crash ==
    /\ \E t \in Threads : thread[t].pc # "idle"
    /\ MayFail /\ Fail
    /\ thread' = [t \in Threads |-> Idle]
    /\ UNCHANGED <<disk, staging, backup, store, games, everSynced>>

Step ==
    \/ StartPass
    \/ \E wanted \in SUBSET Instances : StartChange(wanted)
    \/ \E source \in Instances, others \in SUBSET Instances : StartEnable(source, others)
    \/ \E t \in Threads :
          \/ Survey(t) \/ Compare(t) \/ Refresh(t) \/ Mirrored(t)
          \/ ClearStaging(t) \/ FillSome(t) \/ CopyToStaging(t) \/ SwapOut(t) \/ SwapIn(t)
    \/ Unlink(Changer) \/ Restore(Changer) \/ Detached(Changer)
    \/ Move(Changer) \/ PlaceBack(Changer) \/ Place(Changer) \/ Placed(Changer)
    \/ Reply(Changer)
    \/ \E i \in Instances : StartGame(i) \/ SaveGame(i) \/ QuitGame(i)
    \/ Crash

\* History.  A clash: a game started while a job was in flight, or the world of
\* a running game was replaced.  A late save: a game saved during a job.  A
\* wait: a thread began, or had still to look at the directories, while the other was
\* at work.  An overlap: both were past that.  Again: a job began after a late save.
\* Abandoned: a change ended, by a failure or a crash, after it removed or made links
\* the store will not know of.
Clash ==
    \E i \in Instances :
        \/ i \notin running /\ i \in running' /\ AtWork # {}
        \/ i \in running /\ loaded'[i] = loaded[i] /\ Fresh(i)' # Fresh(i)
LateSave == AtWork # {} /\ clock' # clock
Again == "late save" \in trouble /\ AtWork' \ AtWork # {}
Abandon ==
    /\ thread[Changer].pc \in {"restore", "place", "reply"}
    /\ thread'[Changer].pc = "idle"
    /\ failures' # failures \/ thread[Changer].pc = "restore"

Next ==
    /\ Step
    /\ trouble' = trouble \cup {w \in {"clash", "late save", "wait", "overlap", "again", "abandoned"} :
                                \/ w = "clash" /\ Clash
                                \/ w = "late save" /\ LateSave
                                \/ w = "wait" /\ AtWork' = Threads
                                \/ w = "overlap" /\ Engaged' = Threads
                                \/ w = "again" /\ Again
                                \/ w = "abandoned" /\ Abandon}

Spec == Init /\ [][Next]_vars

-----------------------------------------------------------------------------
\* Every place, every thread and the store are in a state the code can produce;
\* a game never loads anything but a save.
TypeOK ==
    /\ disk \in [Places -> Entries]
    /\ staging \in [Places -> Entries]
    /\ backup \in [Places -> Entries]
    /\ listed \in BOOLEAN
    /\ members \in [Instances -> {"out", "symlink", "mirror"}]
    /\ loaded \in [Instances -> 0..2*MaxSaves]
    /\ clock \in 1..MaxSaves
    /\ failures \in 0..Failures
    /\ thread[Passer].pc \in {"idle", "survey", "copy", "fill", "swapOut", "swapIn",
                              "compare", "refresh"}
    /\ thread[Changer].pc \in {"idle", "survey", "copy", "fill", "swapOut", "swapIn",
                               "compare", "refresh", "detach", "restore",
                               "move", "placeBack", "place", "reply"}

\* Jobs one at a time, or waiting at their start while another is at work; and nobody
\* plays meanwhile.
Calm == trouble \subseteq {"wait"}

\* The behaviours the properties speak of.
Judged == Calm \/ (failures = 0 /\ trouble = {"late save"})

\* The last save, whole, is in place or in a backup.
NewestSomewhere ==
    \E p \in Places : \E dir \in {disk[p], backup[p]} :
        dir.kind = "dir" /\ dir.whole /\ dir.time = Newest

\* The last save of the world survives, whole, in a directory the launcher
\* manages, whatever file operation fails and wherever the launcher dies, as long
\* as nobody plays while a job is at work, no change was abandoned half way and no
\* two jobs are past their survey at once: replace_with_copy and move_dir never give
\* up the old copy before the new one is complete (worlds.rs:304-319,
\* fs_util.rs:66-80).  A job may wait at its survey, with the store and the running
\* games it read then, while another changes both.  Two jobs past it are not spoken
\* of: they copy into the same staging directory, and one can put the half of the
\* other's copy in place.  If nothing fails, a save made during a job survives, too,
\* until another job begins.
\* Newest save wins, too: while jobs meet only so and nobody plays meanwhile, what
\* replaces a directory is newer than it, even after failures and crashes.
NewestKept ==
    /\ Judged => NewestSomewhere
    /\ Calm =>
          \A t \in Threads :
              LET dst == thread[t].dst
              IN  thread[t].pc = "swapIn" /\ backup[dst].kind = "dir" =>
                      backup[dst].time < staging[dst].time

\* A pass that met no failure, and no other job after its survey, leaves every idle
\* mirror in step with the shared copy, so that members agree on the world.
PassConverges ==
    \A t \in Threads :
        Calm /\ failures = 0 /\ thread[t].pc = "refresh" /\ thread[t].mirrors = {} =>
            \A i \in thread[t].still :
                thread[t].mode[i] = "mirror" /\ disk[i].kind = "dir" => Fresh(i) = Fresh(Shared)

\* Between changes that run alone, the store's member list and the disk agree on
\* who is linked, although each change rewrites the disk long before its reply is
\* stored.
StoreMatchesDisk ==
    NoChange /\ failures = 0 /\ trouble \subseteq {"late save", "again"} =>
        \A i \in Instances : members[i] = "symlink" <=> disk[i].kind = "link"

\* worlds.rs:202: the shared data is deleted only after all copies succeed.
\* Broken: a detach whose copy failed has already removed the link; the next
\* attempt takes the member for detached and deletes the shared data.
SharedDataSurvivesFailedCopies == "clash" \notin trouble => NewestSomewhere
=============================================================================
