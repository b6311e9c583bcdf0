--------------------------- MODULE InstanceLifecycle ---------------------------
(***************************************************************************)
(* The instances of the desktop UI, from being made to being deleted       *)
(* (se5/mod.rs, create_instance.rs, flows.rs, screens/library.rs,          *)
(* library_runtime.rs, startup.rs, instances/src/lib.rs).  The UI thread   *)
(* owns the store; what takes long runs on workers that answer on          *)
(* channels which the UI polls once per frame:                             *)
(*                                                                         *)
(*   - the creation, import or Discover installation of an instance works  *)
(*     on a COPY of the store, which replaces the store when it is polled; *)
(*   - the first installation of a made instance, which when it fails      *)
(*     deletes the instance again;                                         *)
(*   - a launch: Java, the game's files, and then the game;                *)
(*   - the deletion of an instance's folder, after a confirmation.         *)
(*                                                                         *)
(* Instances are numbered as they are made.  All have names of one slug,   *)
(* so that they compete for the same folders.  Linked folders, moves, and  *)
(* the questions an import may ask (manual downloads) are left out.        *)
(***************************************************************************)
EXTENDS Naturals, Sequences, FiniteSets

CONSTANTS
    MaxInstances,   \* bound on the instances made
    MaxLaunches     \* bound on the launches requested

ASSUME LifecycleAssumption == MaxInstances \in Nat \ {0} /\ MaxLaunches \in Nat

VARIABLES
    records,    \* AppState.instances
    home,       \* the folder of an instance, 0 before one is chosen
    folders,    \* the folders on disk
    made,       \* how many instances have been numbered
    dialog,     \* AppState.dialog
    target,     \* Dialog::ConfirmDelete(id), and whether the card asked for it
    busy,       \* create_in_flight, import_in_flight
    jobs,       \* creations, imports and Discover installations on workers
    results,    \* their channels
    install,    \* the first installation of each instance
    launches,   \* launch tasks and their answers
    requested,  \* how many launches have been requested
    pending,    \* LibraryRuntimeState.pending_launches
    playing,    \* the folders games are running in
    slot,       \* install_activity: who installs, and the key it is stored by
    deletion,   \* delete_in_flight, the worker and its answer
    trouble,    \* history: the ways in which the UI has lost track of something
    hit         \* history: what a deletion the card allowed has met

store == <<records, home, folders, made>>
makers == <<busy, jobs, results>>
runtime == <<launches, requested, pending, playing>>
history == <<trouble, hit>>
vars == <<records, home, folders, made, dialog, target, busy, jobs, results,
          install, launches, requested, pending, playing, slot, deletion,
          trouble, hit>>

Instances == 1..MaxInstances
Roots == 1..MaxInstances
Kinds == {"create", "import", "discover"}
Troubles == {"replaced", "shared", "used", "uncovered"}
NoSlot == [of |-> 0, by |-> "id"]
NoTarget == [id |-> 0, card |-> FALSE]
NoDeletion == [at |-> "no", id |-> 0, card |-> FALSE]

Init ==
    /\ records = {} /\ folders = {} /\ made = 0
    /\ home = [i \in Instances |-> 0]
    /\ dialog = "none" /\ target = NoTarget
    /\ busy = {} /\ jobs = {}
    /\ results = [k \in Kinds |-> <<>>]
    /\ install = [i \in Instances |-> "no"]
    /\ launches = {} /\ requested = 0 /\ pending = {} /\ playing = {}
    /\ slot = NoSlot
    /\ deletion = NoDeletion
    /\ trouble = {} /\ hit = {}

Troubled(what, when) == trouble' = IF when THEN trouble \cup {what} ELSE trouble

-----------------------------------------------------------------------------
(* Making an instance.                                                      *)

\* One dialog is open at a time, and what is under it cannot be clicked.
OpenDialog(d) ==
    /\ dialog = "none"
    /\ dialog' = d
    /\ UNCHANGED <<store, target, makers, install, runtime, slot, deletion, history>>

\* handle_dropped_file: opens the import dialog in place of whatever is open.
DropFile ==
    /\ "import" \notin busy
    /\ dialog' = "import"
    /\ target' = NoTarget
    /\ Troubled("uncovered", dialog = "delete" /\ deletion.at # "no")
    /\ UNCHANGED <<store, makers, install, runtime, slot, deletion, hit>>

\* Mutant of MayBegin: a dialog begins while it is busy.
MayBeginAgain(k) == IF k = "discover" THEN dialog = "none" ELSE dialog = k

\* Several Discover installations can run: the button that is disabled meanwhile is
\* that of the page which began one.
MayBegin(k) ==
    IF k = "discover" THEN dialog = "none" /\ "import" \notin busy
    ELSE dialog = k /\ k \notin busy

\* start_create, start_import and start_discover_install.
Begin(k) ==
    /\ made < MaxInstances
    /\ MayBegin(k)
    /\ made' = made + 1
    /\ jobs' = jobs \cup {[id |-> made', kind |-> k, heard |-> TRUE, at |-> "begun",
                           base |-> records]}
    /\ busy' = busy \cup ({k} \ {"discover"})
    /\ UNCHANGED <<records, home, folders, dialog, target, results, install, runtime,
                   slot, deletion, history>>

\* Escape closes the dialog, also while it is busy: its channel is dropped, and the
\* job that answers on it is no longer heard.
CloseMaker(k) ==
    /\ dialog = k
    /\ dialog' = "none"
    /\ busy' = busy \ {k}
    /\ jobs' = {[j EXCEPT !.heard = @ /\ j.kind # k] : j \in jobs}
    /\ results' = [results EXCEPT ![k] = <<>>]
    /\ UNCHANGED <<store, target, install, runtime, slot, deletion, history>>

\* Mutant of Free: only the disk is asked.
FreeOnDisk(base) == Roots \ folders

\* unique_minecraft_root: neither in the copy of the store nor on disk.
Free(base) == Roots \ (folders \cup {home[i] : i \in base})

\* Instances whose folder is theirs: in the store, on their way there or out of it.
Owners ==
    records \cup {deletion.id} \cup {j.id : j \in jobs}
        \cup UNION {{results[k][n].id : n \in DOMAIN results[k]} : k \in Kinds}

JobChooses(j) ==
    /\ j.at = "begun"
    /\ \E r \in Free(j.base) :
          /\ \A other \in Free(j.base) : r <= other
          /\ home' = [home EXCEPT ![j.id] = r]
          /\ Troubled("shared", \E i \in Owners \ {0, j.id} : home[i] = r)
    /\ jobs' = (jobs \ {j}) \cup {[j EXCEPT !.at = "chosen"]}
    /\ UNCHANGED <<records, folders, made, busy, results>>

\* create_dir_all does not mind a folder that exists by now.
JobMakesFolder(j) ==
    /\ j.at = "chosen"
    /\ folders' = folders \cup {home[j.id]}
    /\ jobs' = (jobs \ {j}) \cup {[j EXCEPT !.at = "made"]}
    /\ UNCHANGED <<records, home, made, busy, results, trouble>>

Answer(j, ok) ==
    /\ jobs' = jobs \ {j}
    /\ results' = IF ~j.heard THEN results
                  ELSE [results EXCEPT ![j.kind] =
                            Append(@, [id |-> j.id, base |-> j.base, ok |-> ok])]

JobSucceeds(j) ==
    /\ j.at = "made"
    /\ Answer(j, TRUE)
    /\ UNCHANGED <<store, busy, trouble>>

\* A failed import deletes its folder, or cannot; a failed creation, and a Discover
\* installation that fails in its last step, leave it.
JobFails(j) ==
    /\ Answer(j, FALSE)
    /\ \/ UNCHANGED folders
       \/ j.at = "made" /\ j.kind # "create" /\ folders' = folders \ {home[j.id]}
    /\ UNCHANGED <<records, home, made, busy, trouble>>

JobStep(j) ==
    /\ JobChooses(j) \/ JobMakesFolder(j) \/ JobSucceeds(j) \/ JobFails(j)
    /\ UNCHANGED <<dialog, target, install, runtime, slot, deletion, hit>>

\* Mutant of Idle: a job that failed leaves its dialog busy.
IdleIfMade(k, r) == IF r.ok THEN busy \ {k} ELSE busy

\* The flags after a result of kind k.
Idle(k, r) == busy \ {k}

\* create_instance::poll, poll_import, poll_discover_install: all that arrived is
\* taken, and the first of it handled (of create's there is one).  The copy becomes
\* the store, and what has changed since it was taken is undone.
PollMaker(k) ==
    /\ results[k] # <<>>
    /\ LET r == Head(results[k])
       IN  /\ results' = [results EXCEPT ![k] = <<>>]
           /\ busy' = Idle(k, r)
           /\ records' = IF r.ok THEN r.base \cup {r.id} ELSE records
           /\ install' = IF r.ok THEN [install EXCEPT ![r.id] = "working"] ELSE install
           /\ slot' = IF r.ok THEN [of |-> r.id, by |-> "name"] ELSE slot
           /\ dialog' = IF r.ok /\ dialog = k THEN "none" ELSE dialog
           /\ Troubled("replaced", r.ok /\ r.base # records)
    /\ UNCHANGED <<home, folders, made, target, jobs, runtime, deletion, hit>>

-----------------------------------------------------------------------------
(* Tasks that write into an instance's folder: they make it where it is     *)
(* missing.                                                                 *)

WritesInto(i) ==
    /\ folders' = folders \cup {home[i]}
    /\ UNCHANGED <<records, home, made, trouble>>

\* install_activity::clear_instance: only an entry under this key.
Cleared(i, key) == IF slot = [of |-> i, by |-> key] THEN NoSlot ELSE slot

\* A first installation, when it has its Java, writes files and tells its progress
\* under the instance's NAME.
InstallWrites(i) ==
    /\ install[i] = "working"
    /\ WritesInto(i)
    /\ slot' = [of |-> i, by |-> "name"]
    /\ UNCHANGED <<dialog, target, makers, install, runtime, deletion, hit>>

InstallEnds(i) ==
    /\ install[i] = "working"
    /\ \E end \in {"no", "failed"} : install' = [install EXCEPT ![i] = end]
    /\ slot' = Cleared(i, "name")
    /\ UNCHANGED <<store, dialog, target, makers, runtime, deletion, history>>

Unanswered == {l \in launches : l.at # "answered"}

\* What a deletion meets in the folder.
Met(i) ==
    (IF home[i] \in playing THEN {"game"} ELSE {})
    \cup (IF \E l \in Unanswered : l.id = i THEN {"launch"} ELSE {})
    \cup (IF install[i] = "working" THEN {"install"} ELSE {})

\* poll_initial_installs: delete_instance, whatever uses the folder.  A record that
\* is gone is an error, and so is a folder that cannot be deleted.
PollInstall(i) ==
    /\ install[i] = "failed"
    /\ install' = [install EXCEPT ![i] = "no"]
    /\ \/ /\ i \in records
          /\ folders' = folders \ {home[i]}
          /\ records' = records \ {i}
          /\ Troubled("used", Met(i) # {})
       \/ UNCHANGED <<folders, records, trouble>>
    /\ UNCHANGED <<home, made, dialog, target, makers, runtime, slot, deletion, hit>>

\* launch_with and request_runtime_launch, from a card, the instance's screen or an
\* entry of Home, which asks only whether a launch is pending.
RequestLaunch(i) ==
    /\ dialog = "none"
    /\ i \in records /\ i \notin pending
    /\ requested < MaxLaunches
    /\ requested' = requested + 1
    /\ launches' = launches \cup {[n |-> requested', id |-> i, at |-> "preparing"]}
    /\ pending' = pending \cup {i}
    /\ UNCHANGED <<store, dialog, target, makers, install, playing, slot, deletion, history>>

LaunchGoes(l, at) == launches' = (launches \ {l}) \cup {[l EXCEPT !.at = at]}

\* Java and ensure_game_files, which tells its progress under the instance's ID.
LaunchWrites(l) ==
    /\ l.at = "preparing"
    /\ WritesInto(l.id)
    /\ slot' = [of |-> l.id, by |-> "id"]
    /\ UNCHANGED <<launches, playing>>

LaunchReady(l) ==
    /\ l.at = "preparing"
    /\ LaunchGoes(l, "starting")
    /\ slot' = Cleared(l.id, "id")
    /\ UNCHANGED <<store, playing, trouble>>

\* The game starts, from the files in the folder, or one of the stages fails.
LaunchAnswers(l) ==
    /\ l \in Unanswered
    /\ LaunchGoes(l, "answered")
    /\ slot' = IF l.at = "preparing" THEN Cleared(l.id, "id") ELSE slot
    /\ \/ UNCHANGED playing
       \/ l.at = "starting" /\ home[l.id] \in folders /\ playing' = playing \cup {home[l.id]}
    /\ UNCHANGED <<store, trouble>>

LaunchElse == UNCHANGED <<dialog, target, makers, install, requested, pending, deletion, hit>>

LaunchDownloads(l) == LaunchWrites(l) /\ LaunchElse
LaunchMoves(l) == (LaunchReady(l) \/ LaunchAnswers(l)) /\ LaunchElse

Settled == {l.id : l \in launches \ Unanswered}

\* poll_runtime_actions.
PollLaunches ==
    /\ launches # Unanswered
    /\ launches' = Unanswered
    /\ pending' = pending \ Settled
    /\ UNCHANGED <<store, dialog, target, makers, install, requested, playing, slot,
                   deletion, history>>

GameEnds(r) ==
    /\ r \in playing
    /\ playing' = playing \ {r}
    /\ UNCHANGED <<store, dialog, target, makers, install, launches, requested,
                   pending, slot, deletion, history>>

\* After 15 s without progress the entry no longer counts.
SlotExpires ==
    /\ slot # NoSlot
    /\ slot' = NoSlot
    /\ UNCHANGED <<store, dialog, target, makers, install, runtime, deletion, history>>

-----------------------------------------------------------------------------
(* Deleting an instance.                                                    *)

\* The card's delete_reason: installing, launching, running_any.
CardAllows(i) ==
    /\ slot # [of |-> i, by |-> "id"]
    /\ i \notin pending
    /\ home[i] \notin playing

\* The card asks; the menu of the sidebar (chrome.rs:547) does not.
OpenDelete(i, card) ==
    /\ dialog = "none" /\ i \in records
    /\ card => CardAllows(i)
    /\ dialog' = "delete"
    /\ target' = [id |-> i, card |-> card]
    /\ UNCHANGED <<store, makers, install, runtime, slot, deletion, history>>

\* confirm_delete and request_instance_delete: asked again only whether a game runs.
ConfirmDelete ==
    /\ dialog = "delete" /\ deletion.at = "no"
    /\ target.id \in records /\ home[target.id] \notin playing
    /\ deletion' = [at |-> "working", id |-> target.id, card |-> target.card]
    /\ UNCHANGED <<store, dialog, target, makers, install, runtime, slot, history>>

\* Mutant of MayCloseDelete: Escape closes it during the deletion.
MayCloseAlways == TRUE

\* The dialog stays while the folder is being deleted.
MayCloseDelete == deletion.at = "no" \/ target.id \notin records

CloseDelete ==
    /\ dialog = "delete" /\ MayCloseDelete
    /\ dialog' = "none"
    /\ target' = NoTarget
    /\ UNCHANGED <<store, makers, install, runtime, slot, deletion, history>>

\* The worker deletes the folder; one that is not there is no error.
DeletionWorks ==
    /\ deletion.at = "working"
    /\ hit' = IF deletion.card THEN hit \cup Met(deletion.id) ELSE hit
    /\ Troubled("used", ~deletion.card /\ Met(deletion.id) # {})
    /\ \/ /\ folders' = folders \ {home[deletion.id]}
          /\ deletion' = [deletion EXCEPT !.at = "deleted"]
       \/ /\ deletion' = [deletion EXCEPT !.at = "failed"]
          /\ UNCHANGED folders
    /\ UNCHANGED <<records, home, made, dialog, target, makers, install, runtime, slot>>

\* The record whose folder was deleted.
Deleted == IF deletion.at = "deleted" THEN {deletion.id} ELSE {}

\* poll_delete_instance_results.
PollDeletion ==
    /\ deletion.at \in {"deleted", "failed"}
    /\ deletion' = NoDeletion
    /\ records' = records \ Deleted
    /\ pending' = pending \ (Deleted \cap records)
    /\ UNCHANGED <<home, folders, made, dialog, target, makers, install, launches,
                   requested, playing, slot, history>>

-----------------------------------------------------------------------------
Next ==
    \/ \E d \in {"create", "import"} : OpenDialog(d) \/ CloseMaker(d)
    \/ DropFile
    \/ \E k \in Kinds : Begin(k) \/ PollMaker(k)
    \/ \E j \in jobs : JobStep(j)
    \/ \E i \in Instances : InstallWrites(i) \/ InstallEnds(i) \/ PollInstall(i)
    \/ \E i \in Instances : RequestLaunch(i)
    \/ \E l \in launches : LaunchDownloads(l) \/ LaunchMoves(l)
    \/ PollLaunches
    \/ \E r \in Roots : GameEnds(r)
    \/ SlotExpires
    \/ \E i \in Instances, card \in BOOLEAN : OpenDelete(i, card)
    \/ ConfirmDelete \/ CloseDelete \/ DeletionWorks \/ PollDeletion

Spec == Init /\ [][Next]_vars

\* The UI polls every frame while it is busy; a worker's downloads end, well or not.
\* Nothing is assumed of the user.
Fairness ==
    /\ \A k \in Kinds : WF_vars(PollMaker(k))
    /\ WF_vars(\E j \in jobs : JobStep(j))
    /\ \A i \in Instances : WF_vars(InstallEnds(i)) /\ WF_vars(PollInstall(i))
    /\ WF_vars(\E l \in launches : LaunchMoves(l))
    /\ WF_vars(PollLaunches)
    /\ WF_vars(DeletionWorks) /\ WF_vars(PollDeletion)

FairSpec == Spec /\ Fairness

-----------------------------------------------------------------------------
\* CONSTRAINT of the run: what follows a loss of track is not explored, but for what
\* jobs do that have chosen one folder.
Untroubled == trouble \subseteq {"shared"}

\* Every flag, task and record is of its kind, jobs and launches are of instances that
\* have been numbered, and a dialog, which is busy with one job at a time, never finds
\* two answers.
TypeOK ==
    /\ records \subseteq 1..made /\ made \in 0..MaxInstances
    /\ home \in [Instances -> Roots \cup {0}]
    /\ folders \subseteq Roots /\ playing \subseteq Roots
    /\ dialog \in {"none", "create", "import", "delete"}
    /\ target \in [id : Instances \cup {0}, card : BOOLEAN]
    /\ busy \subseteq {"create", "import"}
    /\ jobs \subseteq [id : 1..made, kind : Kinds, heard : BOOLEAN,
                       at : {"begun", "chosen", "made"}, base : SUBSET Instances]
    /\ \A k \in Kinds : results[k] \in Seq([id : 1..made, base : SUBSET Instances,
                                            ok : BOOLEAN])
    /\ \A k \in {"create", "import"} : Len(results[k]) <= 1
    /\ install \in [Instances -> {"no", "working", "failed"}]
    /\ launches \subseteq [n : 1..requested, id : Instances,
                           at : {"preparing", "starting", "answered"}]
    /\ pending \subseteq Instances
    /\ slot \in [of : Instances \cup {0}, by : {"name", "id"}]
    /\ deletion \in [at : {"no", "working", "deleted", "failed"},
                     id : Instances \cup {0}, card : BOOLEAN]
    /\ trouble \subseteq Troubles

\* No two instances of the store are in one folder, whatever is made at once.
HomesAreUnique ==
    \A i, k \in records : home[i] = home[k] => i = k

\* An instance of the store has its folder, from the frame it appears in to its
\* deletion, unless it came back with an old copy of the store or shared the folder.
RecordsHaveFolders ==
    trouble \cap {"replaced", "shared"} = {} =>
        \A i \in records : home[i] \in folders \/ deletion.id = i

\* So an instance has a folder of its own, from the frame it appears in.
FoldersAreOwned == HomesAreUnique /\ RecordsHaveFolders

\* A deletion that the card allowed meets neither a launch nor a game, however long
\* it was until it was confirmed and done, while the dialog covers the rest.
CardSparesGames ==
    trouble \cap Troubles = {} => {"launch", "game"} \cap hit = {}

Waiting ==
    busy # {} \/ pending # {} \/ deletion.at # "no" \/ \E i \in Instances : install[i] # "no"

\* Everything the UI waits for ends, once nothing new is asked of it: no dialog is
\* busy for ever, no launch or installation stays pending, and a deletion gives the
\* dialog back.
EverythingSettles == Waiting ~> ~Waiting
=============================================================================
