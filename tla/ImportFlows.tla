------------------------------ MODULE ImportFlows ------------------------------
(***************************************************************************)
(* How the desktop UI drives imports and installations from Discover       *)
(* (se5/flows.rs, app/import_flow.rs, app/discover_flow.rs, the import     *)
(* dialog and its previews).  A request is first checked for files that    *)
(* only a browser may download; while some are missing it waits, scanning  *)
(* the downloads folder and copying what it finds into a staging           *)
(* directory; then a task on a worker makes the instance.  The UI polls    *)
(* all of them every frame.  What a task does with the pack is in          *)
(* PackImport, what it does to the store in InstanceLifecycle.             *)
(***************************************************************************)
EXTENDS Naturals

CONSTANTS
    Sources,      \* paths that may be imported
    Files,        \* files of a pack that a browser may have to download
    MaxRequests,  \* bound on imports and installations
    MaxSerial,    \* bound on inspections for one dialog
    MaxTries,     \* bound on tasks
    Nothing

VARIABLES
    form,       \* the import dialog: open, path, preview, serial and whether it waits for one
    previews,   \* inspections on workers, whose results the dialog will hear
    importing,  \* import.import_in_flight
    preflight,  \* the check of an import, with what it found once it has ended
    imported,   \* in_flight_import_request
    waiting,    \* pending_manual: the request that waits for downloads
    shopping,   \* discover: install_in_flight, and its own check
    tasks,      \* imports and installations on workers
    staging,    \* the staging directories there are
    doomed,     \* directories that a worker is about to remove
    fetched,    \* what the browser has put into the downloads folder
    adopted,    \* the requests whose instance has reached the store, and how often
    asked,      \* requests, directories and tasks handed out
    cancelled,  \* history: requests cancelled while they waited, and before they ran
    news,       \* the channel holds progress of an installation
    dropped     \* history: a wait was thrown away when the other flow ended, or progress came
                \* when no installation was left

flowVars == <<form, previews, importing, preflight, imported, waiting, shopping, tasks, staging, doomed, fetched,
              adopted, asked, cancelled, news, dropped>>

Package == "package"   \* what an installation from Discover downloads
Requests == 1 .. MaxRequests
Closed == [open |-> FALSE, path |-> Nothing, preview |-> Nothing, serial |-> 0, looking |-> FALSE]
NewTask(kind, r, dir, files) == [n |-> asked.tries + 1, kind |-> kind, req |-> r, dir |-> dir, files |-> files,
                                 heard |-> TRUE, out |-> "none", missing |-> {}]

Init ==
    /\ form = Closed /\ previews = {}
    /\ importing = FALSE /\ preflight = Nothing /\ imported = Nothing /\ waiting = Nothing
    /\ shopping = [busy |-> FALSE, check |-> Nothing]
    /\ tasks = {} /\ staging = {} /\ doomed = {} /\ fetched = {}
    /\ adopted = [r \in Requests |-> 0]
    /\ asked = [reqs |-> 0, dirs |-> 0, tries |-> 0]
    /\ cancelled = {} /\ news = FALSE /\ dropped = FALSE

-----------------------------------------------------------------------------
(* The dialog.  Its inspections carry a serial; only the last one counts.   *)

formOnly == UNCHANGED <<importing, preflight, imported, waiting, shopping, tasks, staging, doomed, fetched, adopted,
                        asked, cancelled, news, dropped>>

OpenForm == ~form.open /\ form' = [form EXCEPT !.open = TRUE] /\ UNCHANGED previews /\ formOnly

\* An edit forgets the preview, but neither the serial nor that one is on its way.
EditPath(p) ==
    /\ form.open /\ form.path # p
    /\ form' = [form EXCEPT !.path = p, !.preview = Nothing]
    /\ UNCHANGED previews /\ formOnly

\* load_preview_from_state.
LoadPreview ==
    /\ form.path # Nothing /\ form.serial < MaxSerial
    /\ form' = [form EXCEPT !.serial = @ + 1, !.looking = TRUE]
    /\ previews' = previews \cup {[serial |-> form.serial + 1, path |-> form.path]}

Inspect == form.open /\ LoadPreview /\ formOnly

\* Mutant of PollPreview: whatever arrives is taken.
PollAnyPreview(p) ==
    /\ p \in previews
    /\ previews' = previews \ {p}
    /\ \E ok \in BOOLEAN :
          form' = [form EXCEPT !.looking = FALSE, !.preview = IF ok THEN p ELSE Nothing]
    /\ formOnly

\* poll_preview_results.
PollPreview(p) ==
    /\ p \in previews
    /\ previews' = previews \ {p}
    /\ \E ok \in BOOLEAN :
          form' = IF p.serial # form.serial THEN form
                  ELSE [form EXCEPT !.looking = FALSE, !.preview = IF ok THEN p ELSE Nothing]
    /\ formOnly

\* handle_dropped_file: a pack dropped on the window starts the dialog afresh.
DropPack(p) ==
    /\ ~importing
    /\ form' = [Closed EXCEPT !.open = TRUE, !.path = p, !.serial = 1, !.looking = TRUE]
    /\ previews' = {[serial |-> 1, path |-> p]}
    /\ formOnly

\* What ImportInstanceState::reset drops: the channels with whoever answers on them.
Unheard == {[t EXCEPT !.heard = @ /\ t.kind # "import"] : t \in tasks}

\* Escape or Cancel.  The button is off while an import runs; Escape is not.
CloseForm ==
    /\ form.open /\ waiting = Nothing
    /\ form' = Closed /\ previews' = {} /\ importing' = FALSE /\ tasks' = Unheard
    /\ UNCHANGED <<preflight, imported, waiting, shopping, staging, doomed, fetched, adopted, asked, cancelled, news, dropped>>

-----------------------------------------------------------------------------
(* Tasks and staging directories.                                           *)

manual_or_import_blocked == importing \/ preflight # Nothing \/ waiting # Nothing

\* The staging directory of a finished request is removed on a worker.
CleanupStaging(dir) == IF dir = Nothing THEN {} ELSE {dir}
CleanupWaiting == IF waiting = Nothing THEN {} ELSE {waiting.dir}

\* spawn_import; "others" are the tasks that stay.
SpawnImport(r, dir, files, others, dirs) ==
    /\ importing' = TRUE
    /\ imported' = [req |-> r, dir |-> dir]
    /\ tasks' = others \cup {NewTask("import", r, dir, files)}
    /\ asked' = [asked EXCEPT !.tries = @ + 1, !.dirs = @ + dirs, !.reqs = IF r > @ THEN r ELSE @]

\* PendingCurseForgeManualDownloadState::new and the scan that follows it.
NewStaging == asked.dirs + 1
Wait(cont, r, needed, kept) ==
    [cont |-> cont, req |-> r, needed |-> needed \ fetched, staged |-> kept \cup (needed \cap fetched),
     dir |-> NewStaging, scan |-> "idle", found |-> {}]

\* open_manual_downloads_for_import.  What a task had staged in "from" is copied although that
\* directory is already being removed: this fails or not, as may the scan.
OpenManualDownloads(r, needed, kept, from, others, before) ==
    /\ staging' = staging \cup {NewStaging}
    /\ LET w == Wait("import", r, needed, kept) IN
       \/ /\ doomed' \in {doomed \cup CleanupStaging(from), doomed \cup CleanupStaging(from) \cup {NewStaging}}
          /\ importing' = FALSE /\ imported' = before /\ tasks' = others
          /\ asked' = [asked EXCEPT !.dirs = @ + 1]
          /\ UNCHANGED <<waiting, dropped>>
       \/ /\ doomed' = doomed \cup CleanupStaging(from)
          /\ IF w.needed = {}
             THEN SpawnImport(r, w.dir, w.staged, others, 1) /\ UNCHANGED <<waiting, dropped>>
             ELSE /\ importing' = FALSE /\ imported' = before /\ tasks' = others
                  /\ waiting' = w /\ dropped' = (dropped \/ waiting # Nothing)
                  /\ asked' = [asked EXCEPT !.dirs = @ + 1]

-----------------------------------------------------------------------------
(* Imports.                                                                 *)

\* start_import, for a CurseForge pack (which is checked first) and for others.
StartImport ==
    /\ form.open /\ form.preview # Nothing
    /\ ~manual_or_import_blocked /\ asked.reqs < MaxRequests /\ asked.tries < MaxTries
    /\ LET r == asked.reqs + 1 IN
       \/ /\ preflight' = [req |-> r, found |-> Nothing]
          /\ importing' = TRUE
          /\ asked' = [asked EXCEPT !.reqs = r]
          /\ UNCHANGED <<imported, tasks>>
       \/ SpawnImport(r, Nothing, {}, tasks, 0) /\ UNCHANGED preflight
    /\ UNCHANGED <<form, previews, waiting, shopping, staging, doomed, fetched, adopted, cancelled, news, dropped>>

\* prepare_curseforge_manual_downloads on a worker.
PreflightEnds ==
    /\ preflight # Nothing /\ preflight.found = Nothing
    /\ \E blocked \in SUBSET Files, failed \in BOOLEAN :
          preflight' = [preflight EXCEPT !.found = [failed |-> failed, blocked |-> blocked]]
    /\ UNCHANGED <<form, previews, importing, imported, waiting, shopping, tasks, staging, doomed, fetched, adopted,
                   asked, cancelled, news, dropped>>

\* poll_import_preflight; the dialog may have been closed meanwhile.
PollPreflight ==
    /\ preflight # Nothing /\ preflight.found # Nothing
    /\ preflight' = Nothing
    /\ LET r == preflight.req  found == preflight.found IN
       \/ /\ found.failed
          /\ importing' = FALSE
          /\ UNCHANGED <<imported, waiting, tasks, staging, doomed, asked, dropped>>
       \/ /\ ~found.failed /\ found.blocked = {}
          /\ SpawnImport(r, Nothing, {}, tasks, 0)
          /\ UNCHANGED <<waiting, staging, doomed, dropped>>
       \/ /\ ~found.failed /\ found.blocked # {}
          /\ OpenManualDownloads(r, found.blocked, {}, Nothing, tasks, imported)
    /\ UNCHANGED <<form, previews, shopping, fetched, adopted, cancelled, news>>

\* import_package_in_background: it ends well, with an error, or because of files that could
\* not be downloaded.  A file it was to take from a removed directory is an error.
TaskEnds(t) ==
    /\ t \in tasks /\ t.out = "none"
    /\ \E out \in {"ok", "error", "manual"}, missing \in SUBSET (Files \ t.files) :
          /\ (out = "manual") = (missing # {})
          /\ out = "manual" => t.kind = "import" /\ asked.tries < MaxTries
          /\ out = "ok" => t.dir \in staging \cup {Nothing}
          /\ tasks' = (tasks \ {t}) \cup {[t EXCEPT !.out = out, !.missing = missing]}
    /\ UNCHANGED <<form, previews, importing, preflight, imported, waiting, shopping, staging, doomed, fetched,
                   adopted, asked, cancelled, news, dropped>>

\* poll_import.  After a plain error the request is gone (taken to see whether it was one of
\* missing files) when its staging directory is to be removed, so that directory stays.
PollImport(t) ==
    /\ t \in tasks /\ t.kind = "import" /\ t.out # "none" /\ t.heard
    /\ \/ /\ t.out = "manual" /\ imported # Nothing
          /\ OpenManualDownloads(imported.req, t.missing, t.files \cup (Files \ t.missing), imported.dir,
                                 tasks \ {t}, Nothing)
          /\ UNCHANGED <<form, previews, adopted>>
       \/ /\ t.out # "manual" \/ imported = Nothing
          /\ importing' = FALSE /\ imported' = Nothing
          /\ tasks' = tasks \ {t}
          /\ doomed' = doomed \cup CleanupWaiting
                             \cup (IF t.out = "ok" /\ imported # Nothing THEN CleanupStaging(imported.dir) ELSE {})
          /\ waiting' = Nothing
          /\ dropped' = (dropped \/ waiting # Nothing)
          /\ IF t.out = "ok"
             THEN /\ adopted' = [adopted EXCEPT ![t.req] = @ + 1]
                  /\ form' = Closed /\ previews' = {}
             ELSE UNCHANGED <<adopted, form, previews>>
          /\ UNCHANGED <<staging, asked>>
    /\ UNCHANGED <<preflight, shopping, fetched, cancelled, news>>

\* The result of a task nobody listens to is dropped with its channel.
Forgotten(t) ==
    /\ t \in tasks /\ t.out # "none" /\ ~t.heard
    /\ tasks' = tasks \ {t}
    /\ UNCHANGED <<form, previews, importing, preflight, imported, waiting, shopping, staging, doomed, fetched,
                   adopted, asked, cancelled, news, dropped>>

-----------------------------------------------------------------------------
(* Installations from Discover.                                             *)

\* spawn_discover_install.
SpawnInstall(r, dir) ==
    /\ tasks' = tasks \cup {NewTask("discover", r, dir, {})}
    /\ shopping' = [busy |-> TRUE, check |-> Nothing]

\* open_detail_page, for another entry: the page does not know of the installations that run.
\* The dialog of a wait hides the entries.
OpenOther ==
    /\ waiting = Nothing /\ shopping.busy
    /\ shopping' = [shopping EXCEPT !.busy = FALSE]
    /\ UNCHANGED <<form, previews, importing, preflight, imported, waiting, tasks, staging, doomed, fetched, adopted,
                   asked, cancelled, news, dropped>>

\* start_discover_install, of a CurseForge pack (checked first) or another.  The button is off
\* while the page says that an installation runs.
StartInstall ==
    /\ ~manual_or_import_blocked /\ shopping.check = Nothing /\ ~shopping.busy
    /\ asked.reqs < MaxRequests /\ asked.tries < MaxTries
    /\ LET r == asked.reqs + 1 IN
       \/ /\ shopping' = [busy |-> TRUE, check |-> r]
          /\ asked' = [asked EXCEPT !.reqs = r]
          /\ UNCHANGED tasks
       \/ /\ SpawnInstall(r, Nothing)
          /\ asked' = [asked EXCEPT !.reqs = r, !.tries = @ + 1]
    /\ UNCHANGED <<form, previews, importing, preflight, imported, waiting, staging, doomed, fetched, adopted,
                   cancelled, news, dropped>>

\* The check has ended, and poll_discover_preflight.  A package that is already in the
\* downloads folder is installed at once, and the wait for it stays.
PollInstallCheck ==
    /\ shopping.check # Nothing
    /\ LET r == shopping.check  w == Wait("discover", r, {Package}, {}) IN
       \/ \* the check failed, or the directory, or its scan
          /\ shopping' = [busy |-> FALSE, check |-> Nothing]
          /\ \/ UNCHANGED <<staging, doomed, asked>>
             \/ /\ staging' = staging \cup {w.dir} /\ doomed' = doomed \cup {w.dir}
                /\ asked' = [asked EXCEPT !.dirs = @ + 1]
          /\ UNCHANGED <<waiting, tasks, dropped>>
       \/ \* the package may be downloaded
          /\ SpawnInstall(r, Nothing)
          /\ asked' = [asked EXCEPT !.tries = @ + 1]
          /\ UNCHANGED <<waiting, staging, doomed, dropped>>
       \/ /\ waiting' = w
          /\ dropped' = (dropped \/ waiting # Nothing)
          /\ staging' = staging \cup {w.dir}
          /\ IF w.needed = {}
             THEN SpawnInstall(r, w.dir) /\ asked' = [asked EXCEPT !.dirs = @ + 1, !.tries = @ + 1]
             ELSE /\ shopping' = [busy |-> TRUE, check |-> Nothing]
                  /\ asked' = [asked EXCEPT !.dirs = @ + 1]
                  /\ UNCHANGED tasks
          /\ UNCHANGED doomed
    /\ UNCHANGED <<form, previews, importing, preflight, imported, fetched, adopted, cancelled, news>>

WaitsFor(cont) == waiting # Nothing /\ waiting.cont = cont
Installing == \E t \in tasks : t.kind = "discover"

\* An installation on its worker sends progress: before it ends, but perhaps after the UI has
\* last looked for progress and before it looks for results.
Tell ==
    /\ ~news /\ \E t \in tasks : t.kind = "discover" /\ t.out = "none"
    /\ news' = TRUE
    /\ UNCHANGED <<form, previews, importing, preflight, imported, waiting, shopping, tasks, staging, doomed, fetched,
                   adopted, asked, cancelled, dropped>>

\* poll_discover_install begins with the progress, of whichever installation: each message
\* says that one runs (apply_install_progress).
PollProgress ==
    /\ news
    /\ news' = FALSE
    /\ shopping' = [shopping EXCEPT !.busy = TRUE]
    /\ dropped' = (dropped \/ ~(Installing \/ shopping.check # Nothing \/ WaitsFor("discover")))
    /\ UNCHANGED <<form, previews, importing, preflight, imported, waiting, tasks, staging, doomed, fetched, adopted,
                   asked, cancelled>>

\* Then the results: the first is used, whatever else has come is dropped.
PollInstall(t) ==
    /\ t \in tasks /\ t.kind = "discover" /\ t.out # "none"
    /\ tasks' = {u \in tasks : u.kind = "import" \/ u.out = "none"}
    /\ shopping' = [shopping EXCEPT !.busy = FALSE]
    /\ doomed' = doomed \cup CleanupWaiting
    /\ waiting' = Nothing
    /\ dropped' = (dropped \/ (waiting # Nothing /\ waiting.req # t.req))
    /\ adopted' = [adopted EXCEPT ![t.req] = @ + (IF t.out = "ok" THEN 1 ELSE 0)]
    /\ UNCHANGED <<form, previews, importing, preflight, imported, staging, fetched, asked, cancelled, news>>

-----------------------------------------------------------------------------
(* Waiting for downloads.                                                   *)

waitOnly == UNCHANGED <<form, previews, preflight, staging, adopted, cancelled, news, dropped>>

\* external: the user downloads a file with the browser.
Download(f) ==
    /\ f \notin fetched /\ waiting # Nothing
    /\ fetched' = fetched \cup {f}
    /\ UNCHANGED <<importing, imported, waiting, shopping, tasks, doomed, asked>> /\ waitOnly

\* step_pending_curseforge_manual_download starts a scan; find_and_stage_manual_downloads runs it.
StartScan ==
    /\ waiting # Nothing /\ waiting.scan = "idle"
    /\ waiting' = [waiting EXCEPT !.scan = "running"]
    /\ UNCHANGED <<importing, imported, shopping, tasks, doomed, fetched, asked>> /\ waitOnly

ScanEnds ==
    /\ waiting # Nothing /\ waiting.scan = "running"
    /\ waiting' = [waiting EXCEPT !.scan = "ended", !.found = waiting.needed \cap fetched]
    /\ UNCHANGED <<importing, imported, shopping, tasks, doomed, fetched, asked>> /\ waitOnly

\* apply_found_manual_downloads; a scan that failed is tried again.
Scanned(failed) ==
    IF failed THEN [waiting EXCEPT !.scan = "idle", !.found = {}]
    ELSE [waiting EXCEPT !.scan = "idle", !.found = {}, !.needed = @ \ waiting.found, !.staged = @ \cup waiting.found]

\* Mutant of Resume: an import's directory is cleaned up as an installation's is.
ResumeClean(w) ==
    /\ doomed' = doomed \cup {w.dir}
    /\ \/ w.cont = "import" /\ SpawnImport(w.req, w.dir, w.staged, tasks, 0) /\ UNCHANGED shopping
       \/ /\ w.cont = "discover" /\ SpawnInstall(w.req, w.dir)
          /\ asked' = [asked EXCEPT !.tries = @ + 1]
          /\ UNCHANGED <<importing, imported>>

\* poll_manual_downloads, once nothing is missing.  An installation's directory is removed
\* while the installation begins to read it.
Resume(w) ==
    \/ w.cont = "import" /\ SpawnImport(w.req, w.dir, w.staged, tasks, 0) /\ UNCHANGED <<doomed, shopping>>
    \/ /\ w.cont = "discover" /\ SpawnInstall(w.req, w.dir)
       /\ doomed' = doomed \cup {w.dir}
       /\ asked' = [asked EXCEPT !.tries = @ + 1]
       /\ UNCHANGED <<importing, imported>>

PollScan ==
    /\ waiting # Nothing /\ waiting.scan = "ended"
    /\ \E failed \in BOOLEAN :
          LET w == Scanned(failed) IN
          IF ~failed /\ w.needed = {}
          THEN Resume(w) /\ waiting' = Nothing
          ELSE waiting' = w /\ UNCHANGED <<importing, imported, shopping, tasks, doomed, asked>>
    /\ UNCHANGED fetched /\ waitOnly

\* cancel_manual_downloads.  Escape also closes the import dialog below.
CancelWait ==
    /\ waiting # Nothing
    /\ doomed' = doomed \cup CleanupWaiting
    /\ waiting' = Nothing
    /\ cancelled' = cancelled \cup ({waiting.req} \ {t.req : t \in tasks})
    /\ \/ form' = Closed /\ previews' = {} /\ importing' = FALSE /\ tasks' = Unheard
       \/ waiting.cont = "discover" /\ UNCHANGED <<form, previews, importing, tasks>>
    /\ shopping' = [shopping EXCEPT !.busy = @ /\ waiting.cont # "discover"]
    /\ UNCHANGED <<preflight, imported, staging, fetched, adopted, asked, news, dropped>>

\* remove_staging_dir_in_background.
RemoveStaging(d) ==
    /\ d \in doomed
    /\ doomed' = doomed \ {d}
    /\ staging' = staging \ {d}
    /\ UNCHANGED <<form, previews, importing, preflight, imported, waiting, shopping, tasks, fetched, adopted, asked,
                   cancelled, news, dropped>>

Next ==
    \/ OpenForm \/ Inspect \/ CloseForm \/ StartImport \/ PreflightEnds \/ PollPreflight
    \/ \E p \in Sources : DropPack(p)
    \/ \E p \in Sources \cup {Nothing} : EditPath(p)
    \/ \E p \in previews : PollPreview(p)
    \/ \E t \in tasks : TaskEnds(t) \/ PollImport(t) \/ PollInstall(t) \/ Forgotten(t)
    \/ StartInstall \/ PollInstallCheck \/ OpenOther \/ Tell \/ PollProgress
    \/ StartScan \/ ScanEnds \/ PollScan \/ CancelWait
    \/ \E f \in Files \cup {Package} : Download(f)
    \/ \E d \in doomed : RemoveStaging(d)

Spec == Init /\ [][Next]_flowVars

(* Workers end, the UI draws frames as long as a flow is busy (Flows::busy), and *)
(* a scan that is tried again and again does not fail for ever.                    *)
FlowFairness ==
    /\ WF_flowVars(PreflightEnds) /\ WF_flowVars(PollPreflight) /\ WF_flowVars(PollInstallCheck)
    /\ WF_flowVars(PollProgress)
    /\ WF_flowVars(StartScan) /\ WF_flowVars(ScanEnds)
    /\ WF_flowVars(\E t \in tasks : TaskEnds(t))
    /\ WF_flowVars(\E t \in tasks : PollImport(t) \/ PollInstall(t) \/ Forgotten(t))
    /\ WF_flowVars(PollScan) /\ SF_flowVars(PollScan /\ waiting' = Nothing)

FairSpec == Spec /\ FlowFairness

(* What the dialog shows is what was inspected last: an inspection that was *)
(* overtaken by a later one is ignored when it ends.                        *)
PreviewIsLast == form.preview # Nothing /\ ~form.looking => form.preview.serial = form.serial

(* The files a user has downloaded for an import stay in its staging        *)
(* directory until the import has ended: no clean-up, of whichever earlier  *)
(* request or wait, takes the directory of a running one.                   *)
StagingIsThere ==
    \A t \in tasks : t.kind = "import" /\ t.out = "none" /\ t.dir # Nothing => t.dir \in staging

(* The UI hears one import at a time, and an import is never run twice at   *)
(* once.                                                                    *)
OneImport ==
    \A t, u \in tasks :
       t.kind = "import" /\ u.kind = "import" /\ ((t.heard /\ u.heard) \/ t.req = u.req) => t = u

(* What is cancelled while it waits for a download does not appear ("and    *)
(* whatever import or install it belonged to"), unless it had begun all the *)
(* same: an installation whose package is found at once keeps its wait.     *)
CancelledIsOver == \A r \in cancelled : adopted[r] = 0

ImportsAreSound == PreviewIsLast /\ StagingIsThere /\ OneImport /\ CancelledIsOver

(* Nothing stays busy: an import that runs ends, one that waits goes on     *)
(* once the browser has what it needs, and an installation is over, unless  *)
(* the end of the other flow has thrown its wait away or progress came after *)
(* the last result: then the page goes on saying that one runs.             *)
Busy ==
    \/ importing
    \/ waiting # Nothing /\ waiting.needed \subseteq fetched
    \/ shopping.busy /\ waiting = Nothing /\ ~dropped
FlowsSettle == Busy ~> ~Busy

=============================================================================
