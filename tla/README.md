# Verification of VertexLauncher

TLA+ specifications of the concurrent and fallible parts of VertexLauncher, a desktop launcher
for Minecraft written in Rust, the TLC configurations that check them on small instances, and
TLAPS proofs of the properties that matter most. Paths below are relative to `src/crates/`.

1. [The system](#1-the-system): components, state, operations, interactions, hazards
2. [The modules](#2-the-modules): what models what
3. [The runs](#3-the-runs): what each shows, its bounds, its fairness, its excuses
4. [The proofs](#4-the-proofs): what is proved, from what, along which argument
5. [What the checks found](#5-what-the-checks-found)
6. [What is only checked, and what is not modelled](#6-what-is-only-checked-and-what-is-not-modelled)
7. [The plan, and what it has left](#7-the-plan-and-what-it-has-left)

`tlc -config X.cfg M` runs a check, `tlapm M_proofs.tla` checks the proofs; both in this
directory. `PROJECT.json` lists the components, the runs, the definitions with the lines they
model, the hazards with the properties that watch them, the mutants that show that each property
can fail, the findings and the theorems.

## 1. The system

The launcher is one process with a UI thread that draws frames and owns almost all state, an
executor for async tasks, a pool of threads for blocking jobs, and a few dedicated threads. Long
work runs on the workers; its results come back on channels (`WorkerChannel`) that the UI polls
once per frame, 100 ms apart while anything is busy. There is no lock on the store of instances:
the UI thread owns it, and workers get copies. The shared data are the process registry, the
install activity slot and the caches behind mutexes, and the file system, where the folders of the
instances, the store, the account file and the OS keyring can be met by several workers, by the
game, and by a second process: a launch from the command line, which starts before the
single-instance guard (`vertexlauncher/src/main.rs:21` and `:30`).

| Component | State it keeps | Operations | What makes it correct |
|---|---|---|---|
| `launcher_runtime` (`exec.rs`, `sync.rs`) | task queue, wake flags, result cells, permits; job queue, thread and idle counts | spawn, wake, poll, `spawn_blocking`, semaphore, timers | no lost wake; a task is queued once; a job runs once and never waits for want of a thread; permits conserved |
| `installation/process_control.rs` | registry of running games, queue of finished ones | launch, stop, queries that prune, take finished | no running game is forgotten; an exit is reported at most once; one game per account |
| `installation`: the launch command | none | find the profile, resolve its parents, choose libraries, write arguments | the profile asked for, one class path, the newest of each library, one way to begin |
| `installation`: version lists | a file per list, kept for a day | fetch, keep, fall back on what was kept | at most a day old unless a server failed; what was known is told again; an omission ends |
| `installation`: downloads, runtimes, loaders, natives | files of an instance, temporary files, work queue; one directory per Java version | `ensure_game_files`, `ensure_openjdk_runtime`, unpack natives; the speed limit | a file that exists is whole; success means that all are; a game has what it needs; every read passes |
| `instance_sync/worlds.rs`, `launcher_ui/sync_runner.rs` | shared worlds, links, mirrors, backups, staging directories; the store's member list | enable, change members, disable, mirror pass | the newest save of a world is never lost; newest wins; members agree; store and disk agree |
| `instance_sync`: options, settings, packs, hotbars, histories, servers | the files of the games | a pass: read all, merge or translate, write each | what a game saved stays; an undisturbed pass leaves all in step |
| instance store (`instances`, `se5/mod.rs`, `cli.rs`) | the store in memory, the file, the pending save, the exit snapshot | load, save in the background, save on exit, save by a command-line launch | newest state wins; nothing saved is lost |
| accounts and tokens (`auth`, `auth_state`) | accounts in memory, cache file, tokens in keyring or file | load, save, renew, sign in (three ways), select, remove, change of storage | the user's accounts and selection survive; a listed account has its token; a sign-in takes its own answer |
| instance lifecycle (`se5`, `library_runtime.rs`, `startup.rs`, `instances`) | the store, folders, dialogs, flags, channels, pending launches, install slot | create, import, install, launch, delete, move | one folder per instance, and a folder for each; nothing is deleted under a task or game; every flag is reset |
| imports (`import_flow.rs`, `discover_flow.rs`, `import_instance_modal`) | forms, previews, waiting downloads, staging directories | inspect, check, wait, stage, make | what was inspected last is made, once, whole or not at all |
| content (`managed_content`, content browser, `content_resolver`) | the manifest, its files, caches of lookups, queues of installs | search, install with dependencies, update, switch, delete, look up | no mod is lost; the manifest and the folder agree; what is needed is there; what is shown was asked for |
| packs and exports (`vtmpack`, exports) | the pack, a patch, dialogs and pickers | export, compare, apply, retry, package a server | a patch makes the other instance the same; every export ends with word of it |
| settings (`mc_options`, editor, instance settings, skins) | `options.txt`, the form, the record; profiles | edit, follow, flush, translate, detect, save | a setting is what was given last; a form shows and sends its own |
| screens (console, galleries, home, Discover) | lists, pages, answers under way | scan, fetch, merge, page | what is shown is of the latest request, each thing once |
| config, providers' clients, themes, shell | | parsing, drawing, HTTP | sequential, or presentation |

Interactions. The UI asks the lifecycle for a launch; the launch task ensures Java and game files
(downloads), runs the syncs, builds the command and starts the game, which enters the process registry;
the UI polls the registry, and each exit starts another sync. Accounts gate launches. Every change
of the store is noticed by comparing it once per frame, and saved by the pool; on exit it is
saved again, and so a window that closes, a background job and a command-line launch may write one
file. Screens ask workers, which cannot be stopped: an answer is matched to its request by a serial
number, by a flag, or not at all. All of it runs on `launcher_runtime`.

What is hard here is rarely inside one function. It is the check that is made long before what it
allows (`ensure_launch_allowed`, the delete button); a copy of state that comes back after the
state has moved on (the store after a creation, the accounts after a renewal, the manifest after a download);
an answer that arrives after another question was asked; directories replaced by steps of which one may fail or be the last; a
wake or a notification sent between a test and a wait; and files whose existence stands for
their completeness. `PROJECT.json` lists these hazards one by one, at the line where each bites.

## 2. The modules

Every action stands for a whole handler or for one step of a worker between two points at which
others can see or change what it touches: a mutex, a channel, or a file operation. The comments
name the Rust functions. A definition called `Mutant of X` is not part of the specification:
it is a plausible error in X for which a property fails.

Components that share no state in the code are checked together. An `MC` module extends or instantiates
them and has one more variable, `part`: a behaviour is one of a single component, and the variables of the others
keep their initial values (or hold a model value). A run is thus a disjoint union of state spaces, and
a property of one part is stated as `part = "p" => ...` where it is not true of the resting others.

| Host | Parts |
|---|---|
| `MCLaunch` | ProcessRegistry, LaunchPlan, VersionCatalogs, DownloadPace, MoveInstance, Galleries, HomeScreen, Discover (searches; the merge of two providers) |
| `MCRuntime` | BlockingPool (which implements JobQueue), AsyncExecutor |
| `MCFiles` | GameFiles, StoreSaver, LaunchPreparation |
| `MCWorldSync` | WorldSync, FileSync |
| `MCAccounts` | Accounts, TokenStore, SignIn, GameSettingsEditor, OptionTable, InstanceSettings, Skins |
| `MCInstances` | InstanceLifecycle, ImportFlows, PackImport (a pack; another launcher's folder) |
| `MCContent` | ContentBrowser, ContentLookup, ContentInstall, Exports (dialogs; server packages; packs and patches), Console (tabs; the merge of lines) |

### Launching

**ProcessRegistry**: the process-wide registry (`process_control.rs`). A launch is requested, checked
(`ensure_launch_allowed`), prepared and spawned, waits 1.2 s, and is registered: the window between
check and registration is where two launches pass each other, and `overlap` records which did.
Children exit at any time. Every query prunes, a stop removes and kills, `take_finished` prunes under one lock and drains
under another, the queue of finished games drops the newest at its cap, and the launcher restarts
with its games running on. Launches are model values used once, so an exit that is reported
twice is seen.

**LaunchPlan**: one launch's command line (`launch_instance`, `launch_engine`). Which profile in the folder
`versions` is found for a loader, game and version; its chain of parents; which libraries and natives it takes
with rules, duplicates and missing files; and the arguments, with one way to begin. The profiles are Mojang's
and the loaders' shapes, cut down to what the code tells apart.

**VersionCatalogs**: the files that hold lists of game and loader versions for a day. Workers read, ask, fall back on what was
kept, empty the file and write it, without a lock. A list is represented by the day it was fetched.

**DownloadPace**: `BandwidthLimiter::consume`. Workers ask under the lock and sleep out of it; time is in ticks of the window.

**GameFiles**: `ensure_game_files` and its downloads: batches, each collected by looking at which files exist, a
queue shared by a scope of workers, a worker that ends at its first error, writing `<name>.downloading` in chunks and renaming
it. File handles are kept apart from names: a worker goes on writing the file it opened when another
has renamed or truncated it. Installs of one instance do run at once (the library keeps launches by
id, the instance screen its own flag, the command line neither). The launcher crashes and begins again.

**LaunchPreparation**: two tasks prepare one instance: Java found in the directory by its `bin/java`, fetched as an archive,
unpacked and promoted piece by piece; the loader's installer, which writes profile and libraries in an order of its own and is run with one flag and then the other; the libraries; the natives. Tasks do not know
of each other; a cache is purged and a profile reinstalled beside them. `trouble` records what met.

### Runtime

**BlockingPool**, **JobQueue**: the blocking pool of `exec.rs`, at the granularity of its mutex: submitting with the rule *notify an
idle thread if there are enough, else start one below the cap, else leave the job*, threads that
start, take a job, run it, panic in it, sleep, wake without cause, time out and leave, and a system
that refuses a thread. `JobQueue` is the abstract specification, what `spawn_blocking` promises:
jobs start in order, each runs once, no more than the cap at a time, every handle is settled.
`BlockingPool` implements it under the mapping `waiting <- queue`.

**AsyncExecutor**: tasks, workers, wakers, result cells and the semaphore, composed as in the moves of an instance
(`move_instance.rs`): tasks acquire a permit, run a blocking job, await its cell. The wake is in its three steps (swap the
flag, push, notify after the unlock), and so is the poll (pop, clear the flag, poll). Acquiring is
polling, pushing a waiter and looking again; a permit's drop wakes every waiter; a timed task may
give up and leave its waiter behind; a poll may panic. `queue` and `waiters` are sequences,
because who is woken first matters.

### Instances

**StoreSaver**: how the store reaches its file: `commit` once per frame, `Saver` (one save in flight, the newest pending),
`save_store` (truncate, then write), the snapshot saved on exit, the process's end with jobs under
way, and the command-line launch that loads, plays, saves. A store is the set of changes made to it,
so that "lost" means that one is missing. Two writers mix: either content or a torn file is left.

**InstanceLifecycle**: the desktop UI's instances from creation to deletion. Jobs (creation, import, Discover installation)
take a copy of the store, choose a folder that is neither in the copy nor on disk, make it, and
answer; the poll replaces the store by the copy and starts the first installation, which on
failure deletes the instance. Launch tasks and installations write into the folder, making
it where it is missing, and write their progress into the one slot of `install_activity`, the former by the instance's id, the
latter by its name. The card's delete button looks at slot, pending launches and games; the sidebar's menu does not; the
confirmation looks at games; a worker deletes the folder; the poll removes the record. One dialog
is open at a time and covers the rest; Escape drops a busy dialog's channel; a dropped file opens
the import dialog in place of any other. All names share one slug, the case in which folders are contended.
`trouble` records how the UI loses track: a copy that undoes a change (`replaced`), two
jobs that chose one folder (`shared`), a folder deleted by the menu or by a failed installation while in use (`used`), a
deletion whose dialog was replaced (`uncovered`); `hit` records what a deletion allowed by the card met.

**ImportFlows**: how the UI drives imports and Discover installations: forms and previews by serial number, the check for files
that only a browser may download, the wait that scans the downloads folder into a staging directory, the hand-over to
a worker, and every way to cancel. **PackImport**: what that worker does, for the four kinds of source, with each step failing; and what
it makes of another launcher's folder: the loader and versions it detects and the files it copies.

**MoveInstance**: one task per file under a semaphore, the collector, the dialog, and the record that names the new folder.

### Sync

**WorldSync**: for each instance and the shared place the module keeps what is at the world's path
(nothing, a link, a directory with the time of its last save and whether it is whole), the staging
copy and the backup. Two threads run: the *Passer* (mirror pass of the sync thread) and the
*Changer* (enable, new members, disable, with the move, copy, link and `replace_with_copy` steps
in order). Games play and save at any time, each file operation may fail, and the launcher may
die between any two. Members carry modes: linked, mirrored where links cannot be made, or out.
The copying of `replace_with_copy` is a clearing of the staging directory, any number of partial fillings, and an end; where another thread is past its survey the copy may
end without an error and be partial. `trouble` records what the code does not guard against: two threads copying at once
(`overlap`), a game that saves while a job copies (`late save`), a change abandoned half way.

**FileSync**: a pass over one kind of file: who is followed (the newest file), what is translated, copied or merged, what is left
alone and the time the copy gets. All files are read first and written one by one; games read at their start and save at any time.

### Accounts and settings

**Accounts**: memory, file and keyring. Workers (the loader, the savers numbered in order, the renewal, the skins
screen) load and save step by step: token by token (each deleted, then written), the file, and then
the tokens of accounts that are gone. Renewals replace the accounts by those they loaded but keep
the selection, sign-ins complete meanwhile, accounts are selected and removed, the keyring may be
unavailable, and the process ends anywhere. Token numbers grow, so that an old one is told from a new one.

**TokenStore**: where a token is kept, under one lock: the keyring's current and legacy entries and the plain-text file, through every
change of the setting, a keyring that goes away and comes back, and every half that fails.
**SignIn**: the webview in a helper process, the system browser with its listener, the code for another device: workers, watchers, time-outs,
retries, and the two channels of the UI.

**GameSettingsEditor**: the live view of `options.txt` with its pending edits, polls and flushes, next to the game and a settings pass.
**OptionTable**: the whole table of options, and the translation between two versions. **InstanceSettings**: the form of an instance's own
settings, its catalogs, the detection of versions, the automatic save. **Skins**: the form that follows the active account, its loading and saving workers and the cache of profiles.

### Content

**ContentInstall**: the mods of one instance and their manifest. The browser's installs with dependencies, and the screen's update,
update-all, import, switch, delete and scan each load the manifest, work on files, and save their own copy; the launcher may die between any two steps.
**ContentLookup**: lookups by hash, manifest and name, their batches, the cache and its file. **ContentBrowser**: searches, one entry's page,
the queue of installs, catalogs and identification, frame by frame. **Exports**: three dialogs that
share pickers; what a server package leaves out; packs and patches, their export, comparison, application and retries. **Console**: tabs, the threads that follow logs, trimming; and `log_collapse`, the merge of repeated lines,
as a whole and as it comes.

### Screens

**Galleries**: screenshots page by page, announcements, deletion, the log that grows. **HomeScreen**: worlds and servers grouped and starred, pings.
**Discover**: searches at two providers page after page, one pack's versions, and the merge of both results.

## 3. The runs

States are distinct states found by TLC; a host's are the sum over its parts.

| Run | Module, configuration | States | Shows |
|---|---|---|---|
| `launch` | `MCLaunch`, `Launch.cfg` | 640,379 | Concurrent launches, exits, stops, queries and the UI poll lose no running game, report no exit twice, and admit conflicting games only in overlapping launch windows. Command lines of profiles and requests that mix loaders, games, worlds and servers. Three days of version lists, two workers, failing servers, a crash. Three downloads under a limit. A move with a failing copy; galleries, home screen and Discover answered in every order. |
| `world_sync` | `MCWorldSync`, `WorldSync.cfg` | 1,805,702 | A world of two instances, two saves, two failures or crashes, jobs one at a time or one waiting at its survey: the newest save survives, newest wins, a pass leaves idle mirrors in step, store and disk agree. Files of three instances in three formats, two saves, three commands under a list cut at two, a pass cut anywhere: what was saved stays, and an undisturbed pass leaves all in step. |
| `world_disable` | `WorldSync`, `WorldDisable.cfg` | – | Violation: section 5. |
| `runtime` | `MCRuntime`, `Runtime.cfg` | 278,090 | Four jobs, at most three threads, refused threads, panics, time-outs, spurious wakes: no job waits for want of a thread, and the pool implements `JobQueue` with its liveness. Three tasks share a permit on two workers: permits are conserved, no wake is lost, every task ends. |
| `files` | `MCFiles`, `Files.cfg` | 1,991,689 | Two installs of two workers fetch one metadata file and its two libraries, with failures, crashes and new beginnings: what exists is whole unless two wrote it at once. Saves of the store in the background, on exit and by a command-line launch: the newest is left. Two tasks prepare one instance and its Java, Forge's installer writing piece by piece: what the game uses is whole, or is said not to be. |
| `store_exit` | `StoreSaver`, `StoreExit.cfg` | – | Violation: section 5. |
| `accounts` | `MCAccounts`, `Accounts.cfg` | 992,393 | Two accounts over sessions that fail or end anywhere, saved and loaded by four workers: what of them survives, and what only when savers do not race. Where a token is kept and found again; sign-ins in three ways; the editor of game settings, the table of options, an instance's settings, the skins screen. |
| `instances` | `MCInstances`, `Instances.cfg` | 798,864 | Instances made, installed, launched and deleted at once, with dialogs escaped and files dropped: one folder each, none without, and a deletion meets no launch and no game. Imports with previews, waits and staging; what an import makes is whole or nothing; all that the UI waits for ends. |
| `content` | `MCContent`, `Content.cfg` | 880,447 | The content browser over two instances and two entries. Lookups of two files. Three operations on the mods of one instance, with a download that fails, a torn file, an unanswered lookup or a crash. A pack and a patch, applied with failures and retries. Export dialogs with three pickers; a server package. The console of two accounts, and the merge of nine lines, at once and as they come. |
| `lookup_transient` | `ContentLookup`, `LookupTransient.cfg` | – | Violation: section 5. |
| `slow_limit` | `DownloadPace`, `SlowLimit.cfg` | – | Violation: section 5. |
| `packs_follow` | `FileSync`, `PacksFollow.cfg` | – | Violation: section 5. |

**Why the bounds are enough.** Each is chosen so that the least case of every hazard fits.

- `launch`: two launches make the admission race, and a backlog of 1 makes the queue overflow. Three days are a fetch, a day that
  keeps and one that does not; two errors are a failure on the day and one since. Three downloads let two wait for one. Two moves, three folders and two files
  show a second move after a failure. Two pages of two queries give an answer of the other query and of the other page.
- `world_sync`: two members, a shared place, two saves (old and new) and two failures or crashes show each loss of a world that needs two
  faults. Files have three instances of three formats, so that one lies between; three commands make a history of two drop one.
- `runtime`: four jobs on three threads give jobs that wait at the cap, a woken thread that counts as idle, and a thread
  that times out. With three tasks on one permit two wait and one gives up.
- `files`: two batches with two workers each show a failure next to a success and metadata that names the next batch. Four changes give an
  old, a pending, a new and a foreign store. Two tasks and one fault show a runtime cut short and one fetched twice.
- `accounts`: two accounts so that one can be active, removed or renewed beside the other; three tokens are an old one, a new one and the one between. Thirteen versions are those at which the
  table of options changes. Sign-ins: a first, and a second that meets what is left of it.
- `instances`: two instances for two jobs that race for a folder and for a job that races a deletion; instances start in the
  empty store of a first start, and the second job begins with the first one's instance in place.
- `content`: three operations on two mods and the library they both need; two entries of which one is at both providers; two files, one of each provider;
  a pack of one mod in three versions edited twice on either side; nine lines with patterns of up to two.

Nothing in these components compares more than two actors at a time, and the proofs of section 4
remove the bounds where they were done.

**Constraints and excuses.** Properties carry explicit excuses where the code makes no promise, and
each excuse is a history variable that an action sets, never a weaker guard. A `CONSTRAINT` ends behaviours after the first state
in which nothing more is claimed of them (that state is still checked).

- `WorldSync!Judged` (in `MCWorldSync!Claimed`): two jobs may be at work while one of them has still to look at the directories (`wait`), with any
  failure and crash. Nothing is claimed of two jobs past that (`overlap`), which copy file by file into one staging directory and may
  put a half of it in place; nor of a late save and a failure, or another job after it; nor of a change given up half way.
  One Passer only: `sync_runner` can start several, and two passes that meet are two threads that overlap. `Claimed` also has one game
  change the options at a time.
- `FileSync`: a command may be dropped when the list is full, and of the last save no older one is kept in its place, unless a pass that had read before the save has written a list since (`overtaken`).
- `GameFiles`: files that two workers wrote at once (`met`) may be torn: the temporary name is not
  unique. Crashes are of the process, not of the machine; rename is POSIX.
- `LaunchPreparation`: what an extraction cut short, a second task, a purge or a reinstallation beside it leaves is not claimed to be whole. After an installer that was given up
  when it had written the profile (`half`), or beside one at work (`beside`), all is claimed to be there but the loader's libraries.
- `StoreSaver`: changes may be lost when the store could not be loaded (the UI goes on with an empty
  one and saves it), when two processes shared it, and when the exit met a background save.
- `Accounts`: the list may be wrong after a race of a renewal or the skins screen with a removal (the
  account returns) or a sign-in (it is dropped); the disk after racing savers or a failure;
  `store_refresh_token` deletes before it writes, and may be cut between. `MCAccounts!Claimed` ends behaviours at the second kind of race or failure, at the second
  account whose token is in doubt (`TokenStore`), at overlapping writers of `options.txt` (`EditorClaimed`), and where the skins screen may show another's profile (`SkinsClaimed`).
- `InstanceLifecycle!Untroubled` (in `MCInstances!Explored`): what follows a loss of track is not explored, except after two
  jobs have chosen one folder, so that `HomesAreUnique` sees both of their answers. `AllSettles` is hence about behaviours without such a loss. A second
  inspection and a second task of an import are not explored together.
- `ContentInstall` (`MCContent!Claimed`): nothing is claimed of the mods after two jobs worked on one instance at once; that
  they do is in section 5.
- `VersionCatalogs`: what was told may be forgotten after two workers or a crash met at the file, and a loader whose server failed may have
  left the catalog.
- `Discover`, `HomeScreen`, `Galleries`, `Console`: answers that cross a request whose numbers start again, requests that were dropped, tabs whose name
  another had before; each is a variable (`mixed`, `renumbered`, `crossed`, `unseen`, `again`, `reborn`, `displaced`).

**Fairness.** It is stated only where threads are scheduled and ends are sure, and never of a user, a
time-out, a failure, a panic or a spurious wake.

- ProcessRegistry (`ExitIsSettled`): weak fairness of the two steps of the UI poll, which runs every frame
  (`se5/mod.rs:395`), not of games.
- DownloadPace (`SmallReadsPass`): of the clock and of each worker's next request.
- BlockingPool (`Implements`): of each worker's steps (the scheduler runs every thread), of the system's answer to a spawn, and
  of the end of a running job; time-outs are not fair, so liveness does not rest on them.
- AsyncExecutor (`EveryTaskEnds`): of every worker's and the spawner's step and of blocking jobs; a waiter is not
  rescued by a time-out or a spurious wake.
- InstanceLifecycle and ImportFlows (`AllSettles`): of the polls (the UI is woken every 100 ms while busy, `se5/mod.rs:905`, and every second in any case, by `poll_themes`), and of jobs, installations, launches and the
  deletion worker, whose HTTP requests and file operations end, with success or an error; strong fairness of one step, a scan of the downloads folder that
  succeeds: scans are tried again every few seconds, and do not fail for ever.

Deadlock is not checked: in every host some part has bounded work (jobs, saves, clicks, faults) and stops when it is done. What must not
stop before that is said by the liveness properties.

## 4. The proofs

Eight modules of theorems hold for every value of the constants, under assumptions that are named and that TLC evaluates in the runs. Theorems of
a part that is composed by INSTANCE (TokenStore, SignIn, VersionCatalogs, the screens, ImportFlows, PackImport, StoreSaver, LaunchPreparation, AsyncExecutor under its renaming) are proved of the
host's specification `MCSpec`: a step of the host is a step of the part or leaves its variables alone.

**MCLaunch_proofs**, the registry, from `RegistryAssumption` (the backlog is a natural number and
`NoAccount` is not an account). The properties are not inductive: that an exit is reported once rests on what may be
in the registry at all. `IInv` is the conjunction of `TypeOK`, `RegistrySound` (a child in the registry is under its own
launch's instance, and its launch has registered it), `RunningIsTracked`, `ReportedWereRegistered`,
`ReportedAtMostOnce` and `ContendersOverlap` (two conflicting launches that have passed the check, and whose games
have not ended, have each other in `overlap`: this is all that an exclusion by check-then-register gives).
Lemmas say what pruning and stopping do to registry and queue; the step lemma has one step per
action. From `Spec => []IInv` follow `TypeCorrect`, `NoGameIsLost`, `AdmissionExcludes` and `ReportsAreUnique`.

The same module proves `CatalogsStaySound` of the version lists, for any games, loaders, workers and days, with no assumption on the constants. `CatalogsAreSound` speaks of the last
answer only; `CatalogInv` says what answers are made of. `DaysHold`: the file, and what a worker is about to write, hold lists *of one day*, the day the file
carries, or nothing; and nothing, in the catalog, only of a loader whose server failed on that day or since. `KnownHeld`: while no two workers have met and no writer
has died, at most one works, and what a file once told is in the file, or in what the one worker has read of it, or in what it will write. Creating the file empties it: that is when the worker's hands
are the only place, and why the invariant needs them.

And it proves `ScreensStayRight` of the four screens that compose there, from `LaunchAssumption` (there is a place and a search to begin with; screenshots are finitely many, a page and the number of changes are
numbers) and `NoneAssumption` (`None` is none of the values it stands in for). `ScreensInv` has one conjunct for each. *A move*: while files are copied the record points where it did; what was scanned and is
neither left to copy nor failed is in the new folder as last saved; and a move that is complete has failed at none. *The gallery* (`GalleryInv`): a screenshot of the request is one task, one message, or shown; a task that read its screenshot says that it is over right
after; and `total` is what is over plus the tasks at work plus the ends in the mail (`Counted`: cardinalities, a mail that shifts by one place and pages that are added, from `FiniteSetTheorems` and `SequenceTheorems`). *Done* is then
known to mean that nothing of the request is left. *The watcher and the log*: what is announced is what is known without the first listing; an answer is as new as its request, and requests only grow newer. *The home screen*: what stands under one key has
that key, and no two entries have one; the latest scan was given the stars there are, unless one is still asked for; and a server has one question or one answer under way, and counts as being asked. *Discover*: a search in flight continues what is shown; a fetch with the page's number is of its pack and provider.

**MCRuntime_proofs**, the pool, from `PoolAssumption`. The counters are cardinalities, so the proof is in two
halves: the *counters* (`threads`, `idle` equal the number of threads alive and idle; lemmas on adding, removing and
moving one worker, from `FiniteSetTheorems`), and the *data* (each job is in one place). `TypeCorrect`, `NoNeedlessWait`
(below the cap every job has a thread on its way), `EachJobRunsOnce`, and `ImplementsPromise`:
every step of the pool is a step of `JobQueue` or a stutter. That no
more than the cap run at once uses the counters, that jobs run once uses the data. `RuntimeTypes` and `RuntimeWakes` carry the theorems of both schedulers over to the run's specification.

**AsyncExecutor_proofs**, from `ExecutorAssumption`. The invariant adds to the properties who will wake a task: for every task that has something to go on with there is an
actor at one of the three steps of a wake, an entry of the queue, a worker that has popped it, or a waiter the next release wakes. `QueueIsBounded`, `WakesAreKept`,
`SleepersMaySleep`; `TypeCorrect` includes that permits are conserved.

**MCFiles_proofs**, from `FilesAssumption` and `MCFilesAssumption` (the bound on changes is a number). *Downloads* (`GameInvariance`): the workers of an install keep step with its batch, who writes a file alone writes its own temporary one, and the files of earlier
batches are whole; from it `FilesThatExistAreWhole` and the action property `WholeFilesStay`. *The store*: what each pending, running and finished save holds, and that the durable store is in one of them;
`StoreIsNewest`, `StoreOutlivesExit`. *Preparation*: what each step of a task relies on, as long as nobody met it; `PreparedIsWhole`. An installer may stop between any two of its writes, so the invariant follows the
libraries of the loader apart from the rest: a profile without them implies that an installer is at work or was given up (`half`), and who takes such a profile has met it (`beside`) or comes after it. `TypesHold` is the type
invariant of the run, which says more than types: a file open under its name is the file of that name, holds chunks of its own only, and one background save at most is in the pool.

**MCAccounts_proofs**, from `AccountsAssumption` (constants are numbers, `NoAccount` is no account), `MCAccountsAssumption` (the bound on sign-ins is a number) and `OptsAssumption` (`NoKey` is none of the overrides and filters). `Invariance`: memory, file and every worker's copy hold what
the user has, or a race is recorded; `AccountsAreTheUsers`, `ChosenStaysActive`. `DiskIsTrue` needs two more layers (`DiskInv`). `ListedKept` holds as long as savers have not raced and no storing was cut: at most
one worker saves, a token of memory that could not be read is unread in every save still to come, what a renewal or the skins screen loaded is in the keyring, and an account leaves the keyring only after it left the file.
`DiskFollows` holds as long as, besides, no save failed: the save asked for last is of memory, and is to come, being made, or made; every token of memory is the newest, or the keyring holds the newest. That no save older than
the file is begun is the numbering's doing, and both layers need it. `TokensAndSignIns` is about two further parts: `TokenInv` says of every place a token may be what it holds if a load would read it now, and if it would read it after
the setting or the keyring changes; `SignInInv` says of each worker what it has been given and of each channel whom it belongs to, so that an account comes from the sign-in's own answer, and is taken or was given up.
`FormsAreKept` is about the three forms, without the constraint `Claimed`. *Game settings* (`EditorInv`): half of the file is written exactly while the game saves, and what was edited, on top of the file, is what was given last.
*An instance* (`SettingsInv`): the version was picked unless the catalog moved the form or the pack left it behind, loader versions are of a known pair, and an option that is marked is in the record. *Skins* (`SkinInv`): a worker is
listened to exactly while the form waits for it; `Underway` says how far a save that is heard has brought the service from what was loaded to what was asked for; and the account cache has the service's profile, or one from before the screen, or a worker is about to write it. Looking for the proof showed that the model excused
the wrong forms after the update of a pack, by the record's version instead of the form's; `PackUpdate` now excuses those whose version is not the pack's.

**MCInstances_proofs**, from `LifecycleAssumption` and `FlowAssumption` (the bound on requests is a natural number). `LifeInvariance`, of InstanceLifecycle: no copy of the store, of whichever job, pairs two instances with one folder; what is being made is in one place only; the answer the card gave holds until the deletion is
done, because what would change it is behind a dialog. `EveryInstanceIsHoused`, `DeletionSparesGames`. `ImportsStaySound`, of the other parts, for any number of packs, requests, files and tasks, and without the bounds of `Explored`. `FlowInv` says of the
flows: the import that is heard is the one the UI knows of, and there is none while another is checked or waits (`Hearing`); a request is in one place at a time (`InOnePlace`); what is not over has no instance yet, so
that what is cancelled gets none (`Unfinished`); and a staging directory belongs to one import, or to the wait before it, and no worker is about to remove it (`Staged`). It holds with progress messages that come after the
end, and with installations begun beside one that runs. `PackInv` goes stage by stage through an import, and
`FolderStep` through every launcher's way of reading a folder: its own manifest taken on trust, or files found, and metadata that may be broken.

**WorldSync_proofs**, from `WorldAssumption`. `WorldInvariance`: phase by phase, what each job relies on is on disk (what it has copied so far, the backup, the directory it copies: `Sources`), the last save is somewhere that the phase does not remove, and the links and the
store are what the phase says. Staging and backup names are one for both threads, so nothing holds of a copy unless the other thread has not begun to look: `Alone` says that of two jobs that never met one is idle or at its survey, and `CalmPast` that steps keep this. The staging
directory is known to be whole only from the end of the copying on, and before that nothing relies on it.
`LastSaveSurvives`, `PassesConverge`, `StoreKnowsTheLinks`, with the excuses `NewestKept` names, for any number of instances, saves, failures and crashes.

**MCContent_proofs**, from `NothingAssumption` (the value that stands for *none* is neither an update nor a cache), of `ContentLookup`: `RowsAreTrueAndSettle`. The invariant has four parts. `LookedUp`: no two batches have one
number, and a row whose latest batch still runs waits for it. `Answered`: a row, and an answer that will be taken, names the version in its file unless the file is `Stale`, that is, replaced by an update whose result is not polled; rows that an update of
their own kept are excepted. It rests on lemmas that follow an answer through every way of finding it (`ResolvedTrue`). `Truthful`: what the cache, its file, saves and batches hold under a hash is the version with that hash. `Saved`: unless a clear crossed a save,
one save runs at a time, with the cache of its revision, while the cache is marked.

## 5. What the checks found

Each of these is a run that TLC finds violated, against a comment or a test of the repository.

- `world_disable`. Shared data is to be deleted "only after all copies succeed"
  (`worlds.rs:202`). A detach removes the link, and then copies. If the copy fails the disable
  stops; the next one finds no link, takes the member for detached, and deletes the shared world, which the member never got.
- `store_exit`. The save on exit is there "so a background save that the exit cut short cannot lose
  them" (`se5/mod.rs:291`), but neither waits for nor stops a save in the pool, which truncates the
  file that was just saved.
- `lookup_transient`. A cache version was introduced because the one before "cached transient Modrinth failures as permanent misses"
  (`installed_content_hash_cache.rs:29`). When the hash is known but the call for its project fails, a miss is still recorded and saved.
- `slow_limit`. A limit of "500Kbps" is accepted by the settings (a test in `config/src/lib.rs:1568`). A read of 64 KiB never fits into such a window, and its worker
  sleeps and asks for ever.
- `packs_follow`. A pass "keeps the enabled list in step" (`resource_packs.rs:2`). The pass over the settings of the same file has just given the copy the time of the newest, and
  the packs, which only go to older files, never follow.

Seen while modelling, excused or left out, and worth a look. *Launching*

- `ensure_launch_allowed` (`process_control.rs:59`) releases the registry before the preparation, the spawn and 1.2 s of waiting:
  two launches of one account, in two instances, both pass.
- A beta of a loader ranks above its release; the hint `forge` matches NeoForge's profiles and `47.1` matches `47.10`; a loader's profile that adds JVM arguments
  drops the path of the natives. A loader whose server failed is hidden for a day; lists that are fetched per game share one time.
- Forge's installer may fail, or be stopped, after it wrote the profile and before it downloaded its libraries (`installer_run.rs:190`). The next attempt finds the profile, does not run the
  installer (`launch_engine_modloaders.rs:96`), and the game starts without them, until the instance is reinstalled.
- A Java extraction that was cut short after `bin/java` is taken for complete for ever. A library launch runs while the
  instance screen reinstalls.
- A move whose collector panics stays in flight; a destination inside the source is not refused; what a game writes during the move is torn or stale; the source is never removed.

*Instances*

- A creation, import or Discover installation replaces the whole store by its copy
  (`create_instance.rs:86`): deletions, renames or instances of the meantime are undone. Two jobs may choose one folder.
- Escape closes a busy creation or import dialog and drops its channel: the job goes on, and its folder stays without a record.
- A failed first installation deletes the instance without asking whether it was launched meanwhile
  (`se5/mod.rs:569`), the sidebar's menu asks for nothing but running games, and the card asks the install slot by the id where the
  installation keeps it by name (`library.rs:384`).
- A store file torn by a crash is replaced by an empty store at the next save.
- An import that fails leaves its staging directory: the request was taken (`flows.rs:226`) when the cleanup looks for it (`:232`).
- A progress message that is drained after the result turns `install_in_flight` on for ever (`flows.rs:374`). Opening another entry turns it off while an installation runs
  (`discover_detail.rs:25`), and a second one begins beside it.
- A file of a CurseForge pack that is no mod is recorded as `mods/<name>` and dropped at the next save. A folder's own launcher manifest is taken on trust if it lists anything; metadata that cannot
  be parsed refuses the folder of a known launcher.
- Discover's staging directory is removed while the installation reads it; a package found at once may be installed twice (`flows.rs:452`); the result of one flow throws the other's wait away; of two
  Discover results in one frame the first is adopted; the hashes of an mrpack are never checked; a cached game version `1.21.4` satisfies `1.21`.

*Sync*

- Two passes, or a pass and a change, use one staging directory (`worlds.rs:310`): one clears it or fills it while the other copies, or renames the other's half of a copy into place, with no error; that half
  has the time of the save and wins over the whole one.
- The merged history keeps 50 commands and writes them to every instance, so an instance's own older ones go. A pass that had read before a save, and writes after it, makes a list without the save's commands look newer:
  the next pass may drop the newest when the list is full.
- With three instances, the last save of a world is lost when a linked game saves during a pass and another pass follows; two crashes can leave a directory that is older than its backup;
  a save late in a pass is only picked up when the pass is asked for again.
- Hotbars follow the data version of the *target file*; of equal times the last is taken; a server deleted in one instance comes back; packs are not copied atomically.

*Accounts and settings*

- A token that could not be removed from the plain-text file is stale there; a read error of that file counts as empty; a keyring entry is deleted before it is set; deleting while the keyring is away reports success.
- The health check of the sign-in window overwrites a redirect (`desktop.rs:633` and `:510`); a completed device code polled after its expiry is dropped; every answer but 200 counts as waiting.
- An `options.txt` that cannot be read counts as empty and is rewritten; writes of the game between a flush's read and its rename are lost; while a key is captured any click binds.
- Instance settings: a failed catalog clears the version, and the next success chooses the newest, which Save keeps; the automatic save marks its fingerprint before it saves and never tries again.
- Skins: edits made while a save runs are discarded when it lands; an abandoned refresh may write the older profile to the cache; a snapshot that comes during the second refresh
  blanks a loaded form (against the comment in `skins_state.rs`); a picked file goes to the account that is active when it comes.

*Content*

- The browser's install and the screen's update load and save the manifest each for itself: the mod of one is lost. A switch that fails
  loses the old file; re-enabling renames over a newer file; a failed lookup of dependencies installs without them (`content_browser_install.rs:1117`); a toggled file drops its entry at the next load.
- The browser accepts an old instance's manifest as the new one's, drops the search that filters ask for while another is in flight (`content_browser_api.rs:200`), and another instance's worker clears the flag of
  the shown one. The lookup by name uses a key that is not normalised (`installed_content_resolver.rs:570`).
- A patch downloads a deleted mod again that the manifest still lists; a folder left out of a patch but in its base is deleted in the target; a download with the wrong hash removes the old file. File pickers
  are shared by all instances; another dialog replaces that of a running export; archives are written in place.
- Console: closed tabs keep their mergers (`kit.rs`); a character split across two reads is garbled; a renamed instance's tail writes to the launcher's tab; `log_collapse` shows the lines of the
  first cycle where its comment says the latest.

*Screens*

- Discover drops a search that is asked for while one is in flight, and then appends page 2 of the new filters to page 1 of the old; opening a pack starts its numbers anew, and the last pack's answer is accepted.
- Galleries restart loading each tick while a log grows, and announce all screenshots after a failed first listing. The home screen consumes the wish to scan again while a scan is pending.
- A worker that panics leaves its flag set for ever: galleries, home, Discover, imports, the skin picker.

## 6. What is only checked, and what is not modelled

Only model-checked, and why:

- Liveness: `ExitIsSettled`, `SmallReadsPass`, `AllSettles`, `EveryTaskEnds` and the liveness half of `Implements`. Fairness and ENABLED are out of the
  prover's reach.
- `CommandAndMergeAreRight` (LaunchPlan; the merge in Discover is a recursive function over the hits), `TranslationSettles` and `RowsShowEverything` (OptionTable, in `SettingsAreKept`): what a long computation makes of concrete tables and profiles. They
  range over the data the configuration gives, and there is no induction to do over it, or one over data, which the prover lacks.
- `SavesSurvive` and `PassesAgree` (FileSync), and the other properties of `MCContent`: histories and server lists, what is dropped with a mod, the browser's folds over its messages, the packages and the merge of lines are folds and recursive functions over data, and what
  they compute needs an induction over that data.
  Their parts without folds (FileSync's options, configurations and hotbars; the order of ContentInstall's steps) could be proved, and have not been.

Not modelled:

- The content of data: versions, manifests, arguments, messages, names. Only what the properties
  tell apart is kept. Archive formats, hashes, NBT, the ping protocol and pictures are outcomes.
- Downloads: sizes, probes, telemetry; what a Forge installer does inside is the writing of a profile and of libraries, in either order. The removal of a file whose hash is wrong (`provider_download.rs:85`).
- Writes whose failure the code ignores: a version list that was truncated and not written (`installation_core.rs:65`, `:228`); a content manifest that could not be saved after an update, whose file stays (`content_browser_install.rs:715`).
- A bulk worker of lookups that panics half way through its batch.
- Accounts: the contents of the OAuth exchange, avatars, migration of old formats, two processes that share the token file.
- Executor: `block_on` and the heap of timers; compute pool and memory gate are thin wrappers.
- Lifecycle: linked instances (whose folder is deleted with the record).
- UI drawing, themes, fonts, gamepad, webview runtime, Discord, OBS: presentation or platform integration.
- Providers' clients and config formats: sequential parsing and mapping. The config's file is written by the same `Saver` as the store.

## 7. The plan, and what it has left

The order of writing was the most important behaviour first: the registry, shared worlds, the pool and executor, downloads, the store, accounts, the lifecycle; then what surrounds each
(preparation, the launch command, version lists, tokens and sign-ins, files in step, imports, content), and last the screens. Each is a module over its own state, written to be proved
about: constants with named assumptions, one action per operation, invariants as conjunctions, and recursive functions instead of recursive operators.

What it has left:

1. Proofs of FileSync's options, configurations and hotbars, and of ContentInstall's `NothingLost` once what is dropped with a mod is stated without a recursive function.
2. An abstract specification of an instance's life (absent, made, ready, in use, gone) that the UI implements where it does, and of the store's file (*always some store the UI had, and the newest at rest*).
3. Several Passers in WorldSync, as `sync_runner` starts them, and linked instances in InstanceLifecycle.
4. The compute pool and the memory gate, once they do more than wrap a semaphore.
