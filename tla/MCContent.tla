------------------------------ MODULE MCContent -------------------------------
(***************************************************************************)
(* The content of instances.  The browser, the instance screen's lookups and *)
(* the mods in the folder, what leaves the launcher and the console do not    *)
(* share state in the models: one run explores each of them.                  *)
(***************************************************************************)
EXTENDS ContentBrowser, TLC

CONSTANTS Miss, Files, FromCurseForge, Managed, Packed, Hashed, MaxUpdates, MaxSerial, app, mod, lib, Steps,
          Mods, Published, Offered, Own, MaxEdits, Sessions, Targets, MaxPicks, Jars, Extras,
          Users, Names, MaxGames, MaxLines, MaxLength, MaxActs, LineKeys, Window, KeepOpen, MaxLog, MaxFresh,
          Projects, Paths, Name, Needs, Initial

VARIABLES part, file, scan, gen, listed, cache, rows, wait, newest, later, serial, batches, load, dirty, rev,
          saving, saves, clears, stored, apply, seen, updates, failed, kept, crossed, orphans,
          onDisk, off, backup, manifest, job, acts, failures, owned, clashed, stale, byHand, complete, undone, unmet,
          files, managed, pack, target, theirs, patch, phase, todo, missed, added, edits,
          shown, slots, base, running, results, owed, picks,
          jars, extras, stage, projectOf, saidBy, excluded, unknown, report, zip,
          tabs, active, name, games, views, displaced, reborn, gone, acted, log, merger

L == INSTANCE ContentLookup WITH CurseForge <- FromCurseForge, MaxOps <- MaxUpdates, ops <- updates, faults <- failed

(* Nothing is neither an update nor a cache. *)
ASSUME NothingAssumption ==
    /\ Nothing \notin L!Updates
    /\ \A D \in SUBSET L!Keys : Nothing \notin [D -> L!Learnt]

lookupVars == <<file, scan, gen, listed, cache, rows, wait, newest, later, serial, batches, load, dirty, rev,
                saving, saves, clears, stored, apply, seen, updates, failed, kept, crossed, orphans>>

(* Two mods and the library both need; the library keeps its file name from  *)
(* version to version, the mods do not.                                      *)
MCProjects == {app, mod, lib}
MCPaths == {"app-1", "app-2", "mod-1", "mod-2", "lib"}
MCName == app :> <<"app-1", "app-2">> @@ mod :> <<"mod-1", "mod-2">> @@ lib :> <<"lib", "lib">>
MCNeeds == app :> <<{lib}, {mod, lib}>> @@ mod :> <<{}, {lib}>> @@ lib :> <<{}, {}>>
InitialEntry(v, explicit, deps) == [v |-> v, explicit |-> explicit, deps |-> deps]
MCInitial == app :> InitialEntry(1, TRUE, {lib}) @@ mod :> Nothing @@ lib :> InitialEntry(1, FALSE, {})

C == INSTANCE ContentInstall WITH Versions <- 1 .. 2, None <- Nothing, MaxOps <- Steps, file <- onDisk,
        disk <- manifest, ops <- acts, faults <- failures, raced <- clashed

modVars == <<onDisk, off, backup, manifest, job, acts, failures, owned, clashed, stale, byHand, complete,
             undone, unmet>>

(* What leaves the launcher: packs and patches, the dialogs that make them,   *)
(* and packages for servers.                                                  *)
E == INSTANCE Exports

T == INSTANCE Console WITH acts <- acted
MCLineKeys == <<"a", "b", "c">>

consoleVars == <<tabs, active, name, games, views, displaced, reborn, gone, acted>>
mergeVars == <<log, merger>>
exchangeVars == <<files, managed, pack, target, theirs, patch, phase, todo, missed, added, edits>>
exportVars == <<shown, slots, base, running, results, owed, picks>>
serverVars == <<jars, extras, stage, projectOf, saidBy, excluded, unknown, report, zip>>
leavingVars == <<exchangeVars, exportVars, serverVars, consoleVars, mergeVars>>

(* The variables of the parts a behaviour does not explore hold Nothing.       *)
MCInit ==
    /\ part \in {"browser", "lookup", "mods", "exchange", "exports", "server", "console", "merge"}
    /\ Init
    /\ IF part = "lookup" THEN L!Init
       ELSE file = Nothing /\ scan = Nothing /\ gen = Nothing /\ listed = Nothing /\ cache = Nothing /\
            rows = Nothing /\ wait = Nothing /\ newest = Nothing /\ later = Nothing /\ serial = Nothing
            /\ batches = Nothing /\ load = Nothing /\ dirty = Nothing /\ rev = Nothing /\ saving =
            Nothing /\ saves = Nothing /\ clears = Nothing /\ stored = Nothing /\ apply = Nothing /\
            seen = Nothing /\ updates = Nothing /\ failed = Nothing /\ kept = Nothing /\ crossed =
            Nothing /\ orphans = Nothing
    /\ IF part = "mods" THEN C!Init
       ELSE onDisk = Nothing /\ off = Nothing /\ backup = Nothing /\ manifest = Nothing /\ job = Nothing
            /\ acts = Nothing /\ failures = Nothing /\ owned = Nothing /\ clashed = Nothing /\ stale =
            Nothing /\ byHand = Nothing /\ complete = Nothing /\ undone = Nothing /\ unmet = Nothing
    /\ IF part = "exchange" THEN E!PackInit
       ELSE files = Nothing /\ managed = Nothing /\ pack = Nothing /\ target = Nothing /\ theirs =
            Nothing /\ patch = Nothing /\ phase = Nothing /\ todo = Nothing /\ missed = Nothing /\ added
            = Nothing /\ edits = Nothing
    /\ IF part = "exports" THEN E!DialogInit
       ELSE shown = Nothing /\ slots = Nothing /\ base = Nothing /\ running = Nothing /\ results =
            Nothing /\ owed = Nothing /\ picks = Nothing
    /\ IF part = "server" THEN E!ServerInit
       ELSE jars = Nothing /\ extras = Nothing /\ stage = Nothing /\ projectOf = Nothing /\ saidBy =
            Nothing /\ excluded = Nothing /\ unknown = Nothing /\ report = Nothing /\ zip = Nothing
    /\ IF part = "console" THEN T!Init
       ELSE tabs = Nothing /\ active = Nothing /\ name = Nothing /\ games = Nothing /\ views = Nothing /\
            displaced = Nothing /\ reborn = Nothing /\ gone = Nothing /\ acted = Nothing
    /\ IF part = "merge" THEN T!MergeInit ELSE log = Nothing /\ merger = Nothing
MCNext == \/ part = "browser" /\ Next /\ UNCHANGED <<lookupVars, modVars, leavingVars, part>>
          \/ part = "lookup" /\ L!Next /\ UNCHANGED <<vars, modVars, leavingVars, part>>
          \/ part = "mods" /\ C!Next /\ UNCHANGED <<vars, lookupVars, leavingVars, part>>
          \/ part = "exchange" /\ E!PackNext /\ UNCHANGED <<vars, lookupVars, modVars, exportVars, serverVars, consoleVars, mergeVars, part>>
          \/ part = "exports" /\ E!DialogNext /\ UNCHANGED <<vars, lookupVars, modVars, exchangeVars, serverVars, consoleVars, mergeVars, part>>
          \/ part = "server" /\ E!ServerNext /\ UNCHANGED <<vars, lookupVars, modVars, exchangeVars, exportVars, consoleVars, mergeVars, part>>
          \/ part = "console" /\ T!Next /\ UNCHANGED <<vars, lookupVars, modVars, exchangeVars, exportVars, serverVars, mergeVars, part>>
          \/ part = "merge" /\ T!MergeNext /\ UNCHANGED <<vars, lookupVars, modVars, exchangeVars, exportVars, serverVars, consoleVars, part>>
MCSpec == MCInit /\ [][MCNext]_<<vars, lookupVars, modVars, leavingVars, part>>

(* A behaviour in which two jobs worked on one instance at once ends there:    *)
(* nothing is claimed of the mods afterwards.                                  *)
Claimed == part = "mods" => ~clashed

(* What a search or an entry's page shows is what was asked for and found      *)
(* for it.                                                                     *)
ShownIsTrue == part = "browser" => SearchIsTrue /\ DetailIsTrue

(* A row of the instance screen names what is in its file, none waits for a    *)
(* lookup that does not run, and what is in the cache reaches its file.        *)
LookupsSettle == part = "lookup" => L!RowsAreTrue /\ L!NobodyWaitsInVain /\ L!CacheIsSaved

(* A job of the browser goes to the instance it was asked for, and what the    *)
(* browser says is installed or pending is so.                                 *)
InstallsAreRight == part = "browser" => InstallsGoHome /\ MarksAreCurrent

(* ContentInstall's properties: no mod is lost, the manifest says what is in   *)
(* the folder, and what a mod needs is there.                                  *)
NothingLost == part = "mods" => C!NothingLost
ManifestIsTrue == part = "mods" => C!ManifestIsTrue
RequiredIsThere == part = "mods" => C!RequiredIsThere

(* What is handed on is what there was: a patch makes another instance the     *)
(* same, every export ends with word of it, a server keeps its mods, and the   *)
(* console shows what the games wrote.                                         *)
PackagesAreRight == /\ part = "exchange" => E!ExchangeIsRight
                    /\ part = "exports" => E!EveryExportIsTold
                    /\ part = "server" => E!ServersKeepTheirMods
                    /\ part = "console" => T!ConsoleIsRight
                    /\ part = "merge" => T!MergedAsAWhole
=============================================================================
