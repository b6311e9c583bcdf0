------------------------------ MODULE Exports ------------------------------
(***************************************************************************)
(* Exports of an instance: their dialogs, the package for a server, and     *)
(* what becomes of a pack and of a patch.                                   *)
(*                                                                         *)
(* The dialogs: as a pack, as a patch against an older pack, or as a       *)
(* server.  Files are picked in dialogs of the desktop, which answer       *)
(* through slots all instances share (launcher_ui/file_dialog.rs), and one *)
(* worker per instance and kind writes the file.                           *)
(*                                                                         *)
(* The package for a dedicated server (launcher_ui/screens/instance.rs):   *)
(* the chosen folders without the mods that Modrinth marks as not running  *)
(* there, a start script and a report.  Modrinth is asked for the versions *)
(* of the jars that are not managed, then for the projects of all, and     *)
(* about the mods that come from CurseForge; it may fail to answer any of  *)
(* these.                                                                  *)
(***************************************************************************)
EXTENDS Naturals, FiniteSets, Sequences

CONSTANTS Sessions,  \* the instances with a screen
          Targets,   \* the files that can be picked
          Nothing,
          MaxPicks,  \* pickers opened altogether
          Jars,      \* files in mods/
          Extras     \* other files of the chosen folders

-------------------------------------------------------------------------------
(* The dialogs.                                                              *)
VARIABLES shown,     \* the export dialog on the screen: its instance and kind, or Nothing
          slots,     \* by slot: is its picker open, and its answer
          base,      \* by session: the pack a patch shall be against
          running,   \* by session and kind: the target of the export in flight, or Nothing
          results,   \* by session and kind: the outcomes not yet polled
          owed,      \* history: by session and kind, exports started and not yet told of
          picks

exportVars == <<shown, slots, base, running, results, owed, picks>>

Kinds == {"pack", "server"}
Slots == {"base", "patch-out", "pack-out"}
Jobs == Sessions \X Kinds
Closed == [open |-> FALSE, answer |-> Nothing]

DialogInit ==
    /\ shown = Nothing /\ slots = [s \in Slots |-> Closed]
    /\ base = [i \in Sessions |-> Nothing]
    /\ running = [j \in Jobs |-> Nothing] /\ results = [j \in Jobs |-> <<>>]
    /\ owed = [j \in Jobs |-> 0]
    /\ picks = 0

\* The instance's menu opens the dialog; one is on the screen at a time.
Show(j) ==
    /\ shown = Nothing /\ shown' = j
    /\ UNCHANGED <<slots, base, running, results, owed, picks>>

\* Opened(state, slot): FileDialogs::open does nothing while the slot's picker is open.
Opened(state, s) == IF state[s].open THEN state
                       ELSE [state EXCEPT ![s] = [open |-> TRUE, answer |-> Nothing]]

\* "Choose file": the pack's target, or the base of the patch.
Choose(s) ==
    /\ shown # Nothing /\ shown[2] = "pack" /\ running[shown] = Nothing
    /\ s \in {"base", "pack-out"} /\ ~slots[s].open /\ picks < MaxPicks /\ picks' = picks + 1
    /\ slots' = Opened(slots, s)
    /\ UNCHANGED <<shown, base, running, results, owed>>

\* The desktop's picker is answered, or cancelled.
Answer(s, t) ==
    /\ slots[s].open /\ slots[s].answer = Nothing
    /\ slots' = [slots EXCEPT ![s].answer = t]
    /\ UNCHANGED <<shown, base, running, results, owed, picks>>

\* FileDialogs::take.
Taken(s) == IF slots[s].answer \in Targets THEN slots[s].answer ELSE Nothing
AfterTake(s) == IF slots[s].answer # Nothing THEN Closed ELSE slots[s]

StartedTwice(j, t) ==
    IF t = Nothing THEN UNCHANGED <<running, owed>>
    ELSE /\ running' = [running EXCEPT ![j] = t]
         /\ owed' = [owed EXCEPT ![j] = @ + 1]

\* request_vtmpack_export, request_vtmpatch_export: nothing while one is in flight.
Started(j, t) ==
    IF t = Nothing \/ running[j] # Nothing THEN UNCHANGED <<running, owed>>
    ELSE /\ running' = [running EXCEPT ![j] = t]
         /\ owed' = [owed EXCEPT ![j] = @ + 1]

\* export_pack: a frame of the dialog takes what the pickers answered.  A base asks for the
\* patch's target; a target starts the patch, if there is a base, or the pack.
Frame ==
    /\ shown # Nothing /\ shown[2] = "pack" /\ \E s \in Slots : slots[s].answer # Nothing
    /\ LET i == shown[1]
           picked == IF Taken("base") # Nothing THEN [base EXCEPT ![i] = Taken("base")] ELSE base
           patch == IF picked[i] # Nothing THEN Taken("patch-out") ELSE Nothing
           taken == [s \in Slots |-> AfterTake(s)]
       IN /\ slots' = IF Taken("base") # Nothing THEN Opened(taken, "patch-out") ELSE taken
          /\ base' = IF patch # Nothing THEN [picked EXCEPT ![i] = Nothing] ELSE picked
          /\ Started(shown, IF patch # Nothing THEN patch ELSE Taken("pack-out"))
    /\ UNCHANGED <<shown, results, picks>>

\* request_server_export: default_server_export_output_path takes a name that is free.
StartServer(t) ==
    /\ shown # Nothing /\ shown[2] = "server" /\ running[shown] = Nothing
    /\ picks < MaxPicks /\ picks' = picks + 1
    /\ Started(shown, t)
    /\ UNCHANGED <<shown, slots, base, results>>

\* Cancel, or a click beside it: not while an export runs.
Cancel ==
    /\ shown # Nothing /\ running[shown] = Nothing
    /\ shown' = Nothing
    /\ UNCHANGED <<slots, base, running, results, owed, picks>>

\* Another dialog takes the place: of an import that ended, or of files the launcher was opened with.
Replace ==
    /\ shown # Nothing /\ shown' = Nothing
    /\ UNCHANGED <<slots, base, running, results, owed, picks>>

\* The worker ends, in one way or the other.
Work(j, outcome) ==
    /\ running[j] # Nothing /\ results[j] = <<>>
    /\ results' = [results EXCEPT ![j] = Append(@, [outcome |-> outcome, target |-> running[j]])]
    /\ UNCHANGED <<shown, slots, base, running, owed, picks>>

\* poll_vtmpack_export_results, poll_server_export_results: the dialog closes with the outcome.
Poll(j) ==
    /\ results[j] # <<>>
    /\ results' = [results EXCEPT ![j] = <<>>]
    /\ running' = [running EXCEPT ![j] = Nothing]
    /\ shown' = IF shown = j THEN Nothing ELSE shown
    /\ owed' = [owed EXCEPT ![j] = @ - Len(results[j])]
    /\ UNCHANGED <<slots, base, picks>>

DialogNext ==
    \/ \E j \in Jobs : Show(j) \/ Poll(j) \/ \E o \in {"ok", "failed"} : Work(j, o)
    \/ \E s \in Slots : Choose(s) \/ \E t \in Targets \cup {"none"} : Answer(s, t)
    \/ Frame \/ Cancel \/ Replace \/ \E t \in Targets : StartServer(t)

-------------------------------------------------------------------------------
(* The package for a server.                                                 *)
\* The scripts, the report and the licence every package gets; an extra may have such a name.
Added == {"start", "report", "eula"}

Environments == {"unknown", "client", "server", "both"}
OnlyBoth(env) == env \in {"both", "server"}
RunsOnServer(env) == env # "client"

(* kind: managed from Modrinth or from CurseForge, or neither, or a file that is *)
(* no jar.  version and project: what Modrinth says of their environment.  known: *)
(* does Modrinth know the file by its hash.                                      *)
JarKinds == [kind : {"modrinth", "curseforge", "dropped", "other"}, version : {"unknown", "client", "both"},
             project : {"unknown", "client", "both"}, known : BOOLEAN]

VARIABLES jars,      \* what each file in mods/ is
          extras,    \* the other chosen files, by name
          stage,
          projectOf, \* the jars whose project was found
          saidBy,    \* what the version found by its hash says of its environment
          excluded,  \* the mods left out
          unknown,   \* the CurseForge mods Modrinth does not have
          report,    \* does the report say that Modrinth could not be asked
          zip        \* the names written to the package

serverVars == <<jars, extras, stage, projectOf, saidBy, excluded, unknown, report, zip>>

ServerInit ==
    /\ jars = Nothing /\ extras = {} /\ stage = "asked"
    /\ projectOf = {} /\ saidBy = Nothing /\ excluded = {} /\ unknown = {}
    /\ report = FALSE /\ zip = {}

Pack(js, xs) ==
    /\ stage = "asked" /\ stage' = "hashes" /\ jars' = js /\ extras' = xs
    /\ \A j \in Jars : js[j].kind \in {"modrinth", "other"} => js[j].known
    /\ UNCHANGED <<projectOf, saidBy, excluded, unknown, report, zip>>

\* is_mod_jar; a manifest entry that has a Modrinth project spares the hash.
ModJars == {j \in Jars : jars[j].kind # "other"}
Named == {j \in ModJars : jars[j].kind = "modrinth"}
Unnamed == ModJars \ Named

\* find_client_only_mods: with no answer to either question no mod is left out.
AskVersions(answered) ==
    /\ stage = "hashes" /\ UNCHANGED <<jars, extras, excluded, unknown, zip>>
    /\ LET found == {j \in Unnamed : jars[j].known}
       IN IF answered \/ Unnamed = {}
          THEN /\ projectOf' = Named \cup found
               /\ saidBy' = [j \in Jars |-> IF j \in found THEN jars[j].version ELSE "unknown"]
               /\ stage' = "projects" /\ UNCHANGED report
          ELSE /\ report' = TRUE /\ stage' = "curseforge" /\ UNCHANGED <<projectOf, saidBy>>

ProjectFirst(j) == IF jars[j].project # "unknown" THEN jars[j].project ELSE saidBy[j]
Environment(j) == IF saidBy[j] # "unknown" THEN saidBy[j] ELSE jars[j].project

AskProjects(answered) ==
    /\ stage = "projects" /\ stage' = "curseforge"
    /\ IF answered \/ projectOf = {}
       THEN /\ excluded' = {j \in projectOf : ~RunsOnServer(Environment(j))}
            /\ UNCHANGED report
       ELSE report' = TRUE /\ UNCHANGED excluded
    /\ UNCHANGED <<jars, extras, projectOf, saidBy, unknown, zip>>

\* classify_curseforge_unknown_mods_for_server_export: a question that fails counts as a no.
AskCurseForge(answered) ==
    /\ stage = "curseforge" /\ stage' = "writing"
    /\ unknown' = {j \in Jars : jars[j].kind = "curseforge" /\ ~(answered /\ jars[j].known)}
    /\ UNCHANGED <<jars, extras, projectOf, saidBy, excluded, report, zip>>

\* The files first, then the launcher's own; a name that is there already ends the export.
Contents == (Jars \ excluded) \cup extras
WriteFiles ==
    /\ stage = "writing"
    /\ stage' = IF extras \cap Added = {} THEN "done" ELSE "failed"
    /\ zip' = IF extras \cap Added = {} THEN Contents \cup Added ELSE Contents
    /\ UNCHANGED <<jars, extras, projectOf, saidBy, excluded, unknown, report>>

ServerNext ==
    \/ \E js \in [Jars -> JarKinds], xs \in SUBSET (Extras \cup {"eula"}) : Pack(js, xs)
    \/ \E a \in BOOLEAN : AskVersions(a) \/ AskProjects(a) \/ AskCurseForge(a)
    \/ WriteFiles

-------------------------------------------------------------------------------
(* Properties.                                                               *)
\* Of every export that was started the user is told once, and a session's worker is one per kind,
\* however many pickers answer, dialogs close or take one another's place.
EveryExportIsTold ==
    \A j \in Jobs : owed[j] = (IF running[j] = Nothing THEN 0 ELSE 1)
\* A mod is left out only when Modrinth could be asked and marks it, in its version or its project,
\* for clients alone; what a version says of itself counts more than its project, so a mod found by
\* its hash that says it runs on servers is in the package, and one that says it does not is not.
\* The report tells when Modrinth could not be asked.
ServersKeepTheirMods ==
    stage = "done" =>
        /\ \A j \in Jars \ zip : /\ ~report
                                 /\ "client" \in {jars[j].version, jars[j].project}
                                 /\ jars[j].kind = "modrinth" \/ jars[j].version # "both"
        /\ \A j \in Unnamed : jars[j].known /\ jars[j].version = "client" /\ ~report => j \notin zip
        /\ extras \cup Added \cup {j \in Jars : jars[j].kind = "other"} \subseteq zip

-------------------------------------------------------------------------------
(***************************************************************************)
(* Vertex packs and patches (crate vtmpack).  An instance is exported as a *)
(* pack: what a provider offers is named, the rest is brought along.  The  *)
(* pack becomes an instance elsewhere.  Later the first instance is        *)
(* compared with its pack, and the patch made of the difference is applied *)
(* to the second, whose files may have changed too.                        *)
(*                                                                         *)
(* A mod's file has two places, "on" and, disabled, "off".  The instances  *)
(* have one configuration file as well.                                    *)
(***************************************************************************)
CONSTANTS Mods,       \* the mods there are
          Published,  \* the contents Modrinth has a version for
          Offered,    \* the contents only CurseForge has a file for
          Own,        \* the contents nobody offers
          MaxEdits    \* how often the files of the instances change

VARIABLES files,    \* the exported instance: what each path holds
          managed,  \* its manifest of managed content
          pack,     \* the pack exported first
          target,   \* the instance made of the pack
          theirs,   \* its manifest
          patch,    \* the patch, and the files it was exported from
          phase,    \* of the application of the patch
          todo,     \* the entries it has still to download
          missed,   \* those it could not
          added,    \* history: paths of the target its own user wrote
          edits

exchangeVars == <<files, managed, pack, target, theirs, patch, phase, todo, missed, added, edits>>

Places == Mods \X {"on", "off"}
Config == <<"config">>
Everywhere == Places \cup {Config}
Empty == [p \in Everywhere |-> Nothing]

\* What the manifest says of a file: where it lies, who offers it, which version, and its hash.
Entry(p, source, v, hash) == [path |-> p, source |-> source, version |-> v, hash |-> hash]

PackInit ==
    /\ files = Empty /\ managed = {} /\ pack = Nothing
    /\ target = Empty /\ theirs = {} /\ patch = Nothing
    /\ phase = "none" /\ todo = {} /\ missed = {} /\ added = {} /\ edits = 0

(***************************************************************************)
(* The instance in use: its own content browser, and its folder's user.    *)
(***************************************************************************)
Editing == phase \in {"none", "apart"} /\ edits < MaxEdits /\ edits' = edits + 1
InUse == UNCHANGED <<pack, target, theirs, patch, phase, todo, missed, added>>

\* A version is installed, or installed over the one there is.  Modrinth's hash may be unknown
\* in a manifest of old; CurseForge has none.
Install(m, v, hash) ==
    /\ Editing /\ hash \in {v, Nothing} /\ (v \in Offered => hash = Nothing)
    /\ LET old == {e \in managed : e.path[1] = m}
       IN /\ files' = [p \in Everywhere |-> IF p = <<m, "on">> THEN v
                                            ELSE IF \E e \in old : e.path = p THEN Nothing ELSE files[p]]
          /\ managed' = (managed \ old)
                \cup {Entry(<<m, "on">>, IF v \in Offered THEN "curseforge" ELSE "modrinth", v, hash)}
    /\ InUse

\* The folder's user writes or removes a file; the manifest does not know.
Write(p, c) ==
    /\ Editing /\ files[p] # c /\ (p = Config => c \in Own \cup {Nothing})
    /\ files' = [files EXCEPT ![p] = c] /\ UNCHANGED managed /\ InUse

\* A mod is disabled or enabled: its file is renamed.
Toggle(m) ==
    /\ Editing /\ files[<<m, "on">>] # files[<<m, "off">>]
    /\ files' = [files EXCEPT ![<<m, "on">>] = files[<<m, "off">>], ![<<m, "off">>] = files[<<m, "on">>]]
    /\ UNCHANGED managed /\ InUse

(***************************************************************************)
(* The export.                                                             *)
(***************************************************************************)
\* manifest_with_disabled_mod_paths: an entry follows a file that was disabled.
Relisted == {IF e.path[2] = "on" /\ files[e.path] = Nothing /\ files[<<e.path[1], "off">>] # Nothing
             THEN [e EXCEPT !.path = <<e.path[1], "off">>] ELSE e : e \in managed}

\* rediscover_modrinth_mods: what Modrinth knows by its hash and the manifest does not have
\* from there becomes an entry, unless Modrinth cannot be asked.
Rediscovered(listed, answered) ==
    LET known == {e.path : e \in {x \in listed : x.source = "modrinth"}}
        found == IF answered THEN {p \in Places : files[p] \in Published /\ p \notin known} ELSE {}
    IN {e \in listed : e.path \notin found} \cup {Entry(p, "modrinth", files[p], files[p]) : p \in found}

\* ExcludeCurseForge: what CurseForge offers is brought along.
Sanitized(listed, curse) == {e \in listed : curse \/ e.source # "curseforge"}

PathsOf(entries) == {e.path : e \in entries}
Held(chosen) == [p \in Everywhere |-> IF p \in chosen THEN files[p] ELSE Nothing]

\* export_instance_as_vtmpack: the entries to download, whether their files are there or not, and
\* the files of the chosen folders that are no entry's.
PackOf(o) ==
    LET listed == IF o.mods THEN Rediscovered(Relisted, o.answered) ELSE Relisted
        entries == Sanitized(listed, o.curse)
    IN [entries |-> entries,
        bundled |-> Held((IF o.mods THEN Places \ PathsOf(entries) ELSE {})
                         \cup (IF o.config THEN {Config} ELSE {}))]

Options == [mods : BOOLEAN, config : BOOLEAN, curse : BOOLEAN, answered : BOOLEAN, again : BOOLEAN]

\* import_vtmpack: the payload, then the downloads over it.
Imported(k) == [p \in Everywhere |-> IF \E e \in k.entries : e.path = p
                                     THEN (CHOOSE e \in k.entries : e.path = p).version
                                     ELSE k.bundled[p]]

ExportPack(o) ==
    /\ phase = "none" /\ ~o.again
    /\ pack' = PackOf(o)
    /\ target' = Imported(PackOf(o)) /\ theirs' = PackOf(o).entries
    /\ phase' = "apart"
    /\ UNCHANGED <<files, managed, patch, todo, missed, added, edits>>

\* The user of the other instance writes a file there.
WriteTarget(p, c) ==
    /\ phase = "apart" /\ edits < MaxEdits /\ edits' = edits + 1
    /\ target[p] # c /\ target' = [target EXCEPT ![p] = c] /\ added' = added \cup {p}
    /\ UNCHANGED <<files, managed, pack, theirs, patch, phase, todo, missed>>

(***************************************************************************)
(* The patch.                                                              *)
(***************************************************************************)
\* A snapshot: for each path the hash of its content, if it is known, and the entry it comes from.
Absent == [there |-> FALSE, hash |-> Nothing, entry |-> Nothing]
Brought(c) == [there |-> TRUE, hash |-> c, entry |-> Nothing]
From(e, hash) == [there |-> TRUE, hash |-> hash, entry |-> e]

EntryAt(entries, p) == CHOOSE e \in entries : e.path = p

\* read_base_snapshot: the payload of the pack, and its entries where it brings no file.
BaseSnapshot == [p \in Everywhere |->
    IF pack.bundled[p] # Nothing THEN Brought(pack.bundled[p])
    ELSE IF p \in PathsOf(pack.entries)
         THEN From(EntryAt(pack.entries, p), EntryAt(pack.entries, p).hash)
         ELSE Absent]

\* build_current_snapshot: mods are always in it; an entry counts only with its file.
CurrentEntries(o) == Sanitized(Rediscovered(Relisted, o.answered), o.curse)
CurrentSnapshot(o) == [p \in Everywhere |->
    IF files[p] = Nothing \/ (p = Config /\ ~o.config) THEN Absent
    ELSE IF p \in PathsOf(CurrentEntries(o)) THEN From(EntryAt(CurrentEntries(o), p), files[p])
    ELSE Brought(files[p])]

OneHashAgrees(was, now) == ~was.there \/ (was.hash # Nothing /\ was.hash # now.hash)

\* differs_from: two hashes decide, one alone differs.
Differs(was, now) ==
    \/ ~was.there
    \/ was.hash # now.hash

Changed(o) == {p \in Everywhere : CurrentSnapshot(o)[p].there
                                  /\ Differs(BaseSnapshot[p], CurrentSnapshot(o)[p])}
RemovedUnbundled(o) == {p \in Everywhere : pack.bundled[p] # Nothing /\ ~CurrentSnapshot(o)[p].there}
Removed(o) == {p \in Everywhere : BaseSnapshot[p].there /\ ~CurrentSnapshot(o)[p].there}

\* rediscover_changed_mods: Modrinth is asked once more for what is no entry.
Found(o) == {p \in Changed(o) \cap Places : CurrentSnapshot(o)[p].entry = Nothing
                                           /\ o.again /\ files[p] \in Published}
Downloads(o) == {CurrentSnapshot(o)[p].entry : p \in {q \in Changed(o) \cap Places :
                                                        CurrentSnapshot(o)[q].entry # Nothing}}
                \cup {Entry(p, "modrinth", files[p], files[p]) : p \in Found(o)}
\* downloadable_needs_bundle_fallback.
NeedsFallback(e) == e.source = "modrinth" /\ e.hash = Nothing

\* What the patch brings along: changed files, those whose download may fail, and every mod that
\* nobody offers, changed or not.
Embedded(o) ==
    LET local == {p \in Places : CurrentSnapshot(o)[p].there /\ CurrentSnapshot(o)[p].entry = Nothing}
    IN (Changed(o) \cap {Config})
       \cup {e.path : e \in {d \in Downloads(o) : NeedsFallback(d)}}
       \cup (local \ PathsOf(Downloads(o)))

ExportPatch(o) ==
    /\ phase = "apart"
    /\ patch' = [downloads |-> Downloads(o), bundled |-> Held(Embedded(o)),
                 manifest |-> CurrentEntries(o), config |-> o.config,
                 removed |-> Removed(o), from |-> files, listed |-> Relisted]
    /\ phase' = "remove" /\ UNCHANGED <<files, managed, pack, target, theirs, todo, missed, added, edits>>

(***************************************************************************)
(* apply_vtmpatch_to_instance.                                             *)
(***************************************************************************)
Remove ==
    /\ phase = "remove" /\ phase' = "bundle"
    /\ target' = [p \in Everywhere |-> IF p \in patch.removed THEN Nothing ELSE target[p]]
    /\ UNCHANGED <<files, managed, pack, theirs, patch, todo, missed, added, edits>>

\* The manifest lies among the files; one that became empty is among the removed.
Bundle ==
    /\ phase = "bundle" /\ phase' = "download"
    /\ target' = [p \in Everywhere |-> IF patch.bundled[p] # Nothing THEN patch.bundled[p] ELSE target[p]]
    /\ theirs' = patch.manifest
    /\ todo' = patch.downloads
    /\ UNCHANGED <<files, managed, pack, patch, missed, added, edits>>

\* download_downloadable_entry: a failed one counts unless the patch brought the file.
Download(e, works) ==
    /\ phase \in {"download", "gaps"} /\ e \in todo
    /\ todo' = todo \ {e}
    /\ target' = IF works THEN [target EXCEPT ![e.path] = e.version] ELSE target
    /\ missed' = IF works \/ (phase = "download" /\ patch.bundled[e.path] # Nothing)
                 THEN missed ELSE missed \cup {e}
    /\ UNCHANGED <<files, managed, pack, theirs, patch, phase, added, edits>>

\* What the manifest has from Modrinth and the folder does not hold is downloaded too.
Gaps == {e \in theirs : e.source = "modrinth" /\ target[e.path] = Nothing}
FillGaps ==
    /\ phase = "download" /\ todo = {}
    /\ phase' = "gaps" /\ todo' = Gaps
    /\ UNCHANGED <<files, managed, pack, target, theirs, patch, missed, added, edits>>

Finish ==
    /\ phase = "gaps" /\ todo = {}
    /\ phase' = IF missed = {} THEN "applied" ELSE "failed"
    /\ UNCHANGED <<files, managed, pack, target, theirs, patch, todo, missed, added, edits>>

\* A failed application, or one the launcher did not outlive, is started over.
Retry ==
    /\ phase \in {"bundle", "download", "gaps", "failed"}
    /\ phase' = "remove" /\ todo' = {} /\ missed' = {}
    /\ UNCHANGED <<files, managed, pack, target, theirs, patch, added, edits>>

PackNext ==
    \/ \E m \in Mods : Toggle(m) \/ \E v \in Published \cup Offered : \E h \in {v, Nothing} : Install(m, v, h)
    \/ \E p \in Everywhere, c \in Published \cup Own \cup {Nothing} : Write(p, c)
    \/ \E p \in Everywhere, c \in Own : WriteTarget(p, c)
    \/ \E o \in Options : ExportPack(o) \/ ExportPatch(o)
    \/ Remove \/ Bundle \/ FillGaps \/ Finish \/ Retry
    \/ \E e \in todo, w \in BOOLEAN : Download(e, w)

(***************************************************************************)
(* Properties.                                                             *)
(***************************************************************************)
\* The manifest and the file disagree: the version of the manifest is what others get.
Misnamed(p) == \E e \in patch.listed : e.path = p /\ e.version # patch.from[p]

\* An applied patch, whatever failed before, makes the other instance what the first was when
\* the patch was made: the mods and, if it was chosen, the configuration.
PatchedIsTheSource ==
    phase = "applied" => \A p \in Places \cup (IF patch.config THEN {Config} ELSE {}) :
        \/ target[p] = patch.from[p]
        \/ Misnamed(p)
        \/ p \in added

\* What the user of the other instance added, and neither pack nor patch has, is still there.
AdditionsStay ==
    phase = "applied" => \A p \in added : patch.from[p] = Nothing /\ ~BaseSnapshot[p].there
                                          => target[p] # Nothing

\* After an applied patch the manifest names no mod of Modrinth's that is not there.
NothingIsMissing == phase = "applied" => Gaps = {}

ExchangeIsRight == PatchedIsTheSource /\ AdditionsStay /\ NothingIsMissing
=============================================================================
