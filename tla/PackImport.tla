------------------------------- MODULE PackImport -------------------------------
(***************************************************************************)
(* What an import does on its worker (import_instance_modal/).             *)
(*                                                                         *)
(* A Vertex pack, a Modrinth pack, a CurseForge pack or the folder of      *)
(* another launcher becomes a new instance: its files, the manifest of     *)
(* managed content and, for a pack that can be updated, the state of the   *)
(* pack.  Every step may fail; the instance is then deleted again.  For    *)
(* Discover (app/discover_flow.rs) the pack is downloaded before and the   *)
(* instance gets the project's name and picture after.                     *)
(*                                                                         *)
(* A pack has one entry per file to download and may bring another file    *)
(* for the same place in its overrides (its payload, if a Vertex pack).    *)
(*                                                                         *)
(* Before that, the folder of another launcher is inspected (inspection.rs):*)
(* which launcher it belongs to, the game and loader it runs, which of its  *)
(* files are managed content, and which files are copied.  A version of a   *)
(* loader is represented by the loader it is a version of.                  *)
(***************************************************************************)
EXTENDS Naturals, Sequences

CONSTANT Entries   \* the entries of a pack's manifest

VARIABLES
    pack,     \* the pack: its kind and what it says of its entries
    stage,    \* how far the import is
    todo,     \* entries the present stage has still to handle
    staged,   \* CurseForge: files downloaded before there is an instance
    root,     \* the instance's files: by entry, nothing, the override or the pack's own
    listed,   \* the manifest of managed content: the entries it names
    folder,   \* the instance's folder exists
    recorded, \* the instance is in the store the import works on
    spared    \* history: what kept a folder although the import failed

packVars == <<pack, stage, todo, staged, root, listed, folder, recorded, spared>>

Kinds == {"vtmpack", "mrpack", "curseforge", "launcher"}
Ended == {"done", "failed", "manual"}

(* skipped: unsupported by clients, not required, or without a path.  content: *)
(* lies in a folder of managed content (CurseForge: is a mod).  known: Modrinth *)
(* knows the file.  blocked: no place to download it from.  given: the user    *)
(* has downloaded it.  bundled: the overrides have a file for its place.       *)
(* namesake: no mod, but the overrides have a file of its name in mods/.       *)
(* named: the inspection of the folder names it (Manifest below).              *)
Traits == [vtmpack |-> {"skipped", "content", "bundled"},
           mrpack |-> {"skipped", "content", "known", "bundled"},
           curseforge |-> {"skipped", "content", "blocked", "given", "bundled", "namesake"},
           launcher |-> {"skipped", "named"}]
Packs == UNION {[kind : {k}, discover : IF k = "launcher" THEN {FALSE} ELSE BOOLEAN,
                 traits : [Entries -> SUBSET Traits[k]]] : k \in Kinds}

Has(t) == {e \in Entries : t \in pack.traits[e]}
\* Neither CurseForge offers the file, nor is a file of its hash, or of its name and game, found
\* at Modrinth.
Blocked == Has("blocked")

Wanted == Entries \ Has("skipped")

Init ==
    /\ pack = [kind |-> "launcher", discover |-> FALSE, traits |-> [e \in Entries |-> {}]]
    /\ stage = "asked" /\ todo = {} /\ staged = {} /\ listed = {}
    /\ root = [e \in Entries |-> "none"]
    /\ folder = FALSE /\ recorded = FALSE /\ spared = {}

\* import_package_with_progress inspects the file and goes by its kind; a file that is not
\* what its extension says fails there.  A folder is inspected too.
Begin ==
    /\ stage = "asked"
    /\ pack' \in Packs
    /\ stage' \in {"read", "failed"}
    /\ UNCHANGED <<todo, staged, root, listed, folder, recorded, spared>>

-----------------------------------------------------------------------------
(* CurseForge: everything is downloaded first.                              *)

\* predownload_curseforge_pack_files: of what the user has not brought, the plans are
\* downloaded by several workers; what cannot be had is left to the user.
Resolve ==
    /\ stage = "read" /\ pack.kind = "curseforge"
    /\ \/ /\ stage' = "fetch" /\ staged' = Has("given") /\ todo' = Wanted \ Has("given")
       \/ stage' = "failed" /\ UNCHANGED <<staged, todo>>
    /\ UNCHANGED <<pack, root, listed, folder, recorded, spared>>

\* download_curseforge_plans_concurrently: one of the workers ends a download.
Fetch(e) ==
    /\ stage = "fetch" /\ e \in todo
    /\ todo' = todo \ {e}
    /\ staged' \in {staged} \cup (IF e \in Blocked THEN {} ELSE {staged \cup {e}})
    /\ UNCHANGED <<pack, stage, root, listed, folder, recorded, spared>>

Fetched == stage' = IF Wanted \subseteq staged THEN "create" ELSE "manual"

EndFetch ==
    /\ stage = "fetch" /\ todo = {}
    /\ Fetched
    /\ UNCHANGED <<pack, todo, staged, root, listed, folder, recorded, spared>>

-----------------------------------------------------------------------------
(* The instance and its files.                                              *)

\* create_instance: the folder, the folder for mods in it, the record.
Create ==
    /\ stage = "create" \/ (stage = "read" /\ pack.kind # "curseforge")
    /\ \/ stage' = "restore" /\ folder' = TRUE /\ recorded' = TRUE /\ spared' = spared
       \/ \* the name is empty or nothing can be made
          stage' = "failed" /\ UNCHANGED <<folder, recorded, spared>>
       \/ \* the folder for mods cannot be made
          stage' = "failed" /\ folder' = TRUE /\ spared' = spared \cup {"half made"} /\ UNCHANGED recorded
    /\ todo' = IF pack.kind = "launcher" THEN {} ELSE Has("bundled")
    /\ UNCHANGED <<pack, staged, root, listed>>

\* Mutant of Undo: a failed import is left where it is.
UndoNothing == stage' = "failed" /\ UNCHANGED <<folder, recorded, spared>>

\* delete_instance, whose own failure is ignored.
Undo ==
    /\ stage' = "failed"
    /\ \/ folder' = FALSE /\ recorded' = FALSE /\ UNCHANGED spared
       \/ spared' = spared \cup {"not deleted"} /\ UNCHANGED <<folder, recorded>>

Fails == Undo /\ UNCHANGED <<pack, todo, staged, root, listed>>

Restore(e) ==
    /\ stage = "restore" /\ e \in todo
    /\ \/ /\ root' = [root EXCEPT ![e] = "override"]
          /\ todo' = todo \ {e}
          /\ UNCHANGED <<pack, stage, staged, listed, folder, recorded, spared>>
       \/ Fails

\* extract_vtmpack_payload: bundled mods and configurations, in the order of the archive.
RestorePayload(e) == pack.kind = "vtmpack" /\ Restore(e)

\* extract_mrpack_overrides, the client's after and instead of the common ones where the
\* archive has them in this order.
RestoreOverrides(e) == pack.kind = "mrpack" /\ Restore(e)

\* extract_curseforge_overrides, from the folder the pack names.
RestoreCurseForge(e) == pack.kind = "curseforge" /\ Restore(e)

\* populate_*_instance goes on to the files.
RestoreEnds ==
    /\ stage = "restore" /\ todo = {}
    /\ \/ /\ stage' = "files" /\ todo' = Wanted
          /\ UNCHANGED <<pack, staged, root, listed, folder, recorded, spared>>
       \/ Fails

\* Mutant of Put: what is there already is kept.
PutMissing(e) == root' = [root EXCEPT ![e] = IF @ = "none" THEN "pack" ELSE @]

\* A download replaces what the overrides brought.
Put(e) == root' = [root EXCEPT ![e] = "pack"]

PlaceFile(e) ==
    /\ stage = "files" /\ e \in todo
    /\ \/ /\ Put(e) /\ todo' = todo \ {e}
          /\ UNCHANGED <<pack, stage, staged, listed, folder, recorded, spared>>
       \/ Fails

\* download_vtmpack_entry: the version the pack names, or the file its hash names, from either
\* provider; checked against the hash after it was written.
PlaceVertex(e) == pack.kind = "vtmpack" /\ PlaceFile(e)

\* populate_mrpack_instance: from the first place the pack names, unchecked.
PlaceModrinth(e) == pack.kind = "mrpack" /\ PlaceFile(e)

\* populate_curseforge_pack_instance: what is staged is copied.
PlaceCurseForge(e) == pack.kind = "curseforge" /\ e \in staged /\ PlaceFile(e)

\* copy_dir_recursive: all but the other launcher's own files and caches.
PlaceCopied(e) == pack.kind = "launcher" /\ PlaceFile(e)

-----------------------------------------------------------------------------
(* What the launcher notes about the instance.                              *)

\* build_mrpack_base_manifest lists what is there, is content and is known to Modrinth.
ManagedModrinth == {e \in Wanted : root[e] # "none"} \cap Has("content") \cap Has("known")

\* build_curseforge_base_manifest_from_resolved names every file as mods/<its name>, wherever it
\* was put: its own if it is a mod, else what the overrides have there.
InMods(e) == IF e \in Has("content") THEN root[e] ELSE IF e \in Has("namesake") THEN "override" ELSE "none"

\* Mutant of ManagedCurseForge: what names no file is not dropped.
ManagedUnchecked == Wanted

\* save_content_manifest then drops what names no file (normalize_content_manifest).
ManagedCurseForge == {e \in Wanted : InMods(e) # "none"}

\* A Vertex pack brings its manifest; for a launcher's folder it is the inspection's.
Managed ==
    CASE pack.kind = "mrpack" -> ManagedModrinth
      [] pack.kind = "curseforge" -> ManagedCurseForge
      [] pack.kind = "vtmpack" -> Wanted
      [] OTHER -> Has("named")

\* save_content_manifest and save_modpack_install_state; a Vertex pack's instance follows no
\* pack, which is noted last.
Note ==
    /\ stage = "files" /\ todo = {}
    /\ \/ /\ listed' = Managed
          /\ stage' = IF pack.discover THEN "finish" ELSE "done"
          /\ UNCHANGED <<pack, todo, staged, root, folder, recorded, spared>>
       \/ Fails

\* attach_curseforge_modpack_install_state and finalize_discover_instance: the instance is
\* given its name and picture and the store is saved.  What fails here keeps the folder.
FinishDiscover ==
    /\ stage = "finish"
    /\ \/ stage' = "done" /\ UNCHANGED spared
       \/ stage' = "failed" /\ spared' = spared \cup {"not finished"}
    /\ UNCHANGED <<pack, todo, staged, root, listed, folder, recorded>>

Next ==
    \/ Begin \/ Resolve \/ EndFetch \/ Create \/ RestoreEnds \/ Note \/ FinishDiscover
    \/ \E e \in Entries : \/ Fetch(e)
                        \/ RestorePayload(e) \/ RestoreOverrides(e) \/ RestoreCurseForge(e)
                        \/ PlaceVertex(e) \/ PlaceModrinth(e) \/ PlaceCurseForge(e) \/ PlaceCopied(e)

-----------------------------------------------------------------------------
(* The folder of another launcher.                                          *)

VARIABLES source,  \* the folder and the launcher the user says it is of
          found    \* what the inspection says of it

sourceVars == <<source, found>>

None == "none"
Loaders == {"Fabric", "Forge"}   \* NeoForge and Quilt are handled as these two are
Launchers == {"Modrinth", "CurseForge", "Prism", "ATLauncher", "Unknown"}
Marks == {"manifest", "profile.json", "located", "minecraftinstance.json", "instance.cfg", "mmc-pack.json", "instance.json"}

(* says: the metadata file's own fields: the loader, with a version after a *)
(* dash or not, and a version of its own.  components: Prism's list.        *)
(* names, requires, cache: what a Modrinth profile without metadata shows:  *)
(* its mods' names, Fabric's requirements, the app's cached versions.       *)
(* files: where the metadata's projects have their files.  own: where the   *)
(* projects are that a manifest of this launcher lists, if it can be read   *)
(* (an exported instance brings it; Prism's in its .minecraft).  broken:    *)
(* the metadata is no JSON.                                                 *)
Silent == [loader |-> None, trailing |-> FALSE, version |-> None]
Plain == [marks |-> {}, hint |-> None, says |-> Silent, components |-> <<>>, names |-> {}, requires |-> FALSE,
          cache |-> <<>>, files |-> {}, own |-> {}, broken |-> FALSE]
Places == {"mods", "downloads", "gone"}
Sayings == [loader : Loaders \cup {None}, trailing : BOOLEAN, version : {None, "given"}]
Versions == {<<>>} \cup {<<l>> : l \in Loaders} \cup (Loaders \X Loaders)

Hints == Launchers \cup {None}
Folders(m, h, s, c, n, r, k, f, o, b) ==
    [marks : m, hint : h, says : s, components : c, names : n, requires : r, cache : k, files : f, own : o, broken : b]

Marked == Folders(SUBSET Marks, Hints, {Silent}, {<<>>}, {{}}, {FALSE}, {<<>>}, SUBSET Places, {{}}, {FALSE})
Owned == Folders({{"manifest"}} \cup {{"manifest", k} : k \in Marks}, Hints, {Silent}, {<<>>}, {{}}, {FALSE}, {<<>>},
                 SUBSET Places, SUBSET Places, {FALSE})
Broken == Folders(SUBSET Marks, Hints, {Silent}, {<<>>}, {{}}, {FALSE}, {<<>>}, {{}}, {{}}, {TRUE})
Saying == Folders({{"profile.json"}, {"minecraftinstance.json"}, {"instance.json"}}, {None}, Sayings, {<<>>}, {{}},
                  {FALSE}, {<<>>}, {{}}, {{}}, {FALSE})
Listing == Folders({{"mmc-pack.json"}}, {None}, {Silent}, Versions, {{}}, {FALSE}, {<<>>}, {{}}, {{}}, {FALSE})
Guessed == Folders({{"located"}}, {None}, {Silent}, {<<>>}, SUBSET Loaders, BOOLEAN, Versions, {{}}, {{}}, {FALSE})
Installations == Marked \cup Owned \cup Broken \cup Saying \cup Listing \cup Guessed

Unread == [state |-> "unread"]

FolderInit == source = Plain /\ found = Unread

-----------------------------------------------------------------------------

\* Mutant of Detected: what no mark tells is taken for CurseForge's.
DetectedAlways(f) == IF "manifest" \in f.marks THEN "Unknown" ELSE "CurseForge"

\* The first mark that fits decides; the launcher's own manifest makes it a plain folder.
Detected(f) ==
    IF "manifest" \in f.marks THEN "Unknown"
    ELSE IF f.marks \cap {"profile.json", "located"} # {} THEN "Modrinth"
    ELSE IF "minecraftinstance.json" \in f.marks THEN "CurseForge"
    ELSE IF f.marks \cap {"instance.cfg", "mmc-pack.json"} # {} THEN "Prism"
    ELSE IF "instance.json" \in f.marks THEN "ATLauncher"
    ELSE "Unknown"

Launcher(f) == IF f.hint # None THEN f.hint ELSE Detected(f)

\* What metadata that does not say gives.
Vanilla == [loader |-> "Vanilla", version |-> None]

\* infer_loader_pair: the explicit version, else what follows the dash of the loader's name.
Pair(says) ==
    IF says.loader = None THEN [loader |-> "Vanilla", version |-> says.version]
    ELSE [loader |-> says.loader,
          version |-> IF says.version # None THEN says.version ELSE IF says.trailing THEN says.loader ELSE None]

\* Mutant of Component: the version is set apart from the loader.
ComponentFirst(pair, c) == [loader |-> c, version |-> IF pair.version = None THEN c ELSE pair.version]

\* parse_prism_versions: a component of a loader sets both.
Component(pair, c) == [loader |-> c, version |-> c]

\* infer_modrinth_loader_from_profile: Fabric's requirements, else the first mod named after
\* a loader, which says nothing of the version.
FromProfile(f) ==
    IF f.requires THEN {[loader |-> "Fabric", version |-> "Fabric"]}
    ELSE IF f.names # {} THEN {[loader |-> l, version |-> None] : l \in f.names}
    ELSE {Vanilla}

\* refine_modrinth_metadata_from_meta_cache: what is missing is filled in from the versions
\* the app has cached, each for itself, so the version may be another loader's.
Refined(pair, c) == [loader |-> IF pair.loader = "Vanilla" THEN c ELSE pair.loader,
                     version |-> IF pair.version = None THEN c ELSE pair.version]

\* Versions are read one after the other; the folders above have two at most.
AfterAll(Step(_, _), first, versions) ==
    CASE Len(versions) = 0 -> first
      [] Len(versions) = 1 -> Step(first, versions[1])
      [] OTHER -> Step(Step(first, versions[1]), versions[2])

\* What the folder runs, as each launcher's inspection reads it.
Runs(f) ==
    CASE Launcher(f) = "Prism" -> {AfterAll(Component, Vanilla, f.components)}
      [] Launcher(f) = "Modrinth" /\ "profile.json" \notin f.marks -> {AfterAll(Refined, p, f.cache) : p \in FromProfile(f)}
      [] Launcher(f) = "Unknown" -> {Vanilla}
      [] OTHER -> {Pair(f.says)}

\* Mutant of ResolvedFiles: a project's file need not be there.
AnyFiles(f) == f.files

\* resolve_existing_relative_file_path: only files that are there, under the path the
\* metadata says or in a folder of content.
ResolvedFiles(f) == f.files \ {"gone"}

\* The JSON each launcher's inspection reads.
Metadata == [Modrinth |-> "profile.json", CurseForge |-> "minecraftinstance.json", Prism |-> "mmc-pack.json",
             ATLauncher |-> "instance.json"]
HasMetadata(f) == Launcher(f) # "Unknown" /\ Metadata[Launcher(f)] \in f.marks

\* The managed content: what a manifest of this launcher lists, there or not, if it lists any,
\* else the projects the metadata names.  Prism's and a plain folder's name none.
Manifest(f) ==
    IF f.own # {} THEN f.own
    ELSE IF HasMetadata(f) /\ Launcher(f) # "Prism" THEN ResolvedFiles(f) ELSE {}

\* Mutant of Refused: metadata that cannot be read is refused whoever it is of.
RefusedAny(f) == f.broken \/ (Launcher(f) = "CurseForge" /\ "minecraftinstance.json" \notin f.marks)

\* Only CurseForge's metadata is required; the other launchers make do without, unless it is
\* there and cannot be read.
Refused(f) ==
    \/ Launcher(f) = "CurseForge" /\ ~HasMetadata(f)
    \/ HasMetadata(f) /\ f.broken

\* copy_dir_recursive skips caches and what the other launcher keeps there, in any folder.
Copied(f) == (f.files \cup f.own) \cap {"mods"}

\* inspect_launcher_details, and what import_launcher_instance then takes over.
Inspect ==
    /\ found = Unread
    /\ source' \in Installations
    /\ IF Refused(source') THEN found' = [state |-> "failed"]
       ELSE \E p \in Runs(source') :
              found' = [state |-> "read", pair |-> p, listed |-> Manifest(source'), files |-> Copied(source')]

-----------------------------------------------------------------------------
(* Properties.                                                              *)

\* The file an entry of the manifest names.
Names(e) == IF pack.kind = "curseforge" THEN InMods(e) ELSE root[e]

(* An import that ends well has made the pack's instance: every file the    *)
(* pack asks for is there, in the pack's version although the overrides     *)
(* have another, and the manifest of a pack names what the pack asks for    *)
(* and files that exist: those of the pack, unless CurseForge's is no mod   *)
(* and the overrides have another of its name.                              *)
ImportIsWhole ==
    stage = "done" =>
        /\ folder /\ recorded
        /\ \A e \in Wanted : root[e] = "pack"
        /\ pack.kind \in Kinds \ {"launcher"} =>
              /\ listed \subseteq Wanted
              /\ \A e \in listed : Names(e) # "none" /\ (Names(e) = "pack" \/ "namesake" \in pack.traits[e])

(* An import that does not end well leaves nothing behind, neither a folder *)
(* nor a record, unless deleting failed too, or finishing what Discover     *)
(* asked for did; one that needs the user has not begun an instance.        *)
NothingIsLeft ==
    /\ stage = "failed" /\ spared = {} => ~folder /\ ~recorded
    /\ stage = "manual" => ~folder

PackIsImported == ImportIsWhole /\ NothingIsLeft
Read == found.state = "read"

(* A folder no one vouched for is refused only if its metadata is broken,   *)
(* never if it brings this launcher's own manifest: whatever it was         *)
(* recognised by is there to be read.                                       *)
DetectedIsReadable ==
    source.hint = None /\ found.state = "failed" => source.broken /\ "manifest" \notin source.marks

(* The version belongs to the loader, unless names of mods said the loader  *)
(* and the app's cache the version (which may be another's).                *)
VersionFits ==
    Read /\ found.pair.version \in Loaders =>
        \/ found.pair.version = found.pair.loader
        \/ source.names # {} /\ ~source.requires

(* Every managed file has been copied, except from downloads/ and the other *)
(* folders that are skipped, and except what an own manifest, taken on      *)
(* trust, lists without its being there.                                    *)
ListedIsCopied == Read => found.listed \ ({"downloads"} \cup (source.own \cap {"gone"})) \subseteq found.files

FolderIsUnderstood == DetectedIsReadable /\ VersionFits /\ ListedIsCopied
=============================================================================
