--------------------------- MODULE InstanceSettings ---------------------------
(***************************************************************************)
(* The settings dialog of an instance: the form a session keeps of the     *)
(* record, the catalogs of game and loader versions that workers fetch for *)
(* it, the versions detected from what is installed, and the overrides     *)
(* that save themselves.                                                   *)
(*                                                                         *)
(* The form is filled from the record once, when the session begins, and   *)
(* each answer of a worker corrects it: what Save writes is what was in    *)
(* the form, not what the user changed.                                    *)
(***************************************************************************)
EXTENDS Naturals, Sequences, SequencesExt, FiniteSets

CONSTANTS Nothing, MaxClicks, MaxFaults

VARIABLES record,      \* the instance in the store: version, loader, lver, opts
          form,        \* the same, as the session's inputs
          listed,      \* the catalog: its filter, game versions, the loader's index, an error
          catalog,     \* the filter of the fetch in flight, or Nothing
          filter,      \* what the settings ask for
          cache,       \* loader versions by game version, where fetched
          fetching,    \* how many fetches of loader versions run for each game version
          dialog,      \* "closed", "open" or "away", in a dialog opened from it
          marked,      \* the fingerprint that counts as saved
          dirty,       \* the fingerprint that waits to be saved
          javas,       \* is a global Java path configured
          settings_ops, settings_faults,
          picked,      \* the versions the user, a detection or a pack chose
          paired,      \* the pairs of versions that were installed
          excusedForm  \* why the record may differ from what was chosen
vars == <<record, form, listed, catalog, filter, cache, fetching, dialog, marked, dirty, javas,
          settings_ops, settings_faults, picked, paired, excusedForm>>

catalogVars == <<listed, catalog, filter>>
loaderVars == <<cache, fetching>>
saveVars == <<marked, dirty>>
history == <<picked, paired, excusedForm>>

Filters == {"stable", "all"}
Opts == {"plain", "tuned", "java"}
(* What the servers offer: external.                                        *)
Games(f) == IF f = "all" THEN <<"snapshot", "new", "old">> ELSE <<"new", "old">>
Offered == [g \in {"snapshot", "new", "old"} |->
              CASE g = "new" -> <<"n2", "n1">> [] g = "old" -> <<"o1">> [] g = "snapshot" -> <<>>]
Indexed == {"new"}

Click == settings_ops < MaxClicks /\ settings_ops' = settings_ops + 1
Fault == settings_faults < MaxFaults /\ settings_faults' = settings_faults + 1

(***************************************************************************)
(* The inputs.                                                             *)
(***************************************************************************)
(* InstanceScreenState::from_instance                                       *)
FromRecord == [version |-> record.version, index |-> 1, loader |-> record.loader,
               lver |-> record.lver, opts |-> record.opts]
Init ==
  /\ \E v \in {"new", "old"}, l \in {"Vanilla", "Fabric"} :
       record = [version |-> v, loader |-> l, opts |-> "plain",
                 lver |-> IF l = "Vanilla" THEN "" ELSE IF v = "new" THEN "n1" ELSE "o1"]
  /\ form = FromRecord
  /\ listed = [filter |-> Nothing, games |-> <<>>, error |-> FALSE]
  /\ catalog = Nothing /\ filter = "all"
  /\ cache = <<>> /\ fetching = [g \in DOMAIN Offered |-> 0]
  /\ dialog = "closed" /\ marked = Nothing /\ dirty = Nothing /\ javas \in BOOLEAN
  /\ settings_ops = 0 /\ settings_faults = 0
  /\ picked = {record.version} /\ paired = {<<record.version, record.lver>>} /\ excusedForm = {}

Selected == IF form.index \in DOMAIN listed.games THEN listed.games[form.index] ELSE form.version
IndexOf(game) == IF listed.games # <<>> /\ game \in Indexed THEN Offered[game] ELSE <<>>
Supported(game) == game \in DOMAIN Offered /\ Offered[game] # <<>>

(* Mutant of CacheKey: the loader's versions are the same for every game.   *)
AnyGame(game) == IF cache = <<>> THEN game ELSE CHOOSE g \in DOMAIN cache : TRUE
(* modloader_versions_cache_key                                             *)
CacheKey(game) == game

Cached(game) == IF CacheKey(game) \in DOMAIN cache THEN cache[CacheKey(game)] ELSE <<>>
LoaderChoices(game) == IF IndexOf(game) # <<>> THEN IndexOf(game) ELSE Cached(game)

(* version_controls, which each frame of the dialog begins with             *)
Corrected ==
  CASE form.loader = "Vanilla" -> [form EXCEPT !.lver = ""]
    [] form.loader = "Fabric" /\ form.lver = "" /\ LoaderChoices(Selected) # <<>> -> [form EXCEPT !.lver = Head(LoaderChoices(Selected))]
    [] OTHER -> form
Asks == /\ dialog = "open" /\ form.loader = "Fabric" /\ IndexOf(Selected) = <<>>
        /\ Selected # "" /\ CacheKey(Selected) \notin DOMAIN cache /\ fetching[Selected] = 0
Asked == IF Asks THEN [fetching EXCEPT ![Selected] = 1] ELSE fetching
Look == dialog = "open" /\ (Corrected # form \/ Asks)
        /\ form' = Corrected /\ fetching' = Asked
        /\ UNCHANGED <<record, catalogVars, cache, dialog, saveVars, javas, settings_ops, settings_faults, history>>

(***************************************************************************)
(* The catalogs.                                                           *)
(***************************************************************************)
(* sync_version_catalog                                                     *)
Stale(forced) == \/ forced \/ listed.filter # filter \/ (listed.games = <<>> /\ ~listed.error)
StartCatalog(forced) ==
  IF catalog = Nothing /\ Stale(forced)
  THEN catalog' = filter /\ listed' = [listed EXCEPT !.error = FALSE, !.filter = filter]
  ELSE UNCHANGED <<catalog, listed>>
SyncCatalog ==
  /\ catalog = Nothing /\ Stale(FALSE) /\ StartCatalog(FALSE)
  /\ UNCHANGED <<record, form, filter, loaderVars, dialog, saveVars, javas, settings_ops, settings_faults, history>>

Place(games, version) == IF Contains(games, version) THEN CHOOSE i \in DOMAIN games : games[i] = version ELSE 1

(* Mutant of Refilled: the newest version is chosen.                        *)
RefilledWithNewest(games) == [form EXCEPT !.index = 1, !.version = games[1]]
(* apply_version_catalog                                                    *)
Refilled(games) == [form EXCEPT !.index = Place(games, form.version), !.version = games[Place(games, form.version)]]

(* poll_version_catalog, apply_version_catalog_error                        *)
PollCatalog ==
  /\ catalog # Nothing /\ catalog' = Nothing
  /\ \/ /\ listed' = [filter |-> catalog, games |-> Games(catalog), error |-> FALSE]
        /\ form' = Refilled(Games(catalog))
        /\ excusedForm' = IF Contains(Games(catalog), form.version) THEN excusedForm ELSE excusedForm \cup {"moved"}
        /\ UNCHANGED settings_faults
     \/ /\ Fault
        /\ listed' = [filter |-> catalog, games |-> <<>>, error |-> TRUE]
        /\ form' = [form EXCEPT !.index = 1, !.version = ""]
        /\ UNCHANGED excusedForm
  /\ UNCHANGED <<record, filter, loaderVars, dialog, saveVars, javas, settings_ops, picked, paired>>

(* poll_modloader_versions: a failure counts as an empty answer             *)
PollLoader(game) ==
  /\ fetching[game] > 0 /\ fetching' = [fetching EXCEPT ![game] = 0]
  /\ \/ cache' = [g \in DOMAIN cache \cup {game} |-> IF g = game THEN Offered[game] ELSE cache[g]] /\ UNCHANGED settings_faults
     \/ Fault /\ cache' = [g \in DOMAIN cache \cup {game} |-> IF g = game THEN <<>> ELSE cache[g]]
  /\ UNCHANGED <<record, form, catalogVars, dialog, saveVars, javas, settings_ops, history>>

ChangeFilter ==
  /\ Click /\ dialog = "closed" /\ filter' \in Filters \ {filter}
  /\ UNCHANGED <<record, form, listed, catalog, loaderVars, dialog, saveVars, javas, settings_faults, history>>

(***************************************************************************)
(* The dialog.                                                             *)
(***************************************************************************)
Open ==
  /\ Click /\ dialog # "open" /\ dialog' = "open"
  /\ marked' = IF marked = Nothing THEN form.opts ELSE marked
  /\ UNCHANGED <<record, form, catalogVars, loaderVars, dirty, javas, settings_faults, history>>

Clicked == dialog = "open" /\ Corrected = form /\ ~Asks /\ Click
(* set_game_version                                                         *)
SetGame(i) ==
  /\ Clicked /\ i \in DOMAIN listed.games
  /\ form' = [form EXCEPT !.index = i, !.version = listed.games[i]]
  /\ picked' = picked \cup {listed.games[i]}
  /\ UNCHANGED <<record, catalogVars, loaderVars, dialog, saveVars, javas, settings_faults, paired, excusedForm>>
(* set_loader                                                               *)
SetLoader(loader) ==
  /\ Clicked /\ listed.games # <<>> /\ loader # form.loader
  /\ loader = "Fabric" => Supported(Selected)
  /\ form' = [form EXCEPT !.loader = loader, !.lver = ""]
  /\ UNCHANGED <<record, catalogVars, loaderVars, dialog, saveVars, javas, settings_faults, history>>
(* set_loader_version                                                       *)
SetLoaderVersion(i) ==
  /\ Clicked /\ form.loader = "Fabric" /\ i \in DOMAIN LoaderChoices(Selected)
  /\ form' = [form EXCEPT !.lver = LoaderChoices(Selected)[i]]
  /\ UNCHANGED <<record, catalogVars, loaderVars, dialog, saveVars, javas, settings_faults, history>>

(* refresh_versions and refresh_loader_versions                             *)
RefreshVersions ==
  /\ Clicked /\ StartCatalog(TRUE) /\ cache' = <<>>
  /\ UNCHANGED <<record, form, filter, fetching, dialog, saveVars, javas, settings_faults, history>>
RefreshLoader ==
  /\ Clicked /\ form.loader = "Fabric" /\ Selected # "" /\ fetching[Selected] = 0
  /\ cache' = [g \in DOMAIN cache \ {Selected} |-> cache[g]]
  /\ fetching' = [fetching EXCEPT ![Selected] = 1]
  /\ UNCHANGED <<record, form, catalogVars, dialog, saveVars, javas, settings_faults, history>>

(* resolve_modloader_version_for_settings: Nothing where it is an error     *)
Latest(game) == IF LoaderChoices(game) # <<>> THEN Head(LoaderChoices(game)) ELSE Nothing
Resolved ==
  CASE form.loader = "Vanilla" -> form.lver
    [] form.loader # "Vanilla" /\ form.lver = "" -> Latest(form.version)
    [] OTHER -> IF Contains(IndexOf(form.version), form.lver) \/ Contains(Cached(form.version), form.lver)
                THEN form.lver ELSE Nothing
(* metadata_validation_error                                                *)
Valid == /\ form.version # ""
         /\ (form.loader = "Fabric" /\ listed.filter # Nothing /\ ~listed.error) => Supported(form.version)
         /\ Resolved # Nothing
(* save_instance_metadata_and_versions, set_instance_versions; Reinstall    *)
(* saves the same way before it installs                                    *)
Save ==
  /\ Clicked /\ Valid
  /\ record' = [record EXCEPT !.version = form.version, !.loader = form.loader, !.lver = Resolved]
  /\ UNCHANGED <<form, catalogVars, loaderVars, dialog, saveVars, javas, settings_faults, history>>

(***************************************************************************)
(* What is installed.                                                      *)
(***************************************************************************)
(* Version profiles: what each says of the game and of the loader.          *)
Profiles == {[score |-> 500, version |-> "new", loader |-> "Fabric", lver |-> "n0"],
             [score |-> 500, version |-> "old", loader |-> "Fabric", lver |-> "o1"],
             [score |-> 100, version |-> "old", loader |-> "Vanilla", lver |-> ""],
             [score |-> 100, version |-> "snapshot", loader |-> "Vanilla", lver |-> ""]}
(* detect_instance_versions: of those that say most, the last listed        *)
DetectedFrom(found) == {p \in found : \A q \in found : q.score <= p.score}
(* apply_detected_instance_versions, detect_versions                        *)
Detect ==
  /\ Clicked
  /\ \E found \in {s \in SUBSET Profiles : Cardinality(s) \in 1..2} : \E p \in DetectedFrom(found) :
       /\ form' = [form EXCEPT !.version = p.version, !.loader = p.loader, !.lver = p.lver,
                               !.index = IF Contains(listed.games, p.version) THEN Place(listed.games, p.version) ELSE @]
       /\ cache' = IF p.loader = "Vanilla" \/ Contains(Cached(p.version), p.lver) THEN cache
                   ELSE [g \in DOMAIN cache \cup {p.version} |->
                           IF g = p.version THEN <<p.lver>> \o Cached(g) ELSE cache[g]]
       /\ record' = [record EXCEPT !.version = p.version, !.loader = p.loader, !.lver = p.lver]
       /\ picked' = picked \cup {p.version} /\ paired' = paired \cup {<<p.version, p.lver>>}
  /\ UNCHANGED <<catalogVars, fetching, dialog, saveVars, javas, settings_faults, excusedForm>>

(* An updated pack sets the record's versions; the form keeps the old ones. *)
PackUpdate ==
  /\ Click /\ dialog = "closed" /\ record.loader = "Fabric"
  /\ record' = [record EXCEPT !.version = "new", !.lver = "n2"]
  /\ picked' = {"new"} /\ paired' = paired \cup {<<"new", "n2">>}
  /\ excusedForm' = IF form.version \in {"new", ""} THEN excusedForm ELSE excusedForm \cup {"stale"}
  /\ UNCHANGED <<form, catalogVars, loaderVars, dialog, saveVars, javas, settings_faults>>

(***************************************************************************)
(* The overrides.                                                          *)
(***************************************************************************)
(* save_runtime_overrides, set_instance_settings                            *)
Writable(opts) == opts = "java" => javas
Written(opts) == IF Writable(opts) THEN [record EXCEPT !.opts = opts] ELSE record
Unkept == {"left", "failed", "pressed"}
Judged(opts) == IF Writable(opts) THEN excusedForm \ Unkept ELSE excusedForm \cup {"failed"}

Edit(opts) ==
  /\ Clicked /\ opts # form.opts /\ form' = [form EXCEPT !.opts = opts]
  /\ dirty' = IF opts = marked THEN Nothing ELSE opts
  /\ UNCHANGED <<record, catalogVars, loaderVars, dialog, marked, javas, settings_faults, history>>
(* autosave_runtime_overrides_step, once the delay has passed               *)
Autosave ==
  /\ dialog = "open" /\ dirty # Nothing
  /\ marked' = dirty /\ dirty' = Nothing
  /\ record' = Written(dirty) /\ excusedForm' = Judged(dirty)
  /\ UNCHANGED <<form, catalogVars, loaderVars, dialog, javas, settings_ops, settings_faults, picked, paired>>
(* save_overrides: the button, which leaves the autosave's mark as it is: a *)
(* form that then goes back to what is marked is not saved again            *)
SaveOverrides ==
  /\ Clicked /\ record' = Written(form.opts)
  /\ excusedForm' = Judged(form.opts) \cup IF dirty = Nothing THEN {} ELSE {"pressed"}
  /\ UNCHANGED <<form, catalogVars, loaderVars, dialog, saveVars, javas, settings_faults, picked, paired>>

(* Mutant of Flush: what waits is forgotten.                                *)
ForgetDirty == dirty' = Nothing /\ UNCHANGED <<record, marked, excusedForm>>
(* flush_runtime_overrides_autosave                                         *)
Flush ==
  IF dirty = Nothing THEN UNCHANGED <<record, saveVars, excusedForm>>
  ELSE /\ dirty' = Nothing /\ marked' = form.opts
       /\ record' = Written(form.opts) /\ excusedForm' = Judged(form.opts)
Done ==
  /\ dialog = "open" /\ dialog' = "closed" /\ Flush
  /\ UNCHANGED <<form, catalogVars, loaderVars, javas, settings_ops, settings_faults, picked, paired>>
(* Export and Move take the dialog's place; nothing is flushed.             *)
Away ==
  /\ dialog = "open" /\ dialog' = "away"
  /\ excusedForm' = IF dirty = Nothing THEN excusedForm ELSE excusedForm \cup {"left"}
  /\ UNCHANGED <<record, form, catalogVars, loaderVars, saveVars, javas, settings_ops, settings_faults, picked, paired>>

Next ==
  \/ Look \/ SyncCatalog \/ PollCatalog \/ (\E g \in DOMAIN Offered : PollLoader(g)) \/ ChangeFilter \/ Open
  \/ (\E i \in 1..3 : SetGame(i)) \/ (\E l \in {"Vanilla", "Fabric"} : SetLoader(l)) \/ (\E i \in 1..2 : SetLoaderVersion(i))
  \/ RefreshVersions \/ RefreshLoader \/ Save \/ Detect \/ PackUpdate
  \/ (\E o \in Opts : Edit(o)) \/ Autosave \/ SaveOverrides \/ Done \/ Away
Spec == Init /\ [][Next]_vars

(***************************************************************************)
(* The record has the version the instance was made or last updated with,  *)
(* or one that was picked or detected since, unless the catalog that came  *)
(* lacked the form's version or could not be fetched before; it never has  *)
(* a loader version that neither a server offers for that very game nor an *)
(* installed profile names; and once the dialog is done, the overrides are *)
(* in the record as the form shows them, unless saving them was refused,   *)
(* the button saved them first or another dialog took this one's place.    *)
(***************************************************************************)
VersionIsChosen == record.version \in picked \/ excusedForm \cap {"moved", "stale"} # {}
PairIsOffered == record.loader = "Fabric" =>
    \/ Contains(Offered[record.version], record.lver) \/ <<record.version, record.lver>> \in paired
OverridesAreKept == dialog # "open" /\ excusedForm \cap Unkept = {} => record.opts = form.opts
SettingsAreChosen == VersionIsChosen /\ PairIsOffered /\ OverridesAreKept
=============================================================================
