------------------------------- MODULE MCLaunch -------------------------------
(***************************************************************************)
(* Launching: the registry of games, the command line, the lists of        *)
(* versions and the speed limit of downloads; and what the screens show    *)
(* of instances: their galleries and logs, the home screen, an instance    *)
(* that is moved to another folder, and packs to discover, with the merge  *)
(* of what two providers have found. They share no state in the models: a  *)
(* behaviour is one of the nine.                                           *)
(***************************************************************************)
EXTENDS ProcessRegistry, Sequences, TLC

CONSTANTS Roots, Contents, Torn, Permits, MaxMoves, MaxSaves, Shots, Logs, Page, MaxChanges, MaxScans,
          Homes, Things, PerScan, MaxTurns,
          None, MaxChain, Games, Loaders, PerGame, Clients, MaxDays, MaxErrors, Downloads, Sizes, Budget, Window,
          Queries, Pages, Packs, Names, MaxLooks, MaxFetches

\* What the theorems about the screens need of the constants.
ASSUME LaunchAssumption ==
    Roots # {} /\ Queries # {} /\ IsFiniteSet(Shots) /\ Page \in Nat /\ MaxChanges \in Nat
\* None is none of the values that it stands in for.
ASSUME NoneAssumption ==
    /\ None \notin Nat /\ None \notin Shots
    /\ None \notin [found : SUBSET Shots] /\ None \notin [query : Queries, page : Nat]
    /\ None \notin [n : Nat, serial : Nat, pack : Packs, side : {"modrinth", "curseforge"}]

VARIABLES part, at, asked, versions, missing, chain, classpath, command, today, cache, file, work, answer, errors, known, shared, lastFailure, elapsed, sent, left, sleep,
          home, folders, saved, moving, wait, message, writer, moves, raced,
          view, disk, changes, scan, candidates, loaded, gallery_shown, total, done, pending, ready, wanted,
          tasks, mail, deletion, seen, scans, watch, seeded, known_shots, told, baseline,
          logs, listing, log_scan, chosen, lines, loading, answers, shown_text,
          tab, joint, installed, onDisk, favorites, scanning, scan_number, waiting, flag, counted, entries, unseen,
          flying, pings, answered, snapshots, again, numbers, turns,
          query, found, found_page, more, searching, stored, mixed, detail, fetches, looks, fetched,
          renumbered, crossed, modrinth, curseforge, order

Arg(tokens) == [rules |-> None, value |-> tokens]
If(feature, tokens) ==
    [rules |-> <<[action |-> "allow", os |-> "any", feature |-> feature, expected |-> TRUE]>>, value |-> tokens]
Lib(key, version) == [key |-> key, file |-> key \o version, rules |-> None]
OnOs(lib, os) == [lib EXCEPT !.rules = <<[action |-> "allow", os |-> os, feature |-> None, expected |-> TRUE]>>]
NotOnOs(lib, os) ==
    [lib EXCEPT !.rules = <<[action |-> "allow", os |-> "any", feature |-> None, expected |-> TRUE],
                            [action |-> "disallow", os |-> os, feature |-> None, expected |-> TRUE]>>]

\* Mojang's profiles: a new one, one whose quick play arguments have no rules, an old one.
Vanilla(game) ==
    [id |-> game, loader |-> "vanilla", game |-> game, lv |-> None, parent |-> None, main |-> "Main", jar |-> TRUE,
     jvm |-> <<Arg(<<"-Djava.library.path">>), Arg(<<"-cp", "${classpath}">>)>>,
     game_arguments |-> <<Arg(<<"--username", "player">>),
                          If("has_quick_plays_support", <<"--quickPlayPath", "${quickPlayPath}">>),
                          If("is_quick_play_singleplayer", <<"--quickPlaySingleplayer", "${quickPlaySingleplayer}">>),
                          If("is_quick_play_multiplayer", <<"--quickPlayMultiplayer", "${quickPlayMultiplayer}">>),
                          If("is_quick_play_realms", <<"--quickPlayRealms", "${quickPlayRealms}">>)>>,
     legacy |-> <<>>,
     libs |-> <<Lib("asm", "9"), OnOs(Lib("lwjgl", "3"), "this"), OnOs(Lib("lwjgl", "other"), "other"),
                NotOnOs(Lib("text", "1"), "other"), NotOnOs(Lib("objc", "1"), "this")>>]
Unruled(p) ==
    [p EXCEPT !.game_arguments =
        <<Arg(<<"--quickPlayPath", "${quickPlayPath}", "--quickPlaySingleplayer", "${quickPlaySingleplayer}",
                "--quickPlayMultiplayer", "${quickPlayMultiplayer}", "--quickPlayRealms", "${quickPlayRealms}">>)>>]
Old(p) == [p EXCEPT !.jvm = <<>>, !.game_arguments = <<>>, !.legacy = <<"--username", "player">>]

\* A loader's profile inherits from the game's.
Loaded(loader, lv, game) ==
    [id |-> loader \o lv, loader |-> loader, game |-> game, lv |-> lv, parent |-> game, main |-> "Loader", jar |-> FALSE,
     jvm |-> <<>>, game_arguments |-> <<Arg(<<"--launchTarget", "client">>)>>, legacy |-> <<>>,
     libs |-> <<Lib("asm", "10"), Lib("loader", lv)>>]
Bootstrapped(p) == [p EXCEPT !.main = "BootstrapLauncher", !.jvm = <<Arg(<<"--add-modules", "ALL">>)>>]
Rewritten(p) == [p EXCEPT !.game_arguments = <<>>, !.legacy = <<"--username", "player", "--tweakClass", "forge">>]

MCFolders ==
    {{g} : g \in {Vanilla("1.20"), Unruled(Vanilla("1.20")), Old(Vanilla("1.20"))}}
    \cup {{g, p} : g \in {Vanilla("1.20"), Unruled(Vanilla("1.20"))},
                   p \in {Loaded("fabric", "0.15", "1.20"), Bootstrapped(Loaded("forge", "47.1", "1.20")),
                          Bootstrapped(Loaded("neoforge", "20.4", "1.20"))}}
    \cup {{Old(Vanilla("1.20")), Rewritten(Loaded("forge", "47.1", "1.20"))},
          {Loaded("fabric", "0.15", "1.20")},
          {Vanilla("1.20"), Loaded("forge", "47.1", "1.20"), Loaded("neoforge", "20.4", "1.20")},
          {Vanilla("1.20"), Vanilla("1.20.1"), Loaded("fabric", "0.15", "1.20"), Loaded("fabric", "0.16", "1.20.1")},
          {Vanilla("1.20"), Vanilla("1.21"), Loaded("fabric", "0.15", "1.20"), Loaded("fabric", "0.16", "1.21")},
          {Vanilla("1.20"), Loaded("forge", "47.1", "1.20"), Loaded("forge", "47.10", "1.20")}}
MCRequests ==
    {r \in [loader : {"vanilla", "fabric", "forge", "neoforge"}, game : {"1.20"},
            version : {None, "0.15", "47.1", "20.4"},
            world : {None, "world"}, server : {None, "server"}, long : BOOLEAN] :
        r.version \in {None, CASE r.loader = "fabric" -> "0.15" [] r.loader = "forge" -> "47.1"
                               [] r.loader = "neoforge" -> "20.4" [] OTHER -> None}}
MCWithin == {<<"1.20", "1.20.1">>, <<"47.1", "47.10">>}
MCMissing == {{}, {"asm10"}, {"asm9", "lwjgl3"}}

P == INSTANCE LaunchPlan WITH request <- asked, Folders <- MCFolders, Requests <- MCRequests,
        Within <- MCWithin, Missing <- MCMissing
V == INSTANCE VersionCatalogs WITH Workers <- Clients
D == INSTANCE DownloadPace WITH Workers <- Downloads

M == INSTANCE MoveInstance WITH Places <- Roots, Nothing <- None
G == INSTANCE Galleries WITH Nothing <- None
H == INSTANCE HomeScreen
S == INSTANCE Discover WITH shown <- found, page <- found_page, flying <- searching, Nothing <- None

planVars == <<at, asked, versions, missing, chain, classpath, command>>
catalogVars == <<today, cache, file, work, answer, errors, known, shared, lastFailure>>
paceVars == <<elapsed, sent, left, sleep>>
launchVars == <<vars, planVars, catalogVars, paceVars>>
moveVars == <<home, folders, saved, moving, wait, message, writer, moves, raced>>
galleryVars == <<view, disk, changes, scan, candidates, loaded, gallery_shown, total, done, pending, ready, wanted,
                 tasks, mail, deletion, seen, scans, watch, seeded, known_shots, told, baseline,
                 logs, listing, log_scan, chosen, lines, loading, answers, shown_text>>
homeVars == <<tab, joint, installed, onDisk, favorites, scanning, scan_number, waiting, flag, counted, entries, unseen,
              flying, pings, answered, snapshots, again, numbers, turns>>
searchVars == <<query, found, found_page, more, searching, stored, mixed, detail, fetches, looks, fetched,
                renumbered, crossed>>
mergeVars == <<modrinth, curseforge, order>>
discoverVars == <<searchVars, mergeVars>>
screenVars == <<moveVars, galleryVars, homeVars, discoverVars>>
allVars == <<part, launchVars, screenVars>>

MCInit ==
    /\ part \in {"registry", "plan", "catalog", "pace", "move", "gallery", "home", "discover", "merge"}
    /\ part = "merge" \/ (modrinth = <<>> /\ curseforge = <<>>)
    /\ part = "discover" \/ query = CHOOSE q \in Queries : TRUE
    /\ part = "gallery" \/ view = "log"
    /\ part = "home" \/ (tab = "worlds" /\ joint = {})
    /\ part = "registry" \/ request = [p \in Launches |-> CHOOSE r \in Requests : TRUE]
    /\ part = "catalog" \/ cache = V!Catalog
    /\ part = "pace" \/ left = [w \in Downloads |-> <<Budget>>]
    /\ Init /\ P!Init /\ V!Init /\ D!Init /\ M!Init /\ G!Init /\ H!Init /\ S!DiscoverInit /\ S!MergeInit

Registry(step) == part = "registry" /\ step /\ UNCHANGED <<part, planVars, catalogVars, paceVars, screenVars>>
Pace(step) == part = "pace" /\ step /\ UNCHANGED <<part, vars, planVars, catalogVars, screenVars>>
MCNext ==
    \/ Registry(Next) \/ Pace(D!Next)
    \/ part = "plan" /\ P!Next /\ UNCHANGED <<part, vars, catalogVars, paceVars, screenVars>>
    \/ part = "catalog" /\ V!Next /\ UNCHANGED <<part, vars, planVars, paceVars, screenVars>>
    \/ part = "move" /\ M!Next /\ UNCHANGED <<part, launchVars, galleryVars, homeVars, discoverVars>>
    \/ part = "gallery" /\ G!Next /\ UNCHANGED <<part, launchVars, moveVars, homeVars, discoverVars>>
    \/ part = "home" /\ H!Next /\ UNCHANGED <<part, launchVars, moveVars, galleryVars, discoverVars>>
    \/ /\ part = "discover" /\ (S!SearchNext \/ S!DetailNext)
       /\ UNCHANGED <<part, launchVars, moveVars, galleryVars, homeVars, mergeVars>>
    \/ /\ part = "merge" /\ S!MergeNext
       /\ UNCHANGED <<part, launchVars, moveVars, galleryVars, homeVars, searchVars>>

MCSpec ==
    /\ MCInit /\ [][MCNext]_allVars
    /\ WF_allVars(Registry(TakePrune)) /\ WF_allVars(Registry(TakeDrain))
    /\ WF_allVars(Pace(D!Tick)) /\ \A w \in Downloads : WF_allVars(Pace(D!Consume(w)))

(* What is computed at once from what was read: the command is of the profile *)
(* asked for, with one classpath, the newest of each library, and one way to  *)
(* begin; and of two providers' hits each is in one entry, reckoned by its    *)
(* best.                                                                      *)
CommandAndMergeAreRight == P!CommandIsRight /\ S!NothingFoundIsLost

(* A list of versions is at most a day old unless a server failed, is told    *)
(* again when servers fail, and a loader that was left out comes back.        *)
CatalogsAreSound == V!CatalogsAreSound

(* A moved instance is whole where its record points; a gallery, a log and    *)
(* the home screen show what the latest answer says, once; the packs found   *)
(* are of one search, and a pack's versions its own.                          *)
ScreensAreRight == M!MovesAreWhole /\ G!GalleriesAreRight /\ H!HomeIsRight /\ S!DiscoverIsRight

(* A read that fits into the limit's window is let through.                   *)
SmallReadsPass == part = "pace" => D!SmallReadsPass
=============================================================================
