------------------------------ MODULE LaunchPlan ------------------------------
(***************************************************************************)
(* The command line of a launch: launch_instance (process_control.rs) and   *)
(* launch_engine.  It is computed from the version profiles in the folder   *)
(* versions, which are Mojang's and the loaders' data, from the files on    *)
(* disk, and from what is asked for.  Tokens of a command are strings;      *)
(* names, paths and arguments that nothing depends on are left out.         *)
(***************************************************************************)
EXTENDS Naturals, Sequences, FiniteSets, SequencesExt, TLC

CONSTANTS
    None,
    Folders,       \* what versions may hold: sets of [id, loader, game, lv, parent, main, jar, jvm,
                   \*   game_arguments, legacy, libs]
    Requests,      \* [loader, game, version, world, server, long]
    Within,        \* pairs of versions: the text of the first occurs in that of the second
    Missing,       \* the sets of library files that may be absent
    MaxChain       \* the guard of load_profile_chain

VARIABLES
    at,            \* start, resolved, classpath, done, failed
    request,
    versions,      \* the profiles in the instance's folder
    missing,       \* the library files that are not on disk
    chain,         \* the profile of the launch, after those it inherits from
    classpath,     \* sequence of [key, file]
    command

vars == <<at, request, versions, missing, chain, classpath, command>>
profile == Last(chain)

Init ==
    /\ at = "start" /\ request = None /\ versions = {} /\ missing = {}
    /\ chain = <<>> /\ classpath = <<>> /\ command = <<>>

ReadsLike(text, part) == text = part \/ <<part, text>> \in Within

(***************************************************************************)
(* Which profile.                                                          *)
(***************************************************************************)
Hint(p) == IF request.loader = "forge" THEN p.loader \in {"forge", "neoforge"} ELSE p.loader = request.loader

\* The scan of the folder goes by the text of the names.
Matches(p) ==
    /\ Hint(p)
    /\ ReadsLike(p.game, request.game)
    /\ request.version # None => ReadsLike(p.lv, request.version)

Exact(p) ==
    IF request.loader = "vanilla" THEN p.loader = "vanilla" /\ p.game = request.game
    ELSE /\ request.loader \in {"fabric", "quilt"} /\ request.version # None
         /\ p.loader = request.loader /\ p.lv = request.version /\ p.game = request.game

\* Each match goes to the front, in the order the folder is read: any may be the first.
Candidates ==
    LET found == {p \in versions : request.loader # "vanilla" /\ Matches(p)}
    IN  IF found # {} THEN found ELSE {p \in versions : Exact(p)}

\* A profile and those it inherits from, eldest first; a parent that is not there is None.
Chain(p) ==
    LET parent(q) == IF q = None \/ q.parent = None THEN None
                     ELSE IF \E r \in versions : r.id = q.parent
                     THEN CHOOSE r \in versions : r.id = q.parent ELSE None
        ancestor[n \in 0 .. MaxChain - 1] == IF n = 0 THEN p ELSE parent(ancestor[n - 1])
        broken == \E n \in 0 .. MaxChain - 2 : /\ ancestor[n] # None /\ ancestor[n].parent # None
                                               /\ ancestor[n + 1] = None
        all == [n \in 1 .. MaxChain |-> ancestor[MaxChain - n]]
    IN  IF broken THEN None ELSE SelectSeq(all, LAMBDA q : q # None)

MainClass == LET named == SelectSeq(chain, LAMBDA p : p.main # "")
             IN  IF named = <<>> THEN None ELSE Last(named).main

Choose(r, folder, absent) ==
    /\ at = "start" /\ at' = "asked"
    /\ request' = r /\ versions' = folder /\ missing' = absent
    /\ UNCHANGED <<chain, classpath, command>>

Resolve ==
    /\ at = "asked"
    /\ \/ \E p \in Candidates : Chain(p) # None /\ chain' = Chain(p) /\ at' = "resolved"
       \/ /\ Candidates = {} \/ \E p \in Candidates : Chain(p) = None
          /\ at' = "failed" /\ UNCHANGED chain
    /\ UNCHANGED <<request, versions, missing, classpath, command>>

(***************************************************************************)
(* Rules, features and substitutions.                                      *)
(***************************************************************************)
Feature(f) == CASE f = "has_quick_plays_support" -> request.world # None \/ request.server # None
                [] f = "is_quick_play_singleplayer" -> request.world # None
                [] f = "is_quick_play_multiplayer" -> request.server # None
                [] OTHER -> FALSE

OnThisOs(rule) == rule.os \in {"any", "this"}
InThisLaunch(rule) == OnThisOs(rule) /\ (rule.feature = None \/ Feature(rule.feature) = rule.expected)

\* No rules allow; else the last that applies decides.
Allows(rules, launching) ==
    \/ rules = None
    \/ LET said == SelectSeq(rules, LAMBDA rule : IF launching THEN InThisLaunch(rule) ELSE OnThisOs(rule))
       IN  said # <<>> /\ Last(said).action = "allow"

Substitute(token) ==
    CASE token = "${classpath}" -> "classpath"
      [] token = "${quickPlayPath}" -> "quickPlay"
      [] token = "${quickPlaySingleplayer}" /\ request.world # None -> request.world
      [] token = "${quickPlayMultiplayer}" /\ request.server # None -> request.server
      [] OTHER -> token

\* collect_argument_array over the profiles' lists, eldest first.
Collect(lists) ==
    LET allowed == SelectSeq(FlattenSeq(lists), LAMBDA arg : Allows(arg.rules, TRUE))
    IN  FlattenSeq([i \in DOMAIN allowed |-> allowed[i].value])

Substituted(tokens) == [i \in DOMAIN tokens |-> Substitute(tokens[i])]

(***************************************************************************)
(* The classpath.                                                          *)
(***************************************************************************)
(* Mutant of AddLibrary: the first one stays.                              *)
KeepsFirst(path, lib) == IF \E i \in DOMAIN path : path[i].key = lib.key THEN path ELSE Append(path, lib)

\* A later profile's library takes the place of the same one of an earlier.
AddLibrary(path, lib) ==
    IF \E i \in DOMAIN path : path[i].key = lib.key
    THEN [i \in DOMAIN path |-> IF path[i].key = lib.key THEN lib ELSE path[i]]
    ELSE Append(path, lib)

LibraryPath ==
    LET listed == FlattenSeq([i \in DOMAIN chain |-> chain[i].libs])
        usable == SelectSeq(listed, LAMBDA lib : Allows(lib.rules, FALSE) /\ lib.file \notin missing)
    IN  FoldLeft(LAMBDA path, lib : AddLibrary(path, [key |-> lib.key, file |-> lib.file]), <<>>, usable)

Jar(p) == [key |-> "game", file |-> p.id]
GameJar ==
    LET fallback == {p \in versions : p.loader = "vanilla" /\ p.game = request.game /\ p.jar}
    IN  IF profile.jar THEN <<Jar(profile)>>
        ELSE IF MainClass = "BootstrapLauncher" THEN <<>>
        ELSE IF fallback = {} THEN None
        ELSE <<Jar(CHOOSE p \in fallback : TRUE)>>

BuildClasspath ==
    /\ at = "resolved"
    /\ IF MainClass = None \/ GameJar = None THEN at' = "failed" /\ UNCHANGED classpath
       ELSE at' = "classpath" /\ classpath' = LibraryPath \o GameJar
    /\ UNCHANGED <<request, versions, missing, chain, command>>

(***************************************************************************)
(* The command.                                                            *)
(***************************************************************************)
JvmArguments ==
    LET listed == Collect([i \in DOMAIN chain |-> chain[i].jvm])
    IN  Substituted(IF listed = <<>> THEN <<"-Djava.library.path", "-cp", "${classpath}">> ELSE listed)

PathFlags == {"-cp", "-classpath"}
IsPath(tokens, i) == tokens[i] \in PathFlags \/ (i > 1 /\ tokens[i - 1] \in PathFlags)
WithoutClasspath(tokens) ==
    LET kept == SetToSortSeq({i \in DOMAIN tokens : ~IsPath(tokens, i)}, <)
    IN  [k \in DOMAIN kept |-> tokens[kept[k]]]

\* A classpath over 7000 characters is passed in a file.
WithClasspath(tokens) ==
    IF request.long THEN <<"@argfile">> \o WithoutClasspath(tokens)
    ELSE IF Range(tokens) \cap PathFlags = {} THEN tokens \o <<"-cp", "classpath">>
    ELSE tokens

GameArguments ==
    LET listed == Collect([i \in DOMAIN chain |-> chain[i].game_arguments])
        old == SelectSeq(chain, LAMBDA p : p.legacy # <<>>)
    IN  Substituted(IF listed # <<>> \/ old = <<>> THEN listed ELSE Last(old).legacy)

ModeFlags == {"--quickPlaySingleplayer", "--quickPlayMultiplayer", "--quickPlayRealms"}
Unresolved == {"", "${quickPlaySingleplayer}", "${quickPlayMultiplayer}", "${quickPlayRealms}"}

\* One step of normalize_quick_play_arguments at token i: a flag goes with its value, or both go.
QuickPlayStep(tokens, s, i) ==
    LET flag == tokens[i]
        value == IF i < Len(tokens) THEN tokens[i + 1] ELSE ""
    IN  IF s.skip THEN [s EXCEPT !.skip = FALSE]
        ELSE IF flag \notin ModeFlags \cup {"--quickPlayPath"} THEN [s EXCEPT !.out = Append(@, flag)]
        ELSE IF value \in Unresolved \/ (IF flag = "--quickPlayPath" THEN s.path ELSE s.mode)
        THEN [s EXCEPT !.skip = TRUE]
        ELSE [out |-> s.out \o <<flag, value>>, skip |-> TRUE,
              path |-> s.path \/ flag = "--quickPlayPath", mode |-> s.mode \/ flag \in ModeFlags]

Requested == IF request.world # None THEN <<"--quickPlaySingleplayer", request.world>>
             ELSE IF request.server # None THEN <<"--quickPlayMultiplayer", request.server>>
             ELSE <<>>

NormalizedQuickPlay(tokens) ==
    LET s == FoldLeft(LAMBDA acc, i : QuickPlayStep(tokens, acc, i),
                      [out |-> <<>>, skip |-> FALSE, path |-> FALSE, mode |-> FALSE],
                      [i \in DOMAIN tokens |-> i])
    IN  s.out \o IF s.mode \/ Requested = <<>> THEN <<>>
                 ELSE (IF s.path THEN <<>> ELSE <<"--quickPlayPath", "quickPlay">>) \o Requested

BuildCommand ==
    /\ at = "classpath" /\ at' = "done"
    /\ command' = WithClasspath(JvmArguments) \o <<"main">> \o NormalizedQuickPlay(GameArguments)
    /\ UNCHANGED <<request, versions, missing, chain, classpath>>

Next == \/ \E r \in Requests, f \in Folders, absent \in Missing : Choose(r, f, absent)
        \/ Resolve \/ BuildClasspath \/ BuildCommand

Spec == Init /\ [][Next]_vars

-------------------------------------------------------------------------------
(***************************************************************************)
(* What a command must be.                                                 *)
(***************************************************************************)
Places(tokens, set) == {i \in DOMAIN tokens : tokens[i] \in set}

\* Java gets one classpath, whichever profile, the launcher or the argument file says it.
ClasspathOnce == at = "done" => Cardinality(Places(command, PathFlags \cup {"@argfile"})) = 1

\* Of each library the classpath has one file, the one of the most derived profile that
\* lists one that is there, and the game's jar at most once and last.
LibrariesAreNewest ==
    at \in {"classpath", "done"} =>
        /\ \A i, k \in DOMAIN classpath : classpath[i].key = classpath[k].key => i = k
        /\ \A n \in DOMAIN chain, lib \in UNION {Range(p.libs) : p \in Range(chain)} :
              /\ lib \in Range(chain[n].libs) /\ lib.file \notin missing /\ Allows(lib.rules, FALSE)
              /\ \A k \in n + 1 .. Len(chain) : \A other \in Range(chain[k].libs) :
                    other.key = lib.key => other.file \in missing
              => \E i \in DOMAIN classpath : classpath[i] = [key |-> lib.key, file |-> lib.file]
        /\ \A i \in DOMAIN classpath : classpath[i].key = "game" => i = Len(classpath)

\* The game is told to start at most one way, what was asked for if anything was,
\* with the file it reports to, and never a placeholder.
QuickPlayIsRequested ==
    at = "done" =>
        LET modes == Places(command, ModeFlags)
        IN  /\ Cardinality(modes) = IF Requested = <<>> THEN 0 ELSE 1
            /\ \A i \in modes : command[i + 1] \in {request.world, request.server} \ {None}
            /\ Cardinality(Places(command, {"--quickPlayPath"})) <= 1
            /\ modes # {} => Places(command, {"--quickPlayPath"}) # {}

\* The profile is of the loader, game and version asked for, unless the name of another
\* one in the folder contains them as well.
ProfileIsRequested ==
    chain # <<>> =>
        \/ /\ profile.loader = request.loader /\ profile.game = request.game
           /\ request.version \in {None, profile.lv}
        \/ \E p \in versions :
              \/ p.loader # request.loader /\ Hint(p)
              \/ <<request.game, p.game>> \in Within
              \/ <<request.version, p.lv>> \in Within

CommandIsRight == ClasspathOnce /\ LibrariesAreNewest /\ QuickPlayIsRequested /\ ProfileIsRequested
===============================================================================
