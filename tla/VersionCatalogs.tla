--------------------------- MODULE VersionCatalogs ---------------------------
(***************************************************************************)
(* The lists of game and loader versions (installation_core.rs and           *)
(* launch_engine_modloaders): fetched, kept in files for a day, and used      *)
(* although old when the servers fail.  Fabric and Quilt are asked for one    *)
(* game's versions, Forge and NeoForge tell those of all games, and the       *)
(* catalog tells which loaders there are.  A list is the day it was fetched.  *)
(* fetch_loader_versions_for_game and fetch_version_catalog run on workers,   *)
(* which know nothing of one another.                                         *)
(***************************************************************************)
EXTENDS Naturals, FiniteSets

CONSTANTS Games, Loaders, Workers,
          PerGame,        \* the caches that are fetched for one game; the others for all at once
          MaxDays,        \* bound on the days
          MaxErrors       \* bound on the failures of servers and crashes

Catalog == "catalog"
Caches == Loaders \cup {Catalog}
TTL == 1
Unknown == 0
Topics(c) == IF c = Catalog THEN Loaders ELSE Games
Nothing == [g \in Games \cup Loaders |-> Unknown]

VARIABLES
    today,
    cache,       \* the caches do not affect one another: a behaviour is about one of them
    file,        \* its file: [whole, at, lists]
    work,        \* per worker: [at, topic, cached, lists]
    answer,      \* the last answer: [topic, day, asked, failed, error], error: what the file had told is not told
    errors,
    known,       \* history: the topics that were in a whole file
    shared,      \* history: two workers have met at the file, or a crash a writer
    lastFailure  \* history: per loader, the last day its server failed for the catalog

vars == <<today, cache, file, work, answer, errors, known, shared, lastFailure>>

Idle == [at |-> "idle", topic |-> "", cached |-> Nothing, lists |-> Nothing]
NoAnswer == [topic |-> "", day |-> Unknown, asked |-> 0, failed |-> FALSE, error |-> FALSE]

Init ==
    /\ today = 1 /\ errors = 0 /\ known = {} /\ shared = FALSE /\ cache \in Caches
    /\ file = [whole |-> FALSE, at |-> 0, lists |-> Nothing]
    /\ work = [w \in Workers |-> Idle] /\ answer = NoAnswer
    /\ lastFailure = [l \in Loaders |-> 0]

Answer(topic, day, failed) ==
    answer' = [topic |-> topic, day |-> day, asked |-> today, failed |-> failed,
               error |-> failed /\ day = Unknown /\ topic \in known /\ ~shared]

(* Mutant of Expired: the day after is the same day.                          *)
ExpiresLate == today - file.at > TTL + 1

Expired == today - file.at > TTL

\* The catalog must know something of some loader, a list of versions must be the game's.
Usable(topic) ==
    IF cache = Catalog THEN \E l \in Loaders : file.lists[l] # Unknown ELSE file.lists[topic] # Unknown

\* The cache is read, and answers if it is young; else, and if the user wants it anew, a
\* server is asked.  Where the catalog is asked, topic is what the reader looks for in it.
Ask(w, topic, force) ==
    /\ work[w].at = "idle"
    /\ IF ~force /\ file.whole /\ ~Expired /\ Usable(topic)
       THEN Answer(topic, file.lists[topic], FALSE) /\ UNCHANGED work
       ELSE /\ work' = [work EXCEPT ![w] = [at |-> "fetch", topic |-> topic, lists |-> Nothing,
                                            cached |-> IF file.whole THEN file.lists ELSE Nothing]]
            /\ UNCHANGED answer
    /\ shared' = (shared \/ \E v \in Workers \ {w} : work[v].at # "idle")
    /\ UNCHANGED <<today, cache, file, errors, known, lastFailure>>

\* A loader's server that fails leaves it out of the catalog, which is a success and is kept.
Fetched(w, lists) ==
    /\ work' = [work EXCEPT ![w].at = "create", ![w].lists = lists]
    /\ UNCHANGED <<today, cache, file, answer, known, shared>>

FetchLoader(w) ==
    /\ work[w].at = "fetch" /\ cache # Catalog
    /\ Fetched(w, [t \in Games \cup Loaders |->
                      IF t = work[w].topic \/ (t \in Games /\ cache \notin PerGame)
                      THEN today ELSE work[w].cached[t]])
    /\ UNCHANGED <<errors, lastFailure>>
FetchCatalog(w) ==
    /\ work[w].at = "fetch" /\ cache = Catalog
    /\ \E failing \in SUBSET Loaders :
          /\ errors' = errors + Cardinality(failing) /\ errors' <= MaxErrors
          /\ Fetched(w, [t \in Games \cup Loaders |-> IF t \in Loaders \ failing THEN today ELSE Unknown])
          /\ lastFailure' = [l \in Loaders |-> IF l \in failing THEN today ELSE lastFailure[l]]

\* The server, or Mojang's manifest for the catalog, fails: what was in the file will do.
FetchFails(w) ==
    /\ work[w].at = "fetch" /\ errors < MaxErrors /\ errors' = errors + 1
    /\ work' = [work EXCEPT ![w] = Idle]
    /\ Answer(work[w].topic, work[w].cached[work[w].topic], TRUE)
    /\ UNCHANGED <<today, cache, file, known, shared, lastFailure>>

\* The file is emptied and then written, with the time of the writing.
Create(w) ==
    /\ work[w].at = "create"
    /\ work' = [work EXCEPT ![w].at = "write"]
    /\ file' = [file EXCEPT !.whole = FALSE]
    /\ UNCHANGED <<today, cache, answer, errors, known, shared, lastFailure>>

Write(w) ==
    LET mixed == \E v \in Workers \ {w} : work[v].at = "write"
    IN  /\ work[w].at = "write"
        /\ \E whole \in IF mixed THEN BOOLEAN ELSE {TRUE} :
              file' = [whole |-> whole, at |-> today, lists |-> work[w].lists]
        /\ known' = known \cup {t \in Topics(cache) : work[w].lists[t] # Unknown}
        /\ work' = [work EXCEPT ![w] = Idle]
        /\ Answer(work[w].topic, work[w].lists[work[w].topic], FALSE)
        /\ UNCHANGED <<today, cache, errors, shared, lastFailure>>

Crash ==
    /\ errors < MaxErrors /\ errors' = errors + 1
    /\ shared' = (shared \/ \E w \in Workers : work[w].at = "write")
    /\ work' = [w \in Workers |-> Idle] /\ answer' = NoAnswer
    /\ UNCHANGED <<today, cache, file, known, lastFailure>>

\* A request has ended long before a day has passed.
NextDay ==
    /\ today < MaxDays /\ today' = today + 1
    /\ \A w \in Workers : work[w].at = "idle"
    /\ answer' = NoAnswer
    /\ UNCHANGED <<cache, file, work, errors, known, shared, lastFailure>>

Next ==
    \/ \E w \in Workers :
          \/ \E topic \in Topics(cache), force \in BOOLEAN : Ask(w, topic, force)
          \/ FetchLoader(w) \/ FetchCatalog(w) \/ FetchFails(w) \/ Create(w) \/ Write(w)
    \/ Crash \/ NextDay

Spec == Init /\ [][Next]_vars

-------------------------------------------------------------------------------
\* What is told is at most a day old unless a server failed then, except of a loader that
\* is asked game by game: its file's time is that of the last game asked for.
ListsAreYoung ==
    LET a == answer
    IN  a.day # Unknown /\ ~a.failed /\ cache \notin PerGame => a.asked - a.day <= TTL

\* What a file has told can be told again although the servers fail, unless two workers
\* or a crash met at the file, or another loader's answer replaced the catalog.
KnownStaysKnown ==
    LET a == answer
    IN  a.error => cache = Catalog /\ lastFailure[a.topic] # 0

\* A loader is missing from the catalog for a day after its server failed, and no longer
\* unless Mojang's server fails.
LoadersComeBack ==
    LET a == answer
    IN  cache = Catalog /\ a.asked # 0 /\ a.day = Unknown /\ ~a.failed
          => lastFailure[a.topic] # 0 /\ a.asked - lastFailure[a.topic] <= TTL

CatalogsAreSound == ListsAreYoung /\ KnownStaysKnown /\ LoadersComeBack
===============================================================================
