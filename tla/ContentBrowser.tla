---------------------------- MODULE ContentBrowser ----------------------------
(***************************************************************************)
(* The content browser (launcher_ui, screens/content_browser): the search   *)
(* of the shown instance, the page of one project with its versions, the    *)
(* queue of installs, the manifest behind the "installed" marks, the        *)
(* catalog of game versions and the identification of a file.  The screen   *)
(* runs frame by frame (Tick), its workers answer through channels, and     *)
(* every flag "in flight" is the screen's own belief about them.            *)
(*                                                                         *)
(* A request is what is searched for: the instance's defaults stand in the  *)
(* field `inst`, the dropdowns in `scope`.  An install is one element of    *)
(* the instance's manifest; what it does to files is ContentInstall's.      *)
(***************************************************************************)
EXTENDS Naturals, Sequences, FiniteSets, SequencesExt, Functions

CONSTANTS Nothing,    \* model value: no value
          Instances, Entries,
          Shaders,    \* the entries that are no mods
          CurseForge, \* the entries CurseForge offers; Modrinth offers all
          CacheLimit, \* CONTENT_BROWSER_SEARCH_CACHE_MAX_ENTRIES
          MaxOps,     \* what the user does
          MaxFaults   \* calls and workers that fail

ASSUME BrowserAssumption == Shaders \cup CurseForge \subseteq Entries

VARIABLES b,        \* ContentBrowserState
          work,     \* the workers that run
          mail,     \* what the channels hold
          disk,     \* the manifests on disk, and CurseForge's class ids the process keeps
          open,     \* the entry another screen asked to open
          ops, faults, \* bounds
          switched, \* history: the instance changed while an install or a load ran
          raced     \* history: a manifest was being read while an install wrote it

vars == <<b, work, mail, disk, open, ops, faults, switched, raced>>

Providers == {"modrinth", "curseforge"}
Kinds == {"mod", "shader"}
KindOrder == <<"mod", "shader">>
Scopes == {"mods", "all"}
Kind(e) == IF e \in Shaders THEN "shader" ELSE "mod"
Includes(scope, kind) == scope = "all" \/ kind = "mod"
Tasks(r) == SelectSeq(KindOrder, LAMBDA k : Includes(r.scope, k))
Requests == [inst : Instances, scope : Scopes, page : 1 .. 2]
NoResults == [of |-> Nothing, entries |-> {}, done |-> 0]

Init ==
  /\ b = [inst |-> Nothing, scope |-> "mods", page |-> 1, view |-> "browse", populated |-> Nothing,
          active |-> Nothing, searching |-> FALSE, results |-> NoResults, cached |-> {},
          detail |-> Nothing, shown |-> Nothing, shownOf |-> Nothing, fetching |-> FALSE, known |-> <<>>,
          queue |-> <<>>, downloading |-> FALSE, current |-> Nothing,
          manifest |-> Nothing, dirty |-> FALSE, reading |-> FALSE,
          catalog |-> "none", identifying |-> FALSE]
  /\ work = [search |-> {}, versions |-> {}, install |-> {}, read |-> {}, catalog |-> FALSE, file |-> Nothing]
  /\ mail = [search |-> <<>>, versions |-> <<>>, install |-> <<>>, read |-> <<>>, catalog |-> "none",
             file |-> Nothing]
  /\ disk = [manifest |-> [i \in Instances |-> {}], classes |-> Nothing]
  /\ open = Nothing
  /\ ops = 0 /\ faults = 0 /\ switched = FALSE /\ raced = FALSE

Fault(n) == faults + n =< MaxFaults /\ faults' = faults + n

(* Workers that run for one thing are told apart by a number.               *)
Start(workers, x) ==
  workers \cup {<<x, CHOOSE n \in 0 .. Cardinality(workers) : <<x, n>> \notin workers>>}

-----------------------------------------------------------------------------
(* The screen's own functions, from a state w = [b, work] to the next.      *)

(* The two lists of trim_content_browser_search_cache: what lies more than  *)
(* two pages back goes first, then the lowest pages, never the active one.   *)
Trim(cached, s) ==
  LET near == {c \in cached : c.of = s.active \/ c.of.page + 2 >= s.page}
      Lower(c) == {d \in near : d.of # s.active /\ d.of.page < c.of.page}
  IN  IF Cardinality(cached) =< CacheLimit THEN {cached}
      ELSE IF Cardinality(near) =< CacheLimit THEN {near}
      ELSE {near \ gone : gone \in {g \in SUBSET {c \in near : c.of # s.active} :
                /\ Cardinality(g) = Cardinality(near) - CacheLimit
                /\ \A c \in g : Lower(c) \subseteq g}}

RequestSearch(w, r) ==
  IF w.b.searching THEN {w}
  ELSE IF \E c \in w.b.cached : c.of = r
  THEN LET s == [w.b EXCEPT !.active = r, !.results = CHOOSE c \in w.b.cached : c.of = r]
       IN  {[w EXCEPT !.b = [s EXCEPT !.cached = kept]] : kept \in Trim(s.cached, s)}
  ELSE {[b |-> [w.b EXCEPT !.active = r, !.results = NoResults, !.searching = TRUE],
         work |-> [w.work EXCEPT !.search = Start(@, r)]]}

RequestForFilters(w, reset) ==
  LET page == IF reset THEN 1 ELSE w.b.page
  IN  RequestSearch([w EXCEPT !.b.page = page], [inst |-> w.b.inst, scope |-> w.b.scope, page |-> page])

RequestVersions(w) ==
  LET e == w.b.detail
  IN  IF e = Nothing THEN w
      ELSE IF e \in DOMAIN w.b.known
      THEN [w EXCEPT !.b.fetching = FALSE, !.b.shownOf = e, !.b.shown = w.b.known[e]]
      ELSE IF w.b.fetching \/ (w.b.shownOf = e /\ w.b.shown # Nothing) THEN w
      ELSE [b |-> [w.b EXCEPT !.fetching = TRUE], work |-> [w.work EXCEPT !.versions = Start(@, e)]]

(* Mutant: the page of another project keeps the flag of the last one.       *)
OpenDetailInFlight(w, e) ==
  RequestVersions([w EXCEPT !.b = [@ EXCEPT !.view = "detail", !.detail = e, !.shown = Nothing,
                                            !.shownOf = Nothing]])
OpenDetail(w, e) ==
  RequestVersions(IF w.b.detail = e THEN [w EXCEPT !.b.view = "detail"]
    ELSE [w EXCEPT !.b = [@ EXCEPT !.view = "detail", !.detail = e, !.shown = Nothing,
                                   !.shownOf = Nothing, !.fetching = FALSE]])

OpenPending(w, e) == IF e = Nothing THEN w ELSE OpenDetail(w, e)

RequestCatalog(w) ==
  IF w.b.catalog = "none" THEN [b |-> [w.b EXCEPT !.catalog = "asked"], work |-> [w.work EXCEPT !.catalog = TRUE]]
  ELSE w

(* Mutant: the queue outlives the instance it was filled in.                 *)
KeepQueue(s, i) ==
  IF s.inst = i THEN s
  ELSE [s EXCEPT !.inst = i, !.downloading = FALSE, !.current = Nothing, !.manifest = Nothing, !.dirty = TRUE,
                 !.view = "browse", !.detail = Nothing, !.shown = Nothing, !.shownOf = Nothing, !.fetching = FALSE,
                 !.results = NoResults, !.active = Nothing, !.searching = FALSE, !.populated = Nothing]
EnsureInstance(s, i) ==
  IF s.inst = i THEN s
  ELSE [s EXCEPT !.inst = i, !.scope = "mods", !.queue = <<>>, !.downloading = FALSE, !.current = Nothing,
                 !.manifest = Nothing, !.dirty = TRUE, !.page = 1, !.view = "browse",
                 !.detail = Nothing, !.shown = Nothing, !.shownOf = Nothing, !.fetching = FALSE,
                 !.results = NoResults, !.active = Nothing, !.searching = FALSE, !.populated = Nothing]

StartQueued(w) ==
  IF w.b.downloading \/ w.b.queue = <<>> THEN w
  ELSE LET next == Head(w.b.queue)
       IN  [b |-> [w.b EXCEPT !.queue = Tail(@), !.downloading = TRUE, !.current = next.entry],
            work |-> [w.work EXCEPT !.install = Start(@, [next EXCEPT !.inst = w.b.inst])]]

LoadManifest(w) ==
  IF (w.b.dirty \/ w.b.manifest = Nothing) /\ ~w.b.reading
  THEN [b |-> [w.b EXCEPT !.reading = TRUE], work |-> [w.work EXCEPT !.read = Start(@, w.b.inst)]]
  ELSE w

Populate(w) ==
  IF w.b.populated # w.b.inst /\ ~w.b.searching
  THEN {[x EXCEPT !.b.populated = w.b.inst] :
          x \in RequestSearch([w EXCEPT !.b.page = 1], [inst |-> w.b.inst, scope |-> "mods", page |-> 1])}
  ELSE {w}

Browse(w) == IF w.b.view = "browse" THEN Populate(LoadManifest(w)) ELSE {w}

-----------------------------------------------------------------------------
(* What a poll does with one message.                                       *)
(* Mutant: any search's results are shown.                                   *)
PollAnySearch(s, u) ==
  IF u.failed THEN [s EXCEPT !.searching = FALSE]
  ELSE [s EXCEPT !.results = u.snapshot, !.searching = u.snapshot.done < Len(Tasks(u.of))]
PollSearch(s, u) ==
  IF u.of # s.active THEN s
  ELSE IF u.failed THEN [s EXCEPT !.searching = FALSE]
  ELSE LET t == [s EXCEPT !.results = u.snapshot]
       IN  IF u.snapshot.done < Len(Tasks(u.of)) THEN t
           ELSE LET c == {x \in t.cached : x.of # u.of} \cup {u.snapshot}
                IN  [t EXCEPT !.searching = FALSE, !.cached = CHOOSE kept \in Trim(c, t) : TRUE]

PollVersions(s, u) ==
  LET t == [s EXCEPT !.fetching = FALSE,
                     !.known = [e \in DOMAIN @ \cup {u.of} |-> IF e = u.of THEN u.found ELSE @[e]]]
  IN  IF s.detail = u.of THEN [t EXCEPT !.shownOf = u.of, !.shown = u.found] ELSE t

(* Mutant: an install does not make the manifest be read again.              *)
PollQuietInstall(s, ok) == [s EXCEPT !.downloading = FALSE, !.current = Nothing]
PollInstall(s, ok) ==
  [s EXCEPT !.downloading = FALSE, !.current = Nothing, !.dirty = @ \/ ok]

PollRead(s, m) == [s EXCEPT !.manifest = m, !.dirty = FALSE, !.reading = FALSE]

PollCatalog(s) == IF mail.catalog = "none" THEN s ELSE [s EXCEPT !.catalog = mail.catalog]

(* An identified file is opened like an entry another screen asks for.       *)
PollFile(w) ==
  IF mail.file = Nothing THEN w
  ELSE LET t == [w EXCEPT !.b.identifying = FALSE]
       IN  IF mail.file.found = Nothing THEN t ELSE OpenDetail(t, mail.file.found)

(* tick: the polls, then the instance, then what is to be started; the      *)
(* manifest is polled last.  The screen is shown for instance i; the first n *)
(* messages of the searches have arrived.                                    *)
Tick(i, n) ==
  LET polled == PollCatalog(FoldLeft(PollInstall, FoldLeft(PollVersions,
                   FoldLeft(PollSearch, b, SubSeq(mail.search, 1, n)), mail.versions), mail.install))
      read == PollFile([b |-> polled, work |-> work])
      started == StartQueued(OpenPending(RequestCatalog([read EXCEPT !.b = EnsureInstance(@, i)]), open))
      loaded == [started EXCEPT !.b = FoldLeft(PollRead, @, mail.read)]
  IN  /\ i # b.inst => ops < MaxOps
      /\ ops' = IF i = b.inst THEN ops ELSE ops + 1
      /\ \E w \in Browse(loaded) : b' = w.b /\ work' = w.work
      /\ switched' = (switched \/ (i # b.inst /\ (work.install # {} \/ polled.reading)))
      /\ mail' = [mail EXCEPT !.search = SubSeq(@, n + 1, Len(@)), !.versions = <<>>, !.install = <<>>, !.read = <<>>,
                              !.catalog = "none", !.file = Nothing]
      /\ open' = Nothing
      /\ UNCHANGED <<disk, faults, raced>>

(* What the user does with the shown screen.                                *)
Acts(w) == /\ b.inst # Nothing /\ ops < MaxOps /\ ops' = ops + 1
           /\ b' = w.b /\ work' = w.work
           /\ UNCHANGED <<mail, disk, open, faults, switched, raced>>
Here == [b |-> b, work |-> work]

ApplyControls(scope) ==
  b.view = "browse" /\ scope # b.scope /\ \E w \in RequestForFilters([Here EXCEPT !.b.scope = scope], TRUE) : Acts(w)
Submit == b.view = "browse" /\ ~b.searching /\ \E w \in RequestForFilters(Here, TRUE) : Acts(w)
(* "Go" takes any page, so what "Next" allows is no matter.                  *)
GoToPage(page) ==
  /\ b.view = "browse" /\ ~b.searching /\ page # b.page
  /\ \E w \in RequestForFilters([Here EXCEPT !.b.page = page], FALSE) : Acts(w)
Listed == {x.entry : x \in b.results.entries}
Installed == IF b.manifest = Nothing THEN {} ELSE b.manifest.has
QuickInstall(e) ==
  /\ b.view = "browse" /\ e \in Listed \ Installed /\ e # b.current
  /\ Acts([Here EXCEPT !.b.queue = Append(@, [entry |-> e, asked |-> b.inst, inst |-> Nothing])])
OpenTile(e) == b.view = "browse" /\ e \in Listed /\ Acts(OpenDetail(Here, e))
Detail == b.view = "detail" /\ LoadManifest(RequestVersions(Here)) # Here
          /\ LET w == LoadManifest(RequestVersions(Here))
             IN  b' = w.b /\ work' = w.work /\ UNCHANGED <<mail, disk, open, ops, faults, switched, raced>>
QueueVersion ==
  /\ b.view = "detail" /\ b.shown \notin {Nothing, "error"}
  /\ Acts([Here EXCEPT !.b.queue = Append(@, [entry |-> b.shown, asked |-> b.inst, inst |-> Nothing])])
BackToBrowse == b.view = "detail" /\ Acts([Here EXCEPT !.b.view = "browse"])
Identify ==
  /\ ~b.identifying /\ work.file = Nothing
  /\ \E e \in Entries : Acts([b |-> [b EXCEPT !.identifying = TRUE], work |-> [work EXCEPT !.file = e]])
OpenFromElsewhere(e) ==
  /\ ops < MaxOps /\ ops' = ops + 1 /\ open' = e
  /\ UNCHANGED <<b, work, mail, disk, faults, switched, raced>>

-----------------------------------------------------------------------------
(* Workers.                                                                *)
Quiet == UNCHANGED <<b, open, ops, switched>>

(* resolve_curseforge_class_ids_cached: what the first discovery found, a    *)
(* failed one included, is kept for the session; mods have a default class.  *)
Classes(discovered) ==
  IF disk.classes # Nothing THEN disk.classes ELSE IF discovered THEN Kinds ELSE {"mod"}

Answers(p, e, up, classes) == p \in up /\ (p = "curseforge" => e \in CurseForge /\ Kind(e) \in classes)

(* Two providers' entries of one name are one entry with two sources; page   *)
(* two is empty, for the shown instances have few entries.                   *)
Dedupe(found) == {[entry |-> x[1], sources |-> {y[2] : y \in {z \in found : z[1] = x[1]}}] : x \in found}

Snapshot(r, n, up, classes) ==
  [of |-> r, done |-> n,
   entries |-> Dedupe(IF r.page > 1 THEN {} ELSE
     {x \in Entries \X Providers : /\ \E k \in 1 .. n : Tasks(r)[k] = Kind(x[1])
                                   /\ Answers(x[2], x[1], up, classes)})]

(* Every task is joined before the first snapshot is sent.                   *)
RunSearch(x, up, discovered) ==
  LET r == x[1]
      classes == Classes(discovered)
  IN  /\ disk.classes # Nothing => discovered
      /\ Fault(Cardinality(Providers \ up) + (IF discovered THEN 0 ELSE 1))
      /\ disk' = [disk EXCEPT !.classes = classes]
      /\ work' = [work EXCEPT !.search = @ \ {x}]
      /\ mail' = [mail EXCEPT !.search = @ \o [k \in 1 .. Len(Tasks(r)) |->
                    [of |-> r, failed |-> FALSE, snapshot |-> Snapshot(r, k, up, classes)]]]
      /\ UNCHANGED raced /\ Quiet
SearchPanics(x) ==
  /\ Fault(1)
  /\ work' = [work EXCEPT !.search = @ \ {x}]
  /\ mail' = [mail EXCEPT !.search = Append(@, [of |-> x[1], failed |-> TRUE])]
  /\ UNCHANGED <<disk, raced>> /\ Quiet

(* Both providers must answer: fetch_versions_for_entry, its panic and its   *)
(* timeout end in one error.  The version that is shown stands for the list. *)
FetchVersions(x, ok) ==
  /\ Fault(IF ok THEN 0 ELSE 1)
  /\ work' = [work EXCEPT !.versions = @ \ {x}]
  /\ mail' = [mail EXCEPT !.versions = Append(@, [of |-> x[1], found |-> IF ok THEN x[1] ELSE "error"])]
  /\ UNCHANGED <<disk, raced>> /\ Quiet

Install(x, ok) ==
  /\ Fault(IF ok THEN 0 ELSE 1)
  /\ work' = [work EXCEPT !.install = @ \ {x}]
  /\ disk' = IF ok THEN [disk EXCEPT !.manifest[x[1].inst] = @ \cup {x[1].entry}] ELSE disk
  /\ mail' = [mail EXCEPT !.install = Append(@, ok)]
  /\ raced' = (raced \/ (ok /\ b.reading))
  /\ Quiet

ReadManifest(x) ==
  /\ work' = [work EXCEPT !.read = @ \ {x}]
  /\ mail' = [mail EXCEPT !.read = Append(@, [of |-> x[1], has |-> disk.manifest[x[1]]])]
  /\ UNCHANGED <<disk, faults, raced>> /\ Quiet

FetchCatalog(ok) ==
  /\ work.catalog /\ Fault(IF ok THEN 0 ELSE 1)
  /\ work' = [work EXCEPT !.catalog = FALSE]
  /\ mail' = [mail EXCEPT !.catalog = IF ok THEN "loaded" ELSE "error"]
  /\ UNCHANGED <<disk, raced>> /\ Quiet

IdentifyFile(ok) ==
  /\ work.file # Nothing /\ Fault(IF ok THEN 0 ELSE 1)
  /\ work' = [work EXCEPT !.file = Nothing]
  /\ mail' = [mail EXCEPT !.file = [found |-> IF ok THEN work.file ELSE Nothing]]
  /\ UNCHANGED <<disk, raced>> /\ Quiet

Next ==
  \/ \E i \in Instances : \E n \in 0 .. Len(mail.search) : Tick(i, n)
  \/ \E scope \in Scopes : ApplyControls(scope)
  \/ Submit \/ (\E page \in 1 .. 2 : GoToPage(page)) \/ Detail \/ QueueVersion \/ BackToBrowse \/ Identify
  \/ \E e \in Entries : QuickInstall(e) \/ OpenTile(e) \/ OpenFromElsewhere(e)
  \/ \E x \in work.search : SearchPanics(x) \/ \E up \in SUBSET Providers, d \in BOOLEAN : RunSearch(x, up, d)
  \/ \E x \in work.versions, ok \in BOOLEAN : FetchVersions(x, ok)
  \/ \E x \in work.install, ok \in BOOLEAN : Install(x, ok)
  \/ \E x \in work.read : ReadManifest(x)
  \/ \E ok \in BOOLEAN : FetchCatalog(ok) \/ IdentifyFile(ok)

Spec == Init /\ [][Next]_vars

-----------------------------------------------------------------------------
Found == Entries \cup {Nothing, "error"}
Asked(x, workers, letters) == x \in {y[1] : y \in workers} \/ x \in {u.of : u \in Range(letters)}

BrowserTypeOK ==
  /\ b.inst \in Instances \cup {Nothing} /\ b.scope \in Scopes /\ b.page \in 1 .. 2
  /\ b.active \in Requests \cup {Nothing} /\ b.shown \in Found /\ b.shownOf \in Entries \cup {Nothing}
  /\ b.catalog \in {"none", "asked", "loaded", "error"}
  /\ \A c \in b.cached : c.of \in Requests
  /\ b.manifest = Nothing \/ b.manifest.has \subseteq Entries
  /\ ops \in 0 .. MaxOps /\ faults \in 0 .. MaxFaults

(* SearchIsTrue: the listed results are those of the request that is active,  *)
(* which is one of the shown instance, whatever searches of other instances   *)
(* and other dropdowns still run; a search that is not "in flight" and did    *)
(* not fail is complete, no cached result is partial or of another request,   *)
(* and while one is in flight its answer is under way, so that the screen     *)
(* never waits in vain (request_search, poll_search, ensure_instance).        *)
ResultsAreAsked ==
  /\ b.results.of \in {Nothing, b.active}
  /\ b.active # Nothing => b.active.inst = b.inst
Complete(c) == c.done = Len(Tasks(c.of))
SearchIsTrue ==
  /\ ResultsAreAsked
  /\ \A c \in b.cached : Complete(c)
  /\ b.searching => Asked(b.active, work.search, mail.search)
  /\ (~b.searching /\ b.results.of # Nothing /\ faults = 0) =>
       Complete(b.results) \/ Asked(b.active, {}, mail.search)
  /\ (b.results.of # Nothing /\ Complete(b.results) /\ faults = 0 /\ b.results.of.page = 1) =>
       {x.entry : x \in b.results.entries} = {e \in Entries : Includes(b.results.of.scope, Kind(e))}
  /\ Cardinality(b.cached) =< CacheLimit

(* DetailIsTrue: the versions on a project's page are that project's, though  *)
(* those of others arrive while it is open, what is remembered of a project   *)
(* is its own, and a page that waits has a lookup of its own under way        *)
(* (request_detail_versions, poll_detail_versions, open_detail_page).         *)
DetailIsTrue ==
  /\ b.shown # Nothing => b.shownOf = b.detail /\ b.shown \in {b.detail, "error"}
  /\ \A e \in DOMAIN b.known : b.known[e] \in {e, "error"}
  /\ b.fetching => Asked(b.detail, work.versions, mail.versions)

(* InstallsGoHome: what is queued in one instance is never installed in       *)
(* another; and unless the instance was changed meanwhile, one install runs   *)
(* at a time, the screen knows of it, and the entry it names is marked.       *)
InstallsGoHome ==
  /\ \A x \in work.install : x[1].asked = x[1].inst
  /\ \A k \in 1 .. Len(b.queue) : b.queue[k].asked = b.inst
  /\ ~switched => /\ Cardinality(work.install) + Len(mail.install) = (IF b.downloading THEN 1 ELSE 0)
                  /\ \A x \in work.install : x[1].entry = b.current
                  /\ b.reading <=> work.read # {} \/ mail.read # <<>>

(* MarksAreCurrent: once nothing is under way, the "installed" marks are what *)
(* the manifest on disk says ("Loading the manifest in the background keeps   *)
(* "installed" marks current").  Not so after an install that wrote while the *)
(* manifest was being read (`raced`), or a change of instance during either   *)
(* (`switched`): the read clears the mark that it must be read again.         *)
Settled == work.install = {} /\ mail.install = <<>> /\ ~b.reading /\ ~b.dirty /\ b.manifest # Nothing
MarksAreCurrent == Settled /\ ~raced /\ ~switched => b.manifest.has = disk.manifest[b.inst]
=============================================================================
