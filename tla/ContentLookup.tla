---------------------------- MODULE ContentLookup ----------------------------
(***************************************************************************)
(* What the instance screen knows of the files it lists: lookups by hash,   *)
(* by the manifest and by name (content_resolver), the batches of them that *)
(* run in the background (launcher_ui/screens/instance/content_updates,     *)
(* content_metadata_lookup), the cache of answers and its file              *)
(* (content_hash_cache), and what an update or a refresh throws away.       *)
(*                                                                         *)
(* Of a file only the version in it matters, of an answer the version it    *)
(* names, the one it offers and how it was found.  `down` is the call that  *)
(* fails while a batch runs; the clients answer all others truthfully.      *)
(***************************************************************************)
EXTENDS Naturals, FiniteSets

CONSTANTS Nothing, Miss, \* model values: no value; an answer that there is none
          Files,      \* the listed files, each of another project
          CurseForge, \* those whose manifest entry is CurseForge's
          Managed,    \* those that are in the manifest
          Packed,     \* those the modpack manages: the manifest offers no update
          Hashed,     \* those whose every version Modrinth knows by hash
          MaxOps,     \* updates and refreshes
          MaxFaults,  \* failed calls, failed writes and workers that panic
          MaxSerial   \* lookups asked for

VARIABLES file,      \* the version on disk
          scan,      \* the scans that run, with their generation and what they read
          gen,       \* scan_generation
          listed,    \* files_by_tab: the manifest's version of each, or Nothing
          cache,     \* content_hash_cache, or Nothing before it is loaded
          rows,      \* content_metadata_cache: lookup key to answer or Miss
          wait,      \* content_lookup_in_flight
          newest,    \* content_lookup_latest_serial_by_key
          later,     \* keys whose content_lookup_retry_after lies ahead
          serial,    \* content_lookup_request_serial
          batches,   \* lookups that run, or are answered and not polled
          load,      \* the load of the cache: "no", "asked" or what it read
          dirty, rev, saving,   \* content_hash_cache_dirty, _serial, _save_in_flight
          saves, clears, stored, \* writes and deletes under way; the cache's file
          apply,     \* the update that runs: Nothing, or its files and focus
          seen,      \* calls the session's caches hold the answer of
          ops, faults, \* bounds
          kept,      \* history: rows an update of their own file kept
          crossed,   \* history: a save was under way when the cache was cleared
          orphans    \* history: lookups of workers that panicked

rowVars == <<rows, wait, newest, later, serial>>
cacheVars == <<cache, dirty, rev, saving>>
diskVars == <<saves, clears, stored>>
vars == <<file, scan, gen, listed, rowVars, cacheVars, diskVars, batches, load, apply, seen,
          ops, faults, kept, crossed, orphans>>

Latest == 2
Versions == 1 .. Latest
Calls == {"sha512", "sha1", "project", "version", "latest", "search"}
Algorithms == {"sha512", "sha1"}
Keys == (Algorithms \X Files \X Versions) \cup {<<"name", f>> : f \in Files}
Answer(by, v, new) == [by |-> by, v |-> v, new |-> new]
Offer(v, ok) == IF ok /\ v # Latest THEN Latest ELSE 0

(* apply_updates: the second map wins.                                       *)
Applied(c, new) == [k \in DOMAIN c \cup DOMAIN new |-> IF k \in DOMAIN new THEN new[k] ELSE c[k]]
Has(c, k) == k \in DOMAIN c
Hit(c, k) == Has(c, k) /\ c[k] # Miss
Both(f, a) == [k \in {<<alg, f, file[f]>> : alg \in Algorithms} |-> a]

(* What a call brings: the session's caches answer it again without asking.  *)
Up(call, f, down) == down # call \/ <<call, f>> \in seen
Asked(fs, down) == {<<call, f>> : call \in {"project", "version", "latest"} \ {down}, f \in fs}

-----------------------------------------------------------------------------
(* prefetch_modrinth_hash_updates: answers the cache has get a fresh offer;  *)
(* the others are looked up by SHA-512 and, where that says nothing, by      *)
(* SHA-1; what that does not know either is remembered as a miss.            *)
ByHash(f, c, down) ==
  LET v == file[f]
      known(alg) == down # alg /\ f \in Hashed /\ down # "project"
      fresh == Answer("hash", v, Offer(v, down # "latest"))
      hit == CHOOSE a \in {c[<<alg, f, v>>] : alg \in {alg \in Algorithms : Hit(c, <<alg, f, v>>)}} : TRUE
      none == [pre |-> Nothing, c |-> <<>>]
  IN  IF \E alg \in Algorithms : Hit(c, <<alg, f, v>>)
      THEN [pre |-> Answer("hash", hit.v, Offer(hit.v, down # "latest")), c |-> <<>>]
      ELSE IF \A alg \in Algorithms : Has(c, <<alg, f, v>>) THEN [none EXCEPT !.c = Both(f, Miss)]
      ELSE IF (~Has(c, <<"sha512", f, v>>) /\ known("sha512")) \/ known("sha1")
      THEN [pre |-> fresh, c |-> Both(f, Answer("hash", v, 0))]
      ELSE IF down = "sha1" THEN none ELSE [none EXCEPT !.c = Both(f, Miss)]

(* prefetch_managed_modrinth_updates: what the manifest says is believed     *)
(* while the provider's version has a file of that name.                     *)
ByModrinthManifest(f, had, down) ==
  IF f \in Managed \ (CurseForge \cup Packed) /\ had = file[f] /\ down \notin {"version", "project"}
  THEN Answer("managed", had, Offer(had, down # "latest")) ELSE Nothing

(* prefetch_managed_curseforge_updates: all or nothing.                      *)
ByCurseForgeManifest(f, had, down) ==
  IF f \in CurseForge \ Packed /\ had = file[f] /\ down \notin {"version", "project", "latest"}
  THEN Answer("managed", had, Offer(had, TRUE)) ELSE Nothing

(* resolve_modrinth_hash_metadata, of one file.                              *)
ResolveHash(f, c, down) ==
  LET v == file[f]
      key(alg) == <<alg, f, v>>
      fresh == Answer("hash", v, Offer(v, down # "latest"))
      found(alg) == ~Has(c, key(alg)) /\ down # alg /\ f \in Hashed /\ Up("project", f, down)
      transient == \E alg \in Algorithms : ~Has(c, key(alg)) /\ down = alg
  IN  CASE \E alg \in Algorithms : Hit(c, key(alg)) -> [a |-> fresh, c |-> <<>>]
        [] \E alg \in Algorithms : found(alg) -> [a |-> fresh, c |-> Both(f, Answer("hash", v, 0))]
        [] transient -> [a |-> Nothing, c |-> <<>>]
        [] OTHER -> [a |-> Nothing, c |-> Both(f, Miss)]

(* managed_content_metadata                                                  *)
ResolveManaged(f, had, down) ==
  IF f \in Managed /\ had = file[f] /\ Up("version", f, down) /\ Up("project", f, down)
  THEN Answer("managed", had, Offer(had, f \notin Packed /\ Up("latest", f, down))) ELSE Nothing

(* resolve_lookup_cache_metadata, heuristic_content_metadata                 *)
ResolveName(f, c, down) ==
  IF Hit(c, <<"name", f>>) \/ (f \in Hashed /\ down # "search") THEN Answer("search", 0, 0) ELSE Nothing

(* InstalledContentResolver::resolve: by hash, by the manifest, by the names *)
(* learnt from those, by a search.                                           *)
Resolve(f, c, had, down) ==
  LET hash == ResolveHash(f, c, down)
      managed == ResolveManaged(f, had, down)
      sure == IF hash.a # Nothing THEN hash.a ELSE managed
      name == IF sure = Nothing THEN <<>> ELSE [k \in {<<"name", f>>} |-> Answer("search", 0, 0)]
  IN  [a |-> IF sure # Nothing THEN sure ELSE ResolveName(f, c, down), c |-> Applied(hash.c, name)]

(* resolve_installed_content_metadata_batch, of one of its files: no two     *)
(* share an entry of the cache.                                              *)
Resolved(f, c, had, down) ==
  LET hash == ByHash(f, c, down)
      early == IF hash.pre # Nothing THEN hash.pre
               ELSE IF ByModrinthManifest(f, had, down) # Nothing THEN ByModrinthManifest(f, had, down)
               ELSE ByCurseForgeManifest(f, had, down)
      late == Resolve(f, Applied(c, hash.c), had, down)
  IN  IF early # Nothing THEN [a |-> early, c |-> hash.c]
      ELSE [a |-> late.a, c |-> Applied(hash.c, late.c)]

(* hash_cache_diff_updates                                                   *)
Changed(c, new) == [k \in {k \in DOMAIN new : ~Has(c, k) \/ c[k] # new[k]} |-> new[k]]

-----------------------------------------------------------------------------
Updates == [files : SUBSET Files, focus : SUBSET Files, at : {"run", "ok", "failed"}]
Learnt == [by : {"hash", "search"}, v : 0 .. Latest, new : 0 .. Latest] \cup {Miss}

TypeOK ==
  /\ file \in [Files -> Versions] /\ listed \in {Nothing} \cup [Files -> 0 .. Latest]
  /\ cache = Nothing \/ DOMAIN cache \subseteq Keys
  /\ stored = Nothing \/ DOMAIN stored \subseteq Keys
  /\ DOMAIN rows \subseteq Files /\ wait \subseteq DOMAIN newest /\ later \subseteq Files
  /\ \A b \in batches : DOMAIN b.had \subseteq Files /\ b.serial <= serial
  /\ apply \in {Nothing} \cup Updates /\ (cache = Nothing \/ \A k \in DOMAIN cache : cache[k] \in Learnt)
  /\ {dirty, saving, crossed} \subseteq BOOLEAN /\ kept \subseteq Files

Init ==
  /\ file = [f \in Files |-> 1] /\ scan = {} /\ gen = 0 /\ listed = Nothing
  /\ cache = Nothing /\ dirty = FALSE /\ rev = 0 /\ saving = FALSE
  /\ rows = <<>> /\ wait = {} /\ newest = <<>> /\ later = {} /\ serial = 0
  /\ batches = {} /\ load = "no" /\ saves = {} /\ clears = 0 /\ stored = Nothing
  /\ apply = Nothing /\ seen = {} /\ ops = 0 /\ faults = 0
  /\ kept = {} /\ crossed = FALSE /\ orphans = {}

Fault == faults < MaxFaults /\ faults' = faults + 1

(* request_installed_content_scan and its worker.                            *)
RequestScan ==
  /\ listed = Nothing /\ ~\E s \in scan : s.gen = gen
  /\ scan' = scan \cup {[gen |-> gen, read |-> Nothing]}
  /\ UNCHANGED <<file, gen, listed, rowVars, cacheVars, diskVars, batches, load, apply, seen, ops, faults,
                 kept, crossed, orphans>>
ReadScan(s) ==
  /\ s.read = Nothing
  /\ scan' = (scan \ {s}) \cup {[s EXCEPT !.read = [f \in Files |-> IF f \in Managed THEN file[f] ELSE 0]]}
  /\ UNCHANGED <<file, gen, listed, rowVars, cacheVars, diskVars, batches, load, apply, seen, ops, faults,
                 kept, crossed, orphans>>
(* poll_installed_content_scan_results                                       *)
PollScan(s) ==
  /\ s.read # Nothing /\ scan' = scan \ {s}
  /\ listed' = IF s.gen = gen THEN s.read ELSE listed
  /\ UNCHANGED <<file, gen, rowVars, cacheVars, diskVars, batches, load, apply, seen, ops, faults,
                 kept, crossed, orphans>>

-----------------------------------------------------------------------------
(* should_request_content_metadata_lookup                                    *)
ShouldRequest(f) == f \notin wait /\ ~(f \in DOMAIN rows /\ rows[f] # Miss) /\ f \notin later

(* request_content_metadata_lookup_batch, for what the page shows.           *)
Request ==
  /\ listed # Nothing /\ cache # Nothing /\ serial < MaxSerial
  /\ LET fs == {f \in Files : ShouldRequest(f)} IN
     /\ fs # {}
     /\ wait' = wait \cup fs /\ serial' = serial + 1
     /\ newest' = Applied(newest, [f \in fs |-> serial + 1])
     /\ batches' = batches \cup {[serial |-> serial + 1, had |-> [f \in fs |-> listed[f]], c |-> cache,
                                   done |-> FALSE, res |-> <<>>, new |-> <<>>]}
  /\ UNCHANGED <<file, scan, gen, listed, cacheVars, diskVars, rows, later, load, apply, seen, ops, faults,
                 kept, crossed, orphans>>

(* Its worker; one that panics answers nothing.                              *)
Work(b, down) ==
  /\ b \in batches /\ ~b.done
  /\ IF down = "none" THEN UNCHANGED faults ELSE Fault
  /\ LET fs == DOMAIN b.had
         r == [f \in fs |-> Resolved(f, b.c, b.had[f], down)]
         all == [k \in UNION {DOMAIN r[f].c : f \in fs} |->
                   r[CHOOSE f \in fs : k \in DOMAIN r[f].c].c[k]]
     IN  /\ batches' = (batches \ {b}) \cup {[b EXCEPT !.done = TRUE, !.res = [f \in fs |-> r[f].a],
                                              !.new = Changed(b.c, all)]}
         /\ seen' = seen \cup Asked({f \in fs : r[f].a # Nothing /\ r[f].a.by # "search"}, down)
  /\ UNCHANGED <<file, scan, gen, listed, rowVars, cacheVars, diskVars, load, apply, ops, kept, crossed, orphans>>
Panic(b) ==
  /\ b \in batches /\ ~b.done /\ Fault
  /\ batches' = batches \ {b} /\ orphans' = orphans \cup {<<f, b.serial>> : f \in DOMAIN b.had}
  /\ UNCHANGED <<file, scan, gen, listed, rowVars, cacheVars, diskVars, load, apply, seen, ops, kept, crossed>>

(* Mutant: whichever answer comes last is shown. *)
AnyIsLatest(b, f) == TRUE

IsLatest(b, f) == f \in DOMAIN newest /\ newest[f] = b.serial

(* poll_content_lookup_results: what was learnt is always kept, an answer    *)
(* only if nothing newer was asked; a row without one is asked for again     *)
(* after a delay.                                                            *)
Poll(b) ==
  /\ b.done /\ batches' = batches \ {b}
  /\ LET old == IF cache = Nothing THEN <<>> ELSE cache
         mine == {f \in DOMAIN b.res : IsLatest(b, f)}
         found == {f \in mine : b.res[f] # Nothing}
     IN  /\ cache' = Applied(old, b.new)
         /\ IF Changed(old, b.new) = <<>> THEN UNCHANGED <<dirty, rev>> ELSE dirty' = TRUE /\ rev' = rev + 1
         /\ wait' = wait \ mine
         /\ later' = (later \ found) \cup (mine \ found)
         /\ rows' = Applied([f \in (mine \ found) |-> Miss], Applied(rows, [f \in found |-> b.res[f]]))
  /\ UNCHANGED <<file, scan, gen, listed, saving, diskVars, newest, serial, load, apply, seen, ops, faults,
                 kept, crossed, orphans>>

(* content_lookup_retry_delay has passed. *)
Elapse(f) ==
  /\ f \in later /\ later' = later \ {f}
  /\ UNCHANGED <<file, scan, gen, listed, cacheVars, diskVars, rows, wait, newest, serial, batches, load, apply,
                 seen, ops, faults, kept, crossed, orphans>>

-----------------------------------------------------------------------------
(* ensure_content_hash_cache_loaded, its worker and its poll: a cache that   *)
(* appeared meanwhile stays.                                                 *)
Load ==
  /\ cache = Nothing /\ load = "no" /\ load' = "asked"
  /\ UNCHANGED <<file, scan, gen, listed, rowVars, cacheVars, diskVars, batches, apply, seen, ops, faults,
                 kept, crossed, orphans>>
PollLoad ==
  /\ load = "asked" /\ load' = "no"
  /\ cache' = IF cache # Nothing THEN cache ELSE IF stored = Nothing THEN <<>> ELSE stored
  /\ UNCHANGED <<file, scan, gen, listed, rowVars, dirty, rev, saving, diskVars, batches, apply, seen, ops,
                 faults, kept, crossed, orphans>>

(* flush_content_hash_cache, once the cache has been quiet for a while.      *)
Flush ==
  /\ dirty /\ ~saving /\ cache # Nothing
  /\ saving' = TRUE /\ saves' = saves \cup {[rev |-> rev, c |-> cache, at |-> "write"]}
  /\ UNCHANGED <<file, scan, gen, listed, rowVars, cache, dirty, rev, clears, stored, batches, load, apply, seen,
                 ops, faults, kept, crossed, orphans>>
WriteCache(s) ==
  /\ s.at = "write"
  /\ \/ stored' = s.c /\ saves' = (saves \ {s}) \cup {[s EXCEPT !.at = "ok"]} /\ UNCHANGED faults
     \/ Fault /\ saves' = (saves \ {s}) \cup {[s EXCEPT !.at = "failed"]} /\ UNCHANGED stored
  /\ UNCHANGED <<file, scan, gen, listed, rowVars, cacheVars, clears, batches, load, apply, seen, ops,
                 kept, crossed, orphans>>

(* Mutant: a save that ends clears the mark whatever changed meanwhile. *)
CleanAlways(s) == FALSE

StillDirty(s) == dirty /\ ~(s.at = "ok" /\ s.rev = rev)
(* poll_content_hash_cache_save_results                                      *)
PollSave(s) ==
  /\ s.at # "write" /\ saves' = saves \ {s}
  /\ saving' = FALSE /\ dirty' = StillDirty(s)
  /\ UNCHANGED <<file, scan, gen, listed, rowVars, cache, rev, clears, stored, batches, load, apply, seen, ops,
                 faults, kept, crossed, orphans>>

(* clear_content_hash_cache: the file goes in the background.                *)
ClearCache ==
  /\ cache' = <<>> /\ dirty' = FALSE /\ rev' = rev + 1 /\ saving' = FALSE /\ load' = "no"
  /\ clears' = clears + 1 /\ crossed' = (crossed \/ saves # {})
ClearDisk ==
  /\ clears > 0 /\ clears' = clears - 1 /\ stored' = Nothing
  /\ crossed' = (crossed \/ dirty \/ saves # {} \/ clears > 1 \/ cache # <<>>)
  /\ UNCHANGED <<file, scan, gen, listed, rowVars, cacheVars, saves, batches, load, apply, seen, ops, faults,
                 kept, orphans>>

-----------------------------------------------------------------------------
(* refresh_installed_content_state                                           *)
Refresh ==
  /\ ops < MaxOps /\ ops' = ops + 1
  /\ listed' = Nothing /\ gen' = gen + 1
  /\ rows' = <<>> /\ wait' = {} /\ newest' = <<>> /\ later' = {} /\ kept' = {}
  /\ ClearCache
  /\ UNCHANGED <<file, scan, serial, saves, stored, batches, apply, seen, faults, orphans>>

(* An update of one row or of all: ContentInstall has what it does to the    *)
(* files.  One runs at a time.                                               *)
Update(fs, focus) ==
  /\ ops < MaxOps /\ ops' = ops + 1 /\ apply = Nothing
  /\ \E f \in fs : f \in DOMAIN rows /\ rows[f] # Miss /\ rows[f].new # 0
  /\ apply' = [files |-> fs, focus |-> focus, at |-> "run"]
  /\ UNCHANGED <<file, scan, gen, listed, rowVars, cacheVars, diskVars, batches, load, seen, faults,
                 kept, crossed, orphans>>
Updated ==
  /\ apply # Nothing /\ apply.at = "run"
  /\ \/ /\ file' = [f \in Files |-> IF f \in apply.files THEN Latest ELSE file[f]]
        /\ apply' = [apply EXCEPT !.at = "ok"] /\ UNCHANGED faults
     \/ Fault /\ apply' = [apply EXCEPT !.at = "failed"] /\ UNCHANGED file
  /\ UNCHANGED <<scan, gen, listed, rowVars, cacheVars, diskVars, batches, load, seen, ops, kept, crossed, orphans>>

(* refresh_cached_metadata_after_apply: all rows but the one in focus.       *)
Forget(keep) ==
  /\ rows' = [f \in DOMAIN rows \cap keep |-> rows[f]]
  /\ wait' = wait \cap keep
  /\ newest' = [f \in DOMAIN newest \cap keep |-> newest[f]]
  /\ later' = later \cap keep

(* poll_content_apply_results                                                *)
PollApply ==
  /\ apply # Nothing /\ apply.at # "run" /\ apply' = Nothing
  /\ IF apply.at = "failed" THEN UNCHANGED <<scan, gen, listed, rowVars, kept>>
     ELSE /\ listed' = Nothing /\ gen' = gen + 1
          /\ scan' = scan \cup {[gen |-> gen + 1, read |-> Nothing]}
          /\ Forget(apply.focus) /\ UNCHANGED serial
          /\ kept' = kept \cup (apply.focus \cap (DOMAIN rows \cup wait))
  /\ UNCHANGED <<file, cacheVars, diskVars, batches, load, seen, ops, faults, crossed, orphans>>

Next ==
  \/ RequestScan \/ Request \/ Load \/ PollLoad \/ Flush \/ ClearDisk \/ Refresh \/ Updated \/ PollApply
  \/ \E s \in scan : ReadScan(s) \/ PollScan(s)
  \/ \E b \in batches : Poll(b) \/ Panic(b) \/ \E down \in Calls \cup {"none"} : Work(b, down)
  \/ \E f \in Files : Elapse(f) \/ Update({f}, {f})
  \/ Update(Files, {})
  \/ \E s \in saves : WriteCache(s) \/ PollSave(s)

Spec == Init /\ [][Next]_vars

-----------------------------------------------------------------------------
(* A row found by its hash or by the manifest names the version that is in   *)
(* the file: an answer about a file that was replaced while it was looked    *)
(* for is not shown.  Between an update and its result the old row shows;    *)
(* the row that was updated by itself is kept as it was (`kept`).            *)
RowsAreTrue ==
  apply = Nothing => \A f \in DOMAIN rows \ kept :
     rows[f] # Miss /\ rows[f].by # "search" => rows[f].v = file[f]

(* A row that waits is waited for: a lookup whose answer will be taken is    *)
(* under way, after every refresh and update, unless its worker panicked.    *)
NobodyWaitsInVain ==
  \A f \in wait : \/ \E b \in batches : f \in DOMAIN b.had /\ IsLatest(b, f)
                  \/ \E s \in 1 .. serial : <<f, s>> \in orphans /\ f \in DOMAIN newest /\ newest[f] = s

(* A cache that is not marked as changed is what its file holds, unless it   *)
(* was cleared while a save or a delete of the file was still under way.     *)
CacheIsSaved == (cache # Nothing /\ ~dirty /\ clears = 0 /\ ~crossed) => stored \in {cache, Nothing} /\ (stored = Nothing => cache = <<>>)

(* "Version 1 cached transient Modrinth failures as permanent misses"        *)
(* (installed_content_hash_cache.rs:29), so version 2 does not: what         *)
(* Modrinth knows is never recorded as unknown.                              *)
NoTransientMiss == cache # Nothing => \A k \in DOMAIN cache : k[2] \in Hashed => cache[k] # Miss
=============================================================================
