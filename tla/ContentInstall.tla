--------------------------- MODULE ContentInstall ---------------------------
(* The mods of one instance and the manifest that says what they are:        *)
(* managed_content's manifest_io, launcher_ui's content_browser_install (an  *)
(* install with its dependencies) and the workers of the instance screen     *)
(* (update one, update all, import, disable, delete, scan).  Each of them    *)
(* loads the manifest, works on the files and saves its own copy; nothing    *)
(* locks the manifest, the screen has one job at a time and the browser      *)
(* another, and the launcher may die between any two steps.                  *)
EXTENDS Naturals, Sequences, FiniteSets

CONSTANTS Projects, Paths, Versions,
          Name,       \* [Projects -> [Versions -> Paths]]: the file of a version
          Needs,      \* [Projects -> [Versions -> SUBSET Projects]]
          Initial,    \* the manifest at the start
          MaxOps, MaxFaults,
          None

Workers == {"browser", "screen", "scan"}
Latest == CHOOSE v \in Versions : \A w \in Versions : w <= v

VARIABLES
  file,       \* path -> the version that lies there, or None
  off,        \* path -> what lies there renamed to .DISABLED, or None
  backup,     \* the files renamed away while their replacement is fetched
  disk,       \* the manifest file: project -> entry, or None
  job,        \* worker -> what it is doing
  ops, faults,
  owned,      \* projects the user has, and has not deleted or switched since
  raced,      \* the browser and the screen both worked on the instance at once
  stale,      \* a scan saved what it had read before a job, or the launcher died
  byHand,     \* the user put a file in, or a disabled copy back over a new one
  complete,   \* projects installed with their dependencies, not updated alone since
  undone,     \* projects a failed install had replaced, or written half of
  unmet       \* a dependency could not be looked up, was deleted or disabled

vars == <<file, off, backup, disk, job, ops, faults, owned, raced, stale, byHand, complete, undone, unmet>>

File(p, v, whole) == [p |-> p, v |-> v, whole |-> whole]
Entry(v, explicit, deps) == [v |-> v, explicit |-> explicit, deps |-> deps]
Empty == [p \in Projects |-> None]
Idle == [at |-> "idle", p |-> None, v |-> 0, req |-> None, mem |-> Empty,
         stack |-> <<>>, seen |-> {}, left |-> {}, staged |-> {}, applied |-> FALSE, all |-> FALSE]

PathOf(man, p) == Name[p][man[p].v]

(* load_content_manifest and save_content_manifest drop an entry whose file  *)
(* is gone, and with it what others say of it.                               *)
Normal(man, f) ==
  LET live == {p \in Projects : man[p] # None /\ f[PathOf(man, p)] # None}
  IN  [p \in Projects |-> IF p \in live
                          THEN [man[p] EXCEPT !.deps = @ \cap (live \ {p})]
                          ELSE None]

(* Mutant: nobody is asked whether the project is still needed. *)
DependentsNone(man, p) == {}

Dependents(man, p) == {q \in Projects \ {p} : man[q] # None /\ p \in man[q].deps}

Without(man, p) ==
  [q \in Projects |-> IF q = p \/ man[q] = None THEN None
                      ELSE [man[q] EXCEPT !.deps = @ \ {p}]]

(* remove_installed_project: a dependency goes with its last dependent       *)
(* unless the user installed it.                                             *)
Dropped(man, todo) ==
  LET free(m, t) == {d \in t : m[d] # None /\ ~m[d].explicit /\ Dependents(m, d) = {}}
      after[n \in 0 .. Cardinality(Projects)] ==
        IF n = 0 THEN [man |-> man, todo |-> todo]
        ELSE LET s == after[n - 1]
                 d == CHOOSE d \in free(s.man, s.todo) : TRUE
             IN  IF free(s.man, s.todo) = {} THEN s
                 ELSE [man |-> Without(s.man, d), todo |-> (s.todo \ {d}) \cup s.man[d].deps]
  IN  after[Cardinality(Projects)].man

ForceRemoved(man, p) == Dropped(Without(man, p), man[p].deps)

(* The files that leave with the projects `after` no longer has.             *)
Cleared(f, before, after) ==
  LET gone == {PathOf(before, p) : p \in {p \in Projects : before[p] # None /\ after[p] = None}}
  IN  [r \in Paths |-> IF r \in gone THEN None ELSE f[r]]

(* A whole file of p is in place, disabled or renamed away.                  *)
Whole(p) == \/ \E r \in Paths : \E f \in {file[r], off[r]} : f # None /\ f.p = p /\ f.whole
            \/ \E b \in backup : b.is.p = p /\ b.is.whole

(* The variables have their types; an entry of the manifest depends only on  *)
(* other entries (normalize_content_manifest).                               *)
TypeOK ==
  /\ file \in [Paths -> {None} \cup [p : Projects, v : Versions, whole : BOOLEAN]]
  /\ off \in [Paths -> {None} \cup [p : Projects, v : Versions, whole : BOOLEAN]]
  /\ \A b \in backup : b.path \in Paths /\ b.by \in Workers \X (0 .. MaxOps)
  /\ \A p \in Projects : disk[p] # None =>
       disk[p].v \in Versions /\ disk[p].deps \subseteq {q \in Projects \ {p} : disk[q] # None}
  /\ owned \subseteq Projects
  /\ {raced, stale, byHand, unmet} \subseteq BOOLEAN
  /\ \A w \in Workers : Len(job[w].stack) <= Cardinality(Projects)

Init ==
  /\ disk = Initial
  /\ file = [r \in Paths |->
        LET at == {p \in Projects : Initial[p] # None /\ PathOf(Initial, p) = r}
        IN  IF at = {} THEN None ELSE LET p == CHOOSE p \in at : TRUE IN File(p, Initial[p].v, TRUE)]
  /\ off = [r \in Paths |-> None] /\ backup = {}
  /\ job = [w \in Workers |-> Idle]
  /\ ops = 0 /\ faults = 0
  /\ owned = {p \in Projects : Initial[p] # None}
  /\ raced = FALSE /\ stale = FALSE /\ byHand = FALSE /\ unmet = FALSE
  /\ complete = owned /\ undone = {}

-----------------------------------------------------------------------------
At(w, pc) == job[w].at = pc
Loaded == Normal(disk, file)
Busy(W) == \E w \in W : ~At(w, "idle")
Start(w) ==
  /\ At(w, "idle") /\ ops < MaxOps /\ ops' = ops + 1
  /\ raced' = (raced \/ (w # "scan" /\ Busy({"browser", "screen"})))
  /\ stale' = (stale \/ Busy(Workers))
Ends(w) == job' = [job EXCEPT ![w] = Idle]

(* stage_existing_file_for_update: only a file that the new one would        *)
(* overwrite is renamed away.                                                *)
Staged(w, old, new) ==
  IF old = new /\ old # None /\ file[old] # None
  THEN {[path |-> old, is |-> file[old], by |-> <<w, ops>>]} ELSE {}
Taken(staged) == [r \in Paths |-> IF \E b \in staged : b.path = r THEN None ELSE file[r]]

(* restore_staged_update_file                                                *)
Restored(f, staged) ==
  [r \in Paths |-> IF \E b \in staged \cap backup : b.path = r
                   THEN (CHOOSE b \in staged \cap backup : b.path = r).is ELSE f[r]]

(* install_project_recursive up to the download: a project that was visited  *)
(* or has this version already is left as it is.                             *)
Frame(p, v, root, old, staged) ==
  [p |-> p, v |-> v, root |-> root, old |-> old, staged |-> staged, placed |-> FALSE, todo |-> {}, deps |-> {}]
Enter(w, j, p, v, root) ==
  IF p \in j.seen \/ (j.mem[p] # None /\ j.mem[p].v = v)
  THEN /\ job' = [job EXCEPT ![w] = [j EXCEPT !.seen = @ \cup {p}]]
       /\ UNCHANGED <<file, backup>>
  ELSE LET old == j.mem[p]
           staged == IF old = None THEN {} ELSE Staged(w, PathOf(j.mem, p), Name[p][v])
       IN  /\ job' = [job EXCEPT ![w] = [j EXCEPT !.at = "frame", !.seen = @ \cup {p},
                                          !.stack = <<Frame(p, v, root, old, staged)>> \o @]]
           /\ backup' = backup \cup staged
           /\ file' = Taken(staged)

(* apply_content_install_request: the version there is marked as wanted, a   *)
(* version others need is not switched, any other is removed first, with the *)
(* dependencies nobody else needs.                                           *)
BeginInstall(w, p, v) ==
  /\ Start(w)
  /\ LET old == Loaded[p] IN
     \/ /\ old # None /\ old.v = v
        /\ disk' = [Loaded EXCEPT ![p].explicit = TRUE]
        /\ owned' = owned \cup {p}
        /\ UNCHANGED <<job, file, backup>>
     \/ /\ old # None /\ old.v # v /\ Dependents(Loaded, p) # {}
        /\ disk' = Loaded
        /\ UNCHANGED <<job, file, backup, owned>>
     \/ /\ old # None /\ old.v # v /\ Dependents(Loaded, p) = {}
        /\ LET mem == ForceRemoved(Loaded, p)
           IN  /\ job' = [job EXCEPT ![w] = [Idle EXCEPT !.at = "frame", !.p = p, !.mem = mem,
                              !.seen = {p}, !.stack = <<Frame(p, v, TRUE, None, {})>>]]
               /\ file' = Cleared(file, Loaded, mem)
               /\ owned' = {q \in owned : q = p \/ Loaded[q] = None \/ mem[q] # None} \ {p}
        /\ disk' = Loaded
        /\ UNCHANGED backup
     \/ /\ old = None
        /\ disk' = Loaded
        /\ Enter(w, [Idle EXCEPT !.p = p, !.mem = Loaded], p, v, TRUE)
        /\ UNCHANGED owned
  /\ UNCHANGED <<off, faults, byHand, complete, undone, unmet>>

Top(w) == Head(job[w].stack)
WithTop(w, fr) == [job[w] EXCEPT !.stack = <<fr>> \o Tail(@)]

(* Any error unwinds every frame; each puts back the file it renamed away    *)
(* and the manifest is not saved.                                            *)
Unwind(w, f) ==
  LET staged == UNION {job[w].stack[i].staged : i \in DOMAIN job[w].stack}
  IN  /\ file' = Restored(f, staged)
      /\ backup' = backup \ staged
      /\ undone' = undone \cup (job[w].seen \ {job[w].stack[i].p : i \in DOMAIN job[w].stack})
                        \cup (IF f = file THEN {} ELSE {Top(w).p})
      /\ Ends(w)

(* The file is fetched whole and then written in place, so a write that dies *)
(* leaves part of it; a file that is there and belongs to nobody is taken as *)
(* it is.  The dependencies are looked up next: those the provider does not  *)
(* answer for are left out.                                                  *)
Place(w) ==
  /\ At(w, "frame") /\ ~Top(w).placed
  /\ LET fr == Top(w)
         path == Name[fr.p][fr.v]
         fetch == fr.old # None \/ file[path] = None
         explicit == fr.root \/ (fr.old # None /\ fr.old.explicit)
         next(todo) == [WithTop(w, [fr EXCEPT !.placed = TRUE, !.todo = todo, !.deps = todo])
                          EXCEPT !.mem = [@ EXCEPT ![fr.p] = Entry(fr.v, explicit, {})]]
     IN  \/ /\ file' = IF fetch THEN [file EXCEPT ![path] = File(fr.p, fr.v, TRUE)] ELSE file
            /\ \/ job' = [job EXCEPT ![w] = next(Needs[fr.p][fr.v])] /\ UNCHANGED <<unmet, faults>>
               \/ /\ Needs[fr.p][fr.v] # {} /\ faults < MaxFaults /\ faults' = faults + 1
                  /\ job' = [job EXCEPT ![w] = next({})] /\ unmet' = TRUE
            /\ UNCHANGED <<backup, undone>>
         \/ /\ fetch /\ faults < MaxFaults /\ faults' = faults + 1
            /\ \/ Unwind(w, file)
               \/ Unwind(w, [file EXCEPT ![path] = File(fr.p, fr.v, FALSE)])
            /\ UNCHANGED unmet
  /\ UNCHANGED <<off, disk, ops, owned, raced, stale, byHand, complete>>

(* One dependency: no version for it is an error; otherwise the parent       *)
(* records it and it is installed in its newest version.                     *)
Depend(w, d) ==
  /\ At(w, "frame") /\ Top(w).placed /\ d \in Top(w).todo
  /\ LET fr == Top(w)
         j == [WithTop(w, [fr EXCEPT !.todo = @ \ {d}]) EXCEPT !.mem = [@ EXCEPT ![fr.p].deps = @ \cup {d}]]
     IN  \/ Enter(w, j, d, Latest, FALSE) /\ UNCHANGED <<faults, undone>>
         \/ faults < MaxFaults /\ faults' = faults + 1 /\ Unwind(w, file)
  /\ UNCHANGED <<off, disk, ops, owned, raced, stale, byHand, complete, unmet>>

(* All dependencies are there: the file this one replaced is removed, and    *)
(* the dependencies only the old version needed.                             *)
Finish(w) ==
  /\ At(w, "frame") /\ Top(w).placed /\ Top(w).todo = {}
  /\ LET fr == Top(w)
         mem == [job[w].mem EXCEPT ![fr.p].deps = fr.deps]
         new == IF fr.old = None THEN mem ELSE Dropped(mem, fr.old.deps \ fr.deps)
         last == IF fr.old = None \/ fr.staged # {} THEN None ELSE Name[fr.p][fr.old.v]
         f == [r \in Paths |-> IF r = last /\ r # Name[fr.p][fr.v] THEN None ELSE file[r]]
     IN  /\ file' = Cleared(f, mem, new)
         /\ backup' = backup \ fr.staged
         /\ job' = [job EXCEPT ![w] = [@ EXCEPT !.mem = new, !.stack = Tail(@),
                                        !.at = IF Len(job[w].stack) = 1 THEN "save" ELSE @]]
         /\ owned' = {q \in owned : mem[q] = None \/ new[q] # None}
  /\ UNCHANGED <<off, disk, ops, faults, raced, stale, byHand, complete, undone, unmet>>

Save(w) ==
  /\ At(w, "save")
  /\ disk' = Normal(job[w].mem, file)
  /\ owned' = owned \cup {p \in Projects : disk'[p] # None /\ file[PathOf(disk', p)].whole}
  /\ complete' = complete \cup job[w].seen
  /\ Ends(w)
  /\ UNCHANGED <<file, off, backup, ops, faults, raced, stale, byHand, undone, unmet>>

-----------------------------------------------------------------------------
(* update_installed_file_only: the manifest's file is the one to replace,    *)
(* another copy the user pointed at is an extra one.                         *)
Lie(j, p) == IF j.mem[p] # None THEN PathOf(j.mem, p) ELSE j.req
UpdateFrom(w, j, p, v, r) ==
  LET k == [j EXCEPT !.p = p, !.v = v, !.req = r, !.mem = Loaded]
      staged == Staged(w, Lie(k, p), Name[p][v])
  IN  /\ disk' = Loaded
      /\ \/ /\ Loaded[p] # None /\ Loaded[p].v = v /\ file[Name[p][v]] # None
            /\ job' = [job EXCEPT ![w] = IF j.all THEN [j EXCEPT !.applied = TRUE] ELSE Idle]
            /\ UNCHANGED <<file, backup>>
         \/ /\ ~(Loaded[p] # None /\ Loaded[p].v = v /\ file[Name[p][v]] # None)
            /\ job' = [job EXCEPT ![w] = [k EXCEPT !.at = "place", !.staged = staged]]
            /\ backup' = backup \cup staged
            /\ file' = Taken(staged)

BeginUpdate(w, r) ==
  /\ Start(w)
  /\ file[r] # None /\ file[r].v # Latest
  /\ UpdateFrom(w, Idle, file[r].p, Latest, r)
  /\ UNCHANGED <<off, faults, owned, byHand, complete, undone, unmet>>

(* Where an update that ended goes on: with the next one of the pass.        *)
After(w, ok) == job' = [job EXCEPT ![w] = IF @.all THEN [@ EXCEPT !.at = "updates", !.applied = @ \/ ok] ELSE Idle]

(* The new file is fetched beside the old one and renamed over the target;   *)
(* an error puts the old one back.                                           *)
PlaceUpdate(w) ==
  /\ At(w, "place")
  /\ LET p == job[w].p IN LET v == job[w].v IN
     \/ /\ file' = [file EXCEPT ![Name[p][v]] = File(p, v, TRUE)]
        /\ job' = [job EXCEPT ![w].at = "record"]
        /\ UNCHANGED <<backup, faults>>
     \/ /\ faults < MaxFaults /\ faults' = faults + 1
        /\ file' = Restored(file, job[w].staged) /\ backup' = backup \ job[w].staged
        /\ After(w, FALSE)
  /\ UNCHANGED <<off, disk, ops, owned, raced, stale, byHand, complete, undone, unmet>>

(* Mutant: the entry keeps the version it had. *)
RecordOld(w) ==
  /\ At(w, "record")
  /\ LET j == job[w] IN
     /\ disk' = Normal(IF j.mem[j.p] = None THEN [j.mem EXCEPT ![j.p] = Entry(j.v, TRUE, {})] ELSE j.mem, file)
     /\ job' = [job EXCEPT ![w].at = "finalize"]
  /\ UNCHANGED <<file, off, backup, ops, faults, owned, raced, stale, byHand, complete, undone, unmet>>

(* The entry notes the new version; what it depends on stays as it was.      *)
Record(w) ==
  /\ At(w, "record")
  /\ LET j == job[w]
         old == j.mem[j.p]
         new == Entry(j.v, old = None \/ old.explicit, IF old = None THEN {} ELSE old.deps)
     IN  /\ disk' = Normal([j.mem EXCEPT ![j.p] = new], file)
         /\ owned' = owned \cup {p \in {j.p} : file[Name[p][j.v]] # None}
         /\ complete' = complete \ {j.p}
         /\ job' = [job EXCEPT ![w].at = "finalize"]
  /\ UNCHANGED <<file, off, backup, ops, faults, raced, stale, byHand, undone, unmet>>

Finalize(w) ==
  /\ At(w, "finalize")
  /\ LET j == job[w]
         target == Name[j.p][j.v]
         old == IF job[w].staged = {} THEN {Lie(j, j.p), j.req} ELSE {j.req}
     IN  /\ file' = [r \in Paths |-> IF r \in old \ {target} THEN None ELSE file[r]]
         /\ backup' = backup \ job[w].staged
  /\ After(w, TRUE)
  /\ UNCHANGED <<off, disk, ops, faults, owned, raced, stale, byHand, complete, undone, unmet>>

-----------------------------------------------------------------------------
(* Mutant: backups are only deleted. *)
RecoveredDeletes == file

(* remove_launcher_artifacts: a backup whose original is missing is put      *)
(* back, any other is deleted.                                               *)
Recovered ==
  [r \in Paths |-> IF file[r] = None /\ \E b \in backup : b.path = r
                   THEN (CHOOSE b \in backup : b.path = r).is ELSE file[r]]

(* update_all_installed_content: what an interrupted update left is cleared, *)
(* then passes of updates until one applies nothing or finds nothing to do.  *)
BeginAll(w) ==
  /\ Start(w)
  /\ file' = Recovered /\ backup' = {}
  /\ job' = [job EXCEPT ![w] = [Idle EXCEPT !.at = "pass", !.all = TRUE]]
  /\ UNCHANGED <<off, disk, faults, owned, byHand, complete, undone, unmet>>

(* One pass.  A file is judged by what it is (its hash); a copy of a project *)
(* whose newest version the manifest already has elsewhere is deleted.       *)
Outdated == {r \in Paths : file[r] # None /\ file[r].whole /\ file[r].v # Latest}
StaleCopies == {r \in Outdated : LET p == file[r].p IN
                  Loaded[p] # None /\ Loaded[p].v = Latest /\ PathOf(Loaded, p) # r}
Pass(w) ==
  /\ At(w, "pass")
  /\ disk' = Loaded
  /\ file' = [r \in Paths |-> IF r \in StaleCopies THEN None ELSE file[r]]
  /\ LET todo == Outdated \ StaleCopies IN
     \/ /\ todo # {}
        /\ job' = [job EXCEPT ![w] = [@ EXCEPT !.at = "updates", !.left = todo, !.applied = FALSE]]
     \/ todo = {} /\ StaleCopies # {} /\ UNCHANGED job
     \/ todo = {} /\ StaleCopies = {} /\ job' = [job EXCEPT ![w].at = "clean"]
  /\ UNCHANGED <<off, backup, ops, faults, owned, raced, stale, byHand, complete, undone, unmet>>

NextUpdate(w, r) ==
  /\ At(w, "updates") /\ r \in job[w].left
  /\ LET j == [job[w] EXCEPT !.left = @ \ {r}] IN
     \/ /\ file[r] # None
        /\ UpdateFrom(w, j, file[r].p, Latest, r)
     \/ /\ file[r] = None
        /\ job' = [job EXCEPT ![w] = j] /\ UNCHANGED <<disk, file, backup>>
  /\ UNCHANGED <<off, ops, faults, owned, raced, stale, byHand, complete, undone, unmet>>

EndPass(w) ==
  /\ At(w, "updates") /\ job[w].left = {}
  /\ job' = [job EXCEPT ![w].at = IF job[w].applied THEN "pass" ELSE "clean"]
  /\ UNCHANGED <<file, off, backup, disk, ops, faults, owned, raced, stale, byHand, complete, undone, unmet>>

(* remove_duplicate_content: of several copies of a project the manifest's   *)
(* one stays, or else a current one; then the leftovers are cleared again.   *)
Copies(p) == {r \in Paths : file[r] # None /\ file[r].whole /\ file[r].p = p}
Keeper(p, r) ==
  IF Loaded[p] # None /\ PathOf(Loaded, p) \in Copies(p) THEN r = PathOf(Loaded, p)
  ELSE file[r].v = Latest
Duplicates == UNION {IF Cardinality(Copies(p)) > 1 /\ \E r \in Copies(p) : Keeper(p, r)
                     THEN Copies(p) \ {CHOOSE r \in Copies(p) : Keeper(p, r)} ELSE {} : p \in Projects}
Clean(w) ==
  /\ At(w, "clean")
  /\ disk' = Loaded
  /\ file' = [r \in Paths |-> IF r \in Duplicates THEN None ELSE Recovered[r]]
  /\ backup' = {}
  /\ Ends(w)
  /\ UNCHANGED <<off, ops, faults, owned, raced, stale, byHand, complete, undone, unmet>>

-----------------------------------------------------------------------------
(* request_content_delete: the file first, then its entry.                   *)
Delete(w, r) ==
  /\ Start(w) /\ file[r] # None
  /\ file' = [file EXCEPT ![r] = None]
  /\ owned' = owned \ {file[r].p}
  /\ unmet' = TRUE
  /\ job' = [job EXCEPT ![w] = [Idle EXCEPT !.at = "forget", !.req = r]]
  /\ UNCHANGED <<off, backup, disk, faults, byHand, complete, undone>>

Forget(w) ==
  /\ At(w, "forget")
  /\ disk' = Normal([p \in Projects |-> IF Loaded[p] # None /\ PathOf(Loaded, p) = job[w].req
                                        THEN None ELSE Loaded[p]], file)
  /\ Ends(w)
  /\ UNCHANGED <<file, off, backup, ops, faults, owned, raced, stale, byHand, complete, undone, unmet>>

(* request_content_toggle: a rename, over whatever had the other name.       *)
Toggle(r) ==
  /\ At("screen", "idle") /\ ops < MaxOps /\ ops' = ops + 1
  /\ raced' = (raced \/ Busy({"browser"})) /\ stale' = (stale \/ Busy({"scan"}))
  /\ \/ file[r] # None /\ file' = [file EXCEPT ![r] = None] /\ off' = [off EXCEPT ![r] = file[r]]
     \/ off[r] # None /\ off' = [off EXCEPT ![r] = None] /\ file' = [file EXCEPT ![r] = off[r]]
  /\ unmet' = TRUE /\ byHand' = (byHand \/ (file[r] # None /\ off[r] # None))
  /\ UNCHANGED <<backup, disk, job, faults, owned, complete, undone>>

(* import_local_content_files: the user's file is copied over what is there. *)
Import(w, p, v) ==
  LET r == Name[p][v] IN
  /\ Start(w)
  /\ owned' = IF file[r] = None \/ file[r].p = p THEN owned \cup {p} ELSE (owned \ {file[r].p}) \cup {p}
  /\ file' = [file EXCEPT ![r] = File(p, v, TRUE)]
  /\ byHand' = TRUE
  /\ UNCHANGED <<off, backup, disk, job, faults, complete, undone, unmet>>

(* A scan reads the manifest and, if an entry lost its file, saves what is   *)
(* left a moment later.                                                      *)
Scan(w) ==
  /\ Start(w) /\ Loaded # disk
  /\ job' = [job EXCEPT ![w] = [Idle EXCEPT !.at = "rewrite", !.mem = Loaded]]
  /\ UNCHANGED <<file, off, backup, disk, faults, owned, byHand, complete, undone, unmet>>

Rewrite(w) ==
  /\ At(w, "rewrite")
  /\ disk' = Normal(job[w].mem, file)
  /\ Ends(w)
  /\ UNCHANGED <<file, off, backup, ops, faults, owned, raced, stale, byHand, complete, undone, unmet>>

(* The launcher dies.                                                        *)
Crash ==
  /\ faults < MaxFaults /\ faults' = faults + 1
  /\ \E w \in Workers : ~At(w, "idle")
  /\ job' = [w \in Workers |-> Idle] /\ stale' = TRUE
  /\ UNCHANGED <<file, off, backup, disk, ops, owned, raced, byHand, complete, undone, unmet>>

Browsing == ops < MaxOps /\ \E p \in Projects, v \in Versions : BeginInstall("browser", p, v)
OnScreen ==
  /\ ops < MaxOps
  /\ \/ \E r \in Paths : BeginUpdate("screen", r) \/ Delete("screen", r) \/ Toggle(r)
     \/ \E p \in Projects, v \in Versions : Import("screen", p, v)
     \/ BeginAll("screen")

Next ==
  \/ Browsing \/ OnScreen \/ Scan("scan")
  \/ \E w \in Workers :
       \/ Place(w) \/ Finish(w) \/ Save(w)
       \/ \E d \in Projects : Depend(w, d)
       \/ PlaceUpdate(w) \/ Record(w) \/ Finalize(w)
       \/ Pass(w) \/ EndPass(w) \/ Clean(w)
       \/ \E r \in Paths : NextUpdate(w, r)
       \/ Forget(w) \/ Rewrite(w)
  \/ Crash

Spec == Init /\ [][Next]_vars

-----------------------------------------------------------------------------
Quiet == \A w \in Workers : At(w, "idle")
(* While the browser and the screen do not work on one instance together, no *)
(* mod the user has disappears: not when an update fails half way, not when  *)
(* the launcher dies between two steps of it, not with another mod's         *)
(* dependencies; a whole file of it is in place, disabled or kept aside.     *)
NothingLost == raced \/ \A p \in owned \ undone : Whole(p)

(* Between jobs the manifest names the version that lies in its file, so an  *)
(* update is offered for what is really there.  The exceptions are named:    *)
(* two jobs at once, a scan or a crash in between, a file put in by hand, a  *)
(* dependency an install replaced before it failed.                          *)
ManifestIsTrue ==
  (Quiet /\ ~raced /\ ~stale /\ ~byHand) =>
    \A p \in Projects \ undone : disk[p] # None /\ file[PathOf(disk, p)] # None =>
       LET f == file[PathOf(disk, p)] IN f.p = p /\ f.v = disk[p].v

(* A mod that was installed has every mod it needs, whatever was switched,   *)
(* updated or removed since for the sake of another.                         *)
RequiredIsThere ==
  (Quiet /\ ~raced /\ ~stale /\ ~byHand /\ ~unmet) =>
    \A p \in complete : Loaded[p] # None =>
       \A d \in Needs[p][Loaded[p].v] \ undone : Copies(d) # {}
=============================================================================
