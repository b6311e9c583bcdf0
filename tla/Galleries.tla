------------------------------ MODULE Galleries ------------------------------
(***************************************************************************)
(* What the launcher shows of the games' own files: the gallery of all     *)
(* screenshots, loaded page by page; the announcements of new ones; and    *)
(* the log of an instance.  Each answer of a worker carries the number of  *)
(* its request, and one that is not the latest is dropped.                 *)
(***************************************************************************)
EXTENDS Naturals, Sequences, SequencesExt, FiniteSets

CONSTANTS Shots, Logs, Nothing, Page, MaxChanges, MaxScans

VARIABLES view,       \* which of the three a behaviour is about
          disk,       \* by screenshot: "absent", "half" written or "whole"
          changes,    \* how often the disk changed
          (* the gallery *)
          scan,       \* the scan of folders in flight, by the number of its request
          candidates, loaded, gallery_shown, total, done, pending, ready, wanted,
          tasks,      \* pages' tasks: the request and the screenshot
          mail,       \* their messages
          deletion,   \* the screenshot whose removal was asked for
          seen,       \* the disk as the last task or scan of the request saw it
          scans,
          (* the watcher *)
          watch, seeded, known_shots, told,
          baseline,   \* the screenshots of the first listing that could be read
          (* the log *)
          logs,       \* on disk: how often each was written
          listing, log_scan, chosen, lines,
          loading,    \* the latest request: its number, log and time
          answers,    \* loads in flight, by number, with what was read
          shown_text  \* by log: the latest text shown
galleryVars == <<scan, candidates, loaded, gallery_shown, total, done, pending, ready, wanted, tasks, mail,
                 deletion, seen, scans>>
watchVars == <<watch, seeded, known_shots, told, baseline>>
logVars == <<logs, listing, log_scan, chosen, lines, loading, answers, shown_text>>
vars == <<view, disk, changes, galleryVars, watchVars, logVars>>

Init ==
  /\ disk = [s \in Shots |-> "absent"] /\ changes = 0
  /\ scan = [number |-> 0, force |-> FALSE, at |-> "none", found |-> <<>>]
  /\ candidates = <<>> /\ loaded = 0 /\ gallery_shown = <<>> /\ total = 0 /\ done = 0
  /\ pending = FALSE /\ ready = FALSE /\ wanted = 0 /\ tasks = {} /\ mail = <<>> /\ deletion = Nothing
  /\ seen = {} /\ scans = 0
  /\ watch = Nothing /\ seeded = FALSE /\ known_shots = {} /\ told = <<>> /\ baseline = {}
  /\ logs = [l \in Logs |-> 0] /\ listing = [l \in {} |-> 0] /\ log_scan = Nothing
  /\ chosen = Nothing /\ lines = Nothing /\ answers = {} /\ shown_text = [l \in Logs |-> 0]
  /\ loading = [number |-> 0, log |-> Nothing, written |-> 0, flying |-> FALSE]
  /\ view \in {"gallery", "watch", "log"}

(***************************************************************************)
(* The game and the player's file manager.                                 *)
(***************************************************************************)
Present == {s \in Shots : disk[s] # "absent"}
Change(s) ==
  /\ changes < MaxChanges /\ changes' = changes + 1
  /\ \E to \in {"absent", "half", "whole"} \ {disk[s]} : disk' = [disk EXCEPT ![s] = to]
  /\ UNCHANGED <<view, galleryVars, watchVars, logVars>>

(***************************************************************************)
(* The gallery.                                                            *)
(***************************************************************************)
(* refresh_screenshot_state                                                 *)
Refreshed(force) ==
  IF (pending \/ scan.at # "none") /\ ~force THEN UNCHANGED <<scan, scans>>
  ELSE /\ scan' = [number |-> scan.number + 1, force |-> force, at |-> "running", found |-> <<>>]
       /\ scans' = scans + 1
Refresh ==
  /\ scans < MaxScans /\ ~pending /\ scan.at = "none" /\ Refreshed(FALSE)
  /\ UNCHANGED <<view, disk, changes, candidates, loaded, gallery_shown, total, done, pending, ready, wanted, tasks, mail,
                 deletion, seen, watchVars, logVars>>
(* collect_screenshot_candidates: whole or not, as it was last written     *)
Collected == SetToSeq({<<s, disk[s]>> : s \in Present})
Collect ==
  /\ scan.at = "running" /\ scan' = [scan EXCEPT !.at = "found", !.found = Collected]
  /\ UNCHANGED <<view, disk, changes, candidates, loaded, gallery_shown, total, done, pending, ready, wanted, tasks, mail,
                 deletion, seen, scans, watchVars, logVars>>

(* spawn_screenshot_load_page                                               *)
PageEnd(of, from, size) == IF from + size < Len(of) THEN from + size ELSE Len(of)
PageTasks(number, of, from, to) == {[number |-> number, shot |-> of[i]] : i \in from + 1 .. to}

(* poll_screenshot_candidates                                               *)
Adopt ==
  /\ scan.at = "found"
  /\ scan' = [scan EXCEPT !.at = "none", !.found = <<>>]
  /\ IF ~scan.force /\ scan.found = candidates /\ ready
     THEN pending' = FALSE
          /\ UNCHANGED <<candidates, loaded, gallery_shown, total, done, ready, wanted, tasks, seen>>
     ELSE LET end == PageEnd(scan.found, 0, Page)
          IN  /\ wanted' = wanted + 1 /\ ready' = TRUE /\ gallery_shown' = <<>> /\ seen' = {}
              /\ candidates' = scan.found /\ loaded' = end /\ total' = end /\ done' = 0
              /\ pending' = (scan.found # <<>>)
              /\ tasks' = tasks \cup PageTasks(wanted + 1, scan.found, 0, end)
  /\ UNCHANGED <<view, disk, changes, mail, deletion, scans, watchVars, logVars>>

(* load_next_screenshot_page                                                *)
NextPage ==
  /\ ready /\ done >= total /\ loaded < Len(candidates)
  /\ LET end == PageEnd(candidates, loaded, Page * 4)
     IN  loaded' = end /\ total' = total + (end - loaded)
         /\ tasks' = tasks \cup PageTasks(wanted, candidates, loaded, end)
  /\ UNCHANGED <<view, disk, changes, scan, candidates, gallery_shown, done, pending, ready, wanted, mail, deletion, seen,
                 scans, watchVars, logVars>>

(* The task of one screenshot reads its size.                               *)
ReadShot(t) ==
  /\ t \in tasks /\ tasks' = tasks \ {t}
  /\ LET entry == [number |-> t.number, entry |-> t.shot[1]]
         over == [number |-> t.number, entry |-> Nothing]
     IN  mail' = IF disk[t.shot[1]] = "whole" THEN mail \o <<entry, over>> ELSE Append(mail, over)
  /\ seen' = IF t.number = wanted /\ disk[t.shot[1]] = "whole" THEN seen \cup {t.shot[1]} ELSE seen
  /\ UNCHANGED <<view, disk, changes, scan, candidates, loaded, gallery_shown, total, done, pending, ready, wanted, deletion,
                 scans, watchVars, logVars>>

(* Mutant of Latest: every message counts.                                  *)
AnyRequest(m) == m.number <= wanted
Latest(m) == m.number = wanted
(* poll_screenshot_results                                                  *)
ReadMail ==
  /\ mail # <<>> /\ mail' = Tail(mail)
  /\ LET m == Head(mail)
     IN  IF ~Latest(m) THEN UNCHANGED <<gallery_shown, done, pending>>
         ELSE IF m.entry # Nothing THEN gallery_shown' = Append(gallery_shown, m.entry) /\ UNCHANGED <<done, pending>>
         ELSE /\ done' = done + 1
              /\ pending' = (pending /\ ~(ready /\ loaded >= Len(candidates) /\ done + 1 >= total))
              /\ UNCHANGED gallery_shown
  /\ UNCHANGED <<view, disk, changes, scan, candidates, loaded, total, ready, wanted, tasks, deletion, seen, scans,
                 watchVars, logVars>>

(* request_screenshot_delete and poll_delete_screenshot_results            *)
AskDelete(s) ==
  /\ deletion = Nothing /\ Contains(gallery_shown, s) /\ scans < MaxScans /\ deletion' = s
  /\ UNCHANGED <<view, disk, changes, scan, candidates, loaded, gallery_shown, total, done, pending, ready, wanted, tasks, mail,
                 seen, scans, watchVars, logVars>>
Deleted ==
  /\ deletion # Nothing /\ deletion' = Nothing
  /\ \/ /\ disk[deletion] # "absent" /\ disk' = [disk EXCEPT ![deletion] = "absent"] /\ Refreshed(TRUE)
     \/ UNCHANGED <<disk, scan, scans>>
  /\ UNCHANGED <<view, changes, candidates, loaded, gallery_shown, total, done, pending, ready, wanted, tasks, mail,
                 seen, watchVars, logVars>>

(* Mutant of ForgetNumber: what was asked for before still counts.          *)
SameNumber == wanted
(* forget_screenshots, when the gallery is left                             *)
ForgetNumber == wanted + 1
Forget ==
  /\ gallery_shown # <<>> \/ pending
  /\ wanted' = ForgetNumber /\ gallery_shown' = <<>> /\ pending' = FALSE /\ ready' = FALSE /\ seen' = {}
  /\ candidates' = <<>> /\ loaded' = 0
  /\ scans < MaxScans /\ scans' = scans + 1
  /\ UNCHANGED <<view, disk, changes, scan, total, done, tasks, mail, deletion, watchVars, logVars>>

GalleryNext ==
  \/ Refresh \/ Collect \/ Adopt \/ NextPage \/ (\E t \in tasks : ReadShot(t)) \/ ReadMail
  \/ (\E s \in Shots : AskDelete(s)) \/ Deleted \/ Forget

(***************************************************************************)
(* The watcher of screenshots.                                             *)
(***************************************************************************)
(* list_screenshots: a folder that cannot be read is an empty one           *)
StartWatch ==
  /\ watch = Nothing
  /\ \/ watch' = [found |-> Present] /\ baseline' = IF seeded THEN baseline ELSE Present
     \/ Present # {} /\ ~seeded /\ watch' = [found |-> {}] /\ UNCHANGED baseline
  /\ UNCHANGED <<view, disk, changes, galleryVars, seeded, known_shots, told, logVars>>
(* Mutant of News: the first listing counts as news.                        *)
AnyNews(found) == found \ known_shots
News(found) == IF seeded THEN found \ known_shots ELSE {}
(* screenshot_watch::poll                                                   *)
PollWatch ==
  /\ watch # Nothing /\ watch' = Nothing
  /\ told' = told \o SetToSeq(News(watch.found))
  /\ known_shots' = known_shots \cup watch.found /\ seeded' = TRUE
  /\ UNCHANGED <<view, disk, changes, galleryVars, baseline, logVars>>
WatchNext == StartWatch \/ PollWatch

(***************************************************************************)
(* The log of an instance.                                                 *)
(***************************************************************************)
WriteLog(l) ==
  /\ logs[l] < MaxChanges /\ logs' = [logs EXCEPT ![l] = @ + 1]
  /\ UNCHANGED <<view, disk, changes, galleryVars, watchVars, listing, log_scan, chosen, loading, answers, lines, shown_text>>
(* refresh_instance_logs, collect_instance_logs: those written at least once *)
ScanLogs ==
  /\ log_scan = Nothing
  /\ log_scan' = [l \in {x \in Logs : logs[x] > 0} |-> logs[l]]
  /\ log_scan' # listing
  /\ UNCHANGED <<view, disk, changes, galleryVars, watchVars, logs, listing, chosen, loading, answers, lines, shown_text>>
(* poll_instance_log_scan_results                                           *)
PollScan ==
  /\ log_scan # Nothing /\ log_scan' = Nothing /\ listing' = log_scan
  /\ chosen' = IF chosen \in DOMAIN log_scan THEN chosen ELSE Nothing
  /\ UNCHANGED <<view, disk, changes, galleryVars, watchVars, logs, loading, answers, lines, shown_text>>

(* load_selected_instance_log: the time the disk has now, not the listing's *)
Load(l) ==
  /\ loading.number < MaxScans
  /\ loading' = [number |-> loading.number + 1, log |-> l, written |-> logs[l], flying |-> TRUE]
  /\ answers' = answers \cup {[number |-> loading.number + 1, log |-> l, written |-> logs[l], text |-> Nothing]}
Newest == CHOOSE l \in DOMAIN listing : \A k \in DOMAIN listing : listing[k] <= listing[l]
(* sync_selected_instance_log, each frame: a load is begun again while the  *)
(* log is newer than the listing says                                       *)
Outdated(l) == lines # Nothing => (lines.log # l \/ lines.written # listing[l])
Sync ==
  /\ DOMAIN listing # {} \/ chosen # Nothing
  /\ LET now == IF chosen # Nothing THEN chosen ELSE Newest
     IN  /\ chosen' = now
         /\ ~(loading.flying /\ loading.log = now /\ loading.written = listing[now])
         /\ Outdated(now) /\ Load(now)
  /\ UNCHANGED <<view, disk, changes, galleryVars, watchVars, logs, listing, log_scan, lines, shown_text>>
Select(l) ==
  /\ l \in DOMAIN listing /\ chosen # l /\ chosen' = l /\ Load(l)
  /\ UNCHANGED <<view, disk, changes, galleryVars, watchVars, logs, listing, log_scan, lines, shown_text>>
(* read_instance_log_lines, by a worker                                     *)
ReadLog(a) ==
  /\ a \in answers /\ a.text = Nothing
  /\ answers' = (answers \ {a}) \cup {[a EXCEPT !.text = logs[a.log]]}
  /\ UNCHANGED <<view, disk, changes, galleryVars, watchVars, logs, listing, log_scan, chosen, loading, lines, shown_text>>
(* Mutant of Answers: an answer is taken whichever request it is of.        *)
EveryAnswer(a) == TRUE
Answers(a) == a.number = loading.number
(* poll_instance_log_load_results                                           *)
PollLoad(a) ==
  /\ a \in answers /\ a.text # Nothing /\ answers' = answers \ {a}
  /\ IF Answers(a)
     THEN /\ lines' = a /\ loading' = [loading EXCEPT !.flying = FALSE]
          /\ shown_text' = [shown_text EXCEPT ![a.log] = IF a.text > @ THEN a.text ELSE @]
     ELSE UNCHANGED <<lines, loading, shown_text>>
  /\ UNCHANGED <<view, disk, changes, galleryVars, watchVars, logs, listing, log_scan, chosen>>
LogNext ==
  \/ \E l \in Logs : WriteLog(l) \/ Select(l)
  \/ ScanLogs \/ PollScan \/ Sync \/ \E a \in answers : ReadLog(a) \/ PollLoad(a)

Next ==
  \/ view \in {"gallery", "watch"} /\ \E s \in Shots : Change(s)
  \/ view = "gallery" /\ GalleryNext
  \/ view = "watch" /\ WatchNext
  \/ view = "log" /\ LogNext
Spec == Init /\ [][Next]_vars

(***************************************************************************)
(* A gallery that says it has loaded shows each screenshot its request     *)
(* could read, once; one that still loads has something to wait for; one   *)
(* that was left shows nothing.                                            *)
(***************************************************************************)
ShownOnce ==
  /\ IsInjective(gallery_shown) /\ (~ready => gallery_shown = <<>>)
  /\ ready /\ ~pending => ToSet(gallery_shown) = seen
  /\ pending => tasks # {} \/ mail # <<>> \/ loaded < Len(candidates)
(* A screenshot is announced once, and not when it was there before.        *)
ToldOnce == IsInjective(told) /\ ToSet(told) = known_shots \ baseline
(* A log is not shown as it was before what was already shown of it, and    *)
(* once nothing is to load it is the chosen one, as new as the listing.     *)
LogIsLatest ==
  /\ lines # Nothing => lines.text = shown_text[lines.log]
  /\ lines # Nothing /\ ~loading.flying /\ chosen # Nothing /\ ~Outdated(chosen)
        => lines.log = chosen /\ lines.text >= listing[chosen]
GalleriesAreRight == ShownOnce /\ ToldOnce /\ LogIsLatest
=============================================================================
