-------------------------------- MODULE Skins --------------------------------
(***************************************************************************)
(* The skins screen (screens/skins_state.rs, skins/skins_api.rs,           *)
(* skins/profile_cache.rs, se5/screens/skins.rs): a form with the skin,    *)
(* model and cape of the active account, filled by a worker that asks the  *)
(* profile service and sent back by another.  The form follows the active  *)
(* account from frame to frame; workers go on whether or not anyone still  *)
(* listens, and their answers arrive through a receiver the form may have  *)
(* let go.  A profile is its skin picture, its model and its active cape.  *)
(***************************************************************************)
EXTENDS Naturals, FiniteSets

CONSTANTS Users, Nobody, MaxEdits, MaxTurns, MaxMoves, MaxWorkers, MaxSlips

VARIABLES active,    \* the account in use, or Nobody
          tokenless, \* the accounts without an access token
          shown,     \* the screen was drawn in the frame before
          picker,    \* the file dialog: "closed", "open", or its answer
          form,      \* SkinManagerState
          workers,   \* the threads at work
          service,   \* the profile each account has at the service
          cached,    \* the profile each account has in the account cache
          edits, turns, hired, slips,
          chosen,    \* the selection the user made and has not seen replaced
          excused,   \* accounts whose form, or service, an excuse covers
          raced,     \* accounts two workers wrote the cache for at once
          loaded,    \* the form has been given the profile of its account
          misled     \* a save was called done that left the service without it

skinVars == <<active, tokenless, shown, picker, form, workers, service, cached,
              edits, turns, hired, slips, chosen, excused, raced, loaded, misled>>

NoImage == "no image"
Profile(image, slim, cape) == [image |-> image, slim |-> slim, cape |-> cape]
Plain == Profile(NoImage, FALSE, "no cape")
Unchosen == Profile("nothing", FALSE, "no cape")
Own(u) == Profile(u, TRUE, "cape")
Older == Profile("older", FALSE, "no cape")

\* The form's selection: what is sent when it is saved.  A skin that was not picked is
\* the one loaded.
Default == [who |-> Nobody, token |-> FALSE, base |-> Plain, want |-> Plain, capes |-> FALSE,
            saving |-> FALSE, refreshing |-> FALSE, reopen |-> FALSE,
            snapshot |-> "none", pick |-> "none"]

SkinsInit ==
    /\ active \in Users \cup {Nobody} /\ tokenless \in SUBSET Users
    /\ shown = FALSE /\ picker = "closed" /\ form = Default /\ workers = {}
    /\ service = [u \in Users |-> Own(u)] /\ cached = [u \in Users |-> Older]
    /\ edits = 0 /\ turns = 0 /\ hired = 0 /\ slips = 0
    /\ chosen = Unchosen /\ excused = {} /\ raced = {} /\ loaded = FALSE /\ misled = FALSE

Changed(f) == f.want # Profile(NoImage, f.base.slim, f.base.cape)
CanSave(f) == f.token /\ Changed(f)

\* A step of a frame reads and writes the form, the workers and what the user chose.
Busy(u, ws) == \E w \in ws : w.who = u /\ w.phase # "answered"
\* Mutant of Unheard: the receiver of the worker before is kept.
StillHeard(ws) == ws
Unheard(ws) == {[w EXCEPT !.heard = FALSE] : w \in ws}
Hire(s, kind) ==
    [s EXCEPT !.workers = Unheard(@) \cup
        {[n |-> s.hired + 1, kind |-> kind, who |-> s.form.who, heard |-> TRUE, ok |-> TRUE,
          want |-> s.form.want, base |-> s.form.base, got |-> Plain,
          phase |-> IF kind = "refresh" THEN "fetch" ELSE "upload"]},
              !.hired = @ + 1,
              !.raced = IF Busy(s.form.who, s.workers) THEN @ \cup {s.form.who} ELSE @]

StartRefresh(s) ==
    IF s.form.refreshing \/ s.form.saving \/ s.form.who = Nobody \/ ~s.form.token THEN s
    ELSE Hire([s EXCEPT !.form.refreshing = TRUE], "refresh")

\* Another account: everything of the one before is let go, what it picked and what its
\* workers will answer included, and the new one's profile is read and asked for.
SyncAccount(s) ==
    LET token == active \notin tokenless
        left == {w.who : w \in {x \in s.workers : x.kind = "save" /\ x.phase # "answered"}}
    IN CASE active = Nobody /\ s.form.who = Nobody -> s
         [] active = Nobody /\ s.form.who # Nobody ->
              [s EXCEPT !.form = Default, !.workers = Unheard(@), !.chosen = Unchosen,
                        !.excused = @ \cup left, !.loaded = FALSE]
         [] active # Nobody /\ s.form.who = active -> [s EXCEPT !.form.token = token]
         [] OTHER ->
              StartRefresh([s EXCEPT !.form = [Default EXCEPT !.who = active, !.token = token,
                                               !.reopen = s.form.reopen, !.snapshot = "reading"],
                                     !.workers = Unheard(@), !.chosen = Unchosen,
                                     !.excused = @ \cup left, !.loaded = FALSE])

\* Mutant of PollSnapshot: whenever it arrives.
SnapshotAnytime(s) ==
    LET f == [s.form EXCEPT !.snapshot = "none"]
    IN CASE s.form.snapshot \in {"none", "reading"} -> s
         [] s.form.snapshot = "read" ->
              [s EXCEPT !.form = [f EXCEPT !.base = Plain, !.want = Plain, !.capes = TRUE],
                        !.chosen = Unchosen, !.loaded = @ /\ ~f.refreshing]
         [] OTHER -> [s EXCEPT !.form = f]

\* The account as it was cached is shown only while the refresh it precedes is under way;
\* it names the capes and selects nothing, whatever was selected meanwhile.
PollSnapshot(s) ==
    LET f == [s.form EXCEPT !.snapshot = "none"]
    IN CASE s.form.snapshot \in {"none", "reading"} -> s
         [] s.form.snapshot = "read" /\ f.refreshing ->
              [s EXCEPT !.form = [f EXCEPT !.base = Plain, !.want = Plain, !.capes = TRUE],
                        !.chosen = Unchosen, !.loaded = @ /\ ~f.refreshing]
         [] OTHER -> [s EXCEPT !.form = f]

LoadProfile(s, profile) ==
    [s EXCEPT !.form.base = profile,
              !.form.want = Profile(NoImage, profile.slim, profile.cape),
              !.form.capes = TRUE, !.loaded = TRUE]

\* The selection a save was given, as the service should have it.
Asked(w) == [w.want EXCEPT !.image = IF @ = NoImage THEN w.base.image ELSE @]
Served(w) == [service[w.who] EXCEPT !.image = IF Asked(w).image = NoImage THEN NoImage ELSE @]

\* A finished refresh is not loaded over a selection; a finished save always is.
PollWorker(s) ==
    LET heard == {w \in s.workers : w.heard /\ w.phase \in {"answered", "died"}}
        done == [s EXCEPT !.workers = @ \ heard]
    IN IF heard = {} THEN s
       ELSE LET w == CHOOSE x \in heard : TRUE
                idle == IF w.phase = "died"
                        THEN [done EXCEPT !.form.saving = FALSE, !.form.refreshing = FALSE]
                        ELSE IF w.kind = "save" THEN [done EXCEPT !.form.saving = FALSE]
                             ELSE [done EXCEPT !.form.refreshing = FALSE]
            IN IF \/ w.phase = "died" \/ ~w.ok \/ s.form.who # w.who
                  \/ w.kind = "refresh" /\ Changed(s.form)
               THEN idle
               ELSE IF w.kind = "refresh" THEN LoadProfile(idle, w.got)
               ELSE [LoadProfile(idle, w.got) EXCEPT !.chosen = Unchosen,
                       !.misled = @ \/ (w.who \notin s.excused /\ Served(w) # Asked(w))]

PollPick(s) ==
    CASE s.form.pick \in {"none", "loading"} -> s
      [] s.form.pick = "loaded" ->
           LET f == [s.form EXCEPT !.pick = "none", !.want.image = "picked"]
           IN [s EXCEPT !.form = f, !.chosen = f.want]
      [] OTHER -> [s EXCEPT !.form.pick = "none"]

OpenRefresh(s) ==
    IF s.form.reopen /\ s.form.who # Nobody /\ s.form.token /\ ~s.form.refreshing /\ ~s.form.saving
    THEN StartRefresh([s EXCEPT !.form.reopen = FALSE])
    ELSE s

LoadSkin(s, answer) ==
    IF answer = "file" /\ s.form.pick = "none" THEN [s EXCEPT !.form.pick = "loading"] ELSE s

\* What the form, the workers and the ghosts are after s.
Becomes(s) ==
    /\ form' = s.form /\ workers' = s.workers /\ hired' = s.hired /\ s.hired <= MaxWorkers
    /\ chosen' = s.chosen /\ excused' = s.excused /\ raced' = s.raced
    /\ loaded' = s.loaded /\ misled' = s.misled
Now == [form |-> form, workers |-> workers, hired |-> hired, chosen |-> chosen,
        excused |-> excused, raced |-> raced, loaded |-> loaded, misled |-> misled]

\* A frame of the screen: the account, the workers and the dialog, in this order.
Frame ==
    LET synced == SyncAccount(Now)
        opened == IF shown THEN synced ELSE [synced EXCEPT !.form.reopen = TRUE]
        polled == OpenRefresh(PollPick(PollWorker(PollSnapshot(opened))))
    IN /\ Becomes(LoadSkin(polled, picker))
       /\ shown' = TRUE
       /\ picker' = IF picker = "open" THEN "open" ELSE "closed"
       /\ UNCHANGED <<active, tokenless, service, cached, edits, turns, slips>>

Leave == shown /\ turns < MaxTurns /\ shown' = FALSE /\ turns' = turns + 1
         /\ UNCHANGED <<active, tokenless, picker, form, workers, service, cached, edits, hired,
                        slips, chosen, excused, raced, loaded, misled>>

\* The user selects a model or a cape, or opens the file dialog.
Select ==
    /\ shown /\ form.who # Nobody /\ edits < MaxEdits
    /\ \E f \in {[form EXCEPT !.want.slim = b] : b \in BOOLEAN}
               \cup {[form EXCEPT !.want.cape = c] : c \in {"no cape"} \cup
                        (IF form.capes THEN {"cape"} ELSE {})} :
         /\ f # form /\ form' = f
         /\ chosen' = IF Changed(f) THEN f.want ELSE Unchosen
    /\ edits' = edits + 1
    /\ UNCHANGED <<active, tokenless, shown, picker, workers, service, cached, turns, hired, slips,
                   excused, raced, loaded, misled>>

OpenPicker ==
    /\ shown /\ form.who # Nobody /\ form.pick = "none" /\ picker = "closed" /\ edits < MaxEdits
    /\ picker' = "open" /\ edits' = edits + 1
    /\ UNCHANGED <<active, tokenless, shown, form, workers, service, cached, turns, hired, slips,
                   chosen, excused, raced, loaded, misled>>

PickerAnswers ==
    /\ picker = "open" /\ picker' \in {"file", "cancelled"}
    /\ UNCHANGED <<active, tokenless, shown, form, workers, service, cached, edits, turns, hired,
                   slips, chosen, excused, raced, loaded, misled>>

\* The button Save.  A refresh under way is abandoned, but goes on.
StartSave(s) ==
    IF s.form.saving \/ ~CanSave(s.form) THEN s
    ELSE Hire([s EXCEPT !.form.refreshing = FALSE, !.form.saving = TRUE,
                        !.excused = IF s.form.base.image = NoImage THEN @ \cup {s.form.who} ELSE @],
              "save")

Save ==
    /\ shown /\ CanSave(form) /\ ~form.saving
    /\ Becomes(StartSave(Now))
    /\ UNCHANGED <<active, tokenless, shown, picker, service, cached, edits, turns, slips>>

\* The workers.
Slip(fails) == slips' = slips + (IF fails THEN 1 ELSE 0) /\ (fails => slips < MaxSlips)
Turn(w, new) == workers' = (workers \ {w}) \cup {new}
Kept == UNCHANGED <<active, tokenless, shown, picker, form, edits, turns, hired, chosen, raced, loaded, misled>>
Failed(w) == [w EXCEPT !.phase = "answered", !.ok = FALSE]

\* A skin is sent when one was picked or the model changed, if there is one to send.
SendsSkin(w) == Asked(w).image # NoImage
                /\ (w.want.image # NoImage \/ w.want.slim # w.base.slim)
\* Mutant of SendsCape: only when no skin is sent.
SendsCapeAlone(w) == ~SendsSkin(w) /\ w.want.cape # w.base.cape
SendsCape(w) == w.want.cape # w.base.cape

Upload(w) ==
    /\ w.phase = "upload"
    /\ \E fails \in (IF SendsSkin(w) THEN BOOLEAN ELSE {FALSE}) :
         /\ Slip(fails)
         /\ IF fails THEN Turn(w, Failed(w)) /\ UNCHANGED service
            ELSE /\ Turn(w, [w EXCEPT !.phase = "cape"])
                 /\ service' = IF ~SendsSkin(w) THEN service
                               ELSE [service EXCEPT ![w.who].image = Asked(w).image,
                                                    ![w.who].slim = w.want.slim]
    /\ Kept /\ UNCHANGED <<cached, excused>>

ChangeCape(w) ==
    /\ w.phase = "cape"
    /\ \E fails \in (IF SendsCape(w) THEN BOOLEAN ELSE {FALSE}) :
         /\ Slip(fails)
         /\ IF fails
            THEN /\ Turn(w, Failed(w)) /\ UNCHANGED service
                 /\ excused' = IF SendsSkin(w) THEN excused \cup {w.who} ELSE excused
            ELSE LET new == IF SendsCape(w) THEN [service EXCEPT ![w.who].cape = w.want.cape] ELSE service
                 IN /\ service' = new /\ UNCHANGED excused
                    /\ Turn(w, IF SendsSkin(w) \/ SendsCape(w)
                               THEN [w EXCEPT !.phase = "cache", !.got = new[w.who]]
                               ELSE [w EXCEPT !.phase = "fetch"])
    /\ Kept /\ UNCHANGED cached

Fetch(w) ==
    /\ w.phase = "fetch"
    /\ \E fails \in BOOLEAN :
         /\ Slip(fails)
         /\ Turn(w, IF fails THEN Failed(w) ELSE [w EXCEPT !.phase = "cache", !.got = service[w.who]])
    /\ Kept /\ UNCHANGED <<service, cached, excused>>

\* The profile is put into the account cache; failing there, it is not shown either.
WriteCache(w) ==
    /\ w.phase = "cache"
    /\ \E fails \in BOOLEAN :
         /\ Slip(fails)
         /\ IF fails
            THEN /\ Turn(w, Failed(w)) /\ UNCHANGED cached
                 /\ excused' = excused \cup (IF w.kind = "save" THEN {w.who} ELSE {})
            ELSE /\ Turn(w, [w EXCEPT !.phase = "answered"]) /\ UNCHANGED excused
                 /\ cached' = [cached EXCEPT ![w.who] = w.got]
    /\ Kept /\ UNCHANGED service

\* The thread panics: its sender goes with it.
Dies(w) ==
    /\ w.phase \in {"fetch", "upload"} /\ Slip(TRUE) /\ Turn(w, [w EXCEPT !.phase = "died"])
    /\ Kept /\ UNCHANGED <<service, cached, excused>>

\* An answer nobody listens for is thrown away.
ThrownAway(w) ==
    /\ w.phase \in {"answered", "died"} /\ ~w.heard /\ workers' = workers \ {w}
    /\ Kept /\ UNCHANGED <<service, cached, excused, slips>>

\* The readers of the account cache and of a picked file.
Reads ==
    /\ \/ form.snapshot = "reading" /\ \E r \in {"read", "failed"} : form' = [form EXCEPT !.snapshot = r]
       \/ form.pick = "loading" /\ \E r \in {"loaded", "refused"} : form' = [form EXCEPT !.pick = r]
    /\ UNCHANGED <<active, tokenless, shown, picker, workers, service, cached, edits, turns, hired,
                   slips, chosen, excused, raced, loaded, misled>>

\* The user changes the account, or a renewal brings the token.
Switch ==
    /\ turns < MaxTurns /\ turns' = turns + 1
    /\ \/ \E u \in (Users \cup {Nobody}) \ {active} : active' = u /\ UNCHANGED tokenless
       \/ \E u \in tokenless : tokenless' = tokenless \ {u} /\ UNCHANGED active
    /\ UNCHANGED <<shown, picker, form, workers, service, cached, edits, hired, slips, chosen,
                   excused, raced, loaded, misled>>

SkinsNext ==
    \/ Frame \/ Leave \/ Select \/ OpenPicker \/ PickerAnswers \/ Save \/ Reads \/ Switch
    \/ \E w \in workers : Upload(w) \/ ChangeCape(w) \/ Fetch(w) \/ WriteCache(w) \/ Dies(w) \/ ThrownAway(w)

SkinsSpec == SkinsInit /\ [][SkinsNext]_skinVars

-----------------------------------------------------------------------------
\* The screen waits exactly while a worker it will hear from is at work: Save never stays
\* at "Saving..." for an answer that was thrown away, and no answer comes unawaited.
AwaitedIsHeard ==
    LET heard == {w \in workers : w.heard}
    IN /\ Cardinality(heard) <= 1
       /\ (form.refreshing \/ form.saving) = (heard # {})
       /\ \A w \in heard : /\ w.who = form.who
                           /\ form.saving = (w.kind = "save") /\ form.refreshing = (w.kind = "refresh")

\* A profile that was loaded is the active account's and, once nothing runs, the one the
\* service has; an account is excused after a save that failed between its two requests or
\* before it was told, one that was left for another account, or one of a skin that was
\* never loaded.
FormIsTrue ==
    (loaded /\ form.who \notin excused /\ ~Busy(form.who, workers))
        => /\ form.who \in Users
           /\ form.base = service[form.who] \/ \E w \in workers : w.heard

\* What the user selected stays selected until a save of it, or another account, replaces it.
SelectionIsSent == IF chosen = Unchosen THEN ~Changed(form) ELSE form.want = chosen

\* A save that is called done did all that was asked; once the workers are done the cache
\* has the service's profile, unless two of them raced to write it.
SavedIsTold == ~misled
CacheFollows ==
    \A u \in Users \ (excused \cup raced) :
        Busy(u, workers) \/ cached[u] \in {Older, service[u]}

\* CONSTRAINT of the run: what follows an excuse, and more than MaxMoves moves of the user,
\* is not explored.
SkinsClaimed == excused = {} /\ Cardinality(raced) <= 1 /\ edits + turns <= MaxMoves

SkinsAreRight == AwaitedIsHeard /\ FormIsTrue /\ SelectionIsSent /\ SavedIsTold /\ CacheFollows
=============================================================================
