------------------------------- MODULE Console -------------------------------
(***************************************************************************)
(* The console (launcher_ui/console.rs): a tab for the launcher and one    *)
(* for each account that plays an instance, whose games' logs are read     *)
(* from their files by threads of their own; and what the console's screen *)
(* has merged of the active tab's lines so far (kit.rs, log_collapse.rs).  *)
(* One instance is modelled.  Its tabs are named after it and the account, *)
(* so a new name renames the account's tab at its next launch.             *)
(*                                                                         *)
(* A file's length is counted in half lines: an odd one ends amid a line.  *)
(*                                                                         *)
(* The merge of repeated lines (log_collapse.rs) is taken by itself: lines *)
(* are written by their keys, and the screen takes in some at a time.      *)
(***************************************************************************)
EXTENDS Naturals, FiniteSets, Sequences, SequencesExt

CONSTANTS Users, Names, Nothing,
          MaxGames,     \* launches
          MaxLines,     \* MAX_CONSOLE_LINES
          MaxLength,    \* half lines a game writes
          MaxActs,      \* new names, closed tabs and frames of the screen, altogether
          LineKeys,     \* what lines say, a sequence: one is first used after those before it
          Window,       \* WINDOW
          KeepOpen,     \* KEEP_OPEN
          MaxLog, MaxFresh

VARIABLES
    tabs,      \* in the order they are shown: id, account, and every line it ever had
    active,    \* active_tab_id
    name,      \* the instance's name
    games,     \* per game: whose it is, how far it is, the length of its log, the thread that reads it
    views,     \* per tab id: what the screen has taken in, and shows
    displaced, \* history: games whose thread writes to a tab id that was closed or renamed
    reborn,    \* history: tab ids given to a new tab after the screen had shown an earlier one
    gone,      \* history: lines of closed tabs
    acts       \* how many of MaxActs there were

VARIABLES
    log,       \* the keys of all lines so far
    merger     \* Merger: how many it has consumed, the runs it holds, the lines that are settled, and the others
mergeVars == <<log, merger>>

consoleVars == <<tabs, active, name, games, views, displaced, reborn, gone, acts>>

Games == 1 .. MaxGames
Default == <<"vertexlauncher", "vertexlauncher">>
IdOf(n, u) == <<n, u>>
Tab(id, u) == [id |-> id, user |-> u, all |-> <<>>]
Ids == {tabs[i].id : i \in DOMAIN tabs}
Idle == [user |-> Nothing, name |-> Nothing, at |-> "none", length |-> 0, tail |-> Nothing]

Init ==
    /\ tabs = <<Tab(Default, Nothing)>> /\ active = Default
    /\ name = CHOOSE n \in Names : TRUE
    /\ games = [g \in Games |-> Idle]
    /\ views = <<>> /\ displaced = {} /\ reborn = {} /\ gone = {}
    /\ acts = 0

Acts == acts < MaxActs /\ acts' = acts + 1

-------------------------------------------------------------------------------
\* Pushed(ts, id, line): a line whose tab is gone goes to the launcher's tab.
Pushed(ts, id, line) ==
    LET to == IF \E i \in DOMAIN ts : ts[i].id = id THEN id ELSE Default
    IN [i \in DOMAIN ts |-> IF ts[i].id = to THEN [ts[i] EXCEPT !.all = Append(@, line)] ELSE ts[i]]

\* What a tab still holds, and the number of those trimmed off its front.
Held(tab) == SubSeq(tab.all, Len(tab.all) - (IF Len(tab.all) < MaxLines THEN Len(tab.all) ELSE MaxLines) + 1, Len(tab.all))
Trimmed(tab) == Len(tab.all) - Len(Held(tab))

\* Mutant of Ensured: an account's tab of another name is left as it is.
EnsuredAnew(ts, id, u) ==
    IF \E i \in DOMAIN ts : ts[i].id = id THEN ts ELSE Append(ts, Tab(id, u))

\* ensure_instance_tab, collapse_tabs_for_instance_user: the tab of this id, else the account's tab
\* under its new id, else a new one; other tabs of the account are dropped.
Ensured(ts, id, u) ==
    LET Collapsed(s) == SelectSeq(s, LAMBDA t : t.user = u => t.id = id)
    IN IF \E i \in DOMAIN ts : ts[i].id = id THEN Collapsed(ts)
       ELSE IF \E i \in DOMAIN ts : ts[i].user = u
            THEN LET first == CHOOSE i \in DOMAIN ts : ts[i].user = u /\ \A j \in 1..(i-1) : ts[j].user # u
                 IN Collapsed([ts EXCEPT ![first].id = id])
            ELSE Append(ts, Tab(id, u))

\* The history of a step that ensures the tab of an account.
Ensuring(id, u) ==
    LET after == Ensured(tabs, id, u)
        lost == Ids \ {after[i].id : i \in DOMAIN after}
    IN /\ displaced' = displaced \cup {g \in Games : games[g].tail # Nothing /\ games[g].tail.tab \in lost}
       /\ reborn' = IF id \notin Ids /\ id \in DOMAIN views THEN reborn \cup {id} ELSE reborn

\* One launch of an instance is pending at a time (pending_launches).
Pending(g) == games[g].at \in {"asked", "running", "ended"} /\ games[g].tail = Nothing

\* begin_quick_launch and the instance screen's: the tab and a first line.  (The accounts are alike:
\* it does not matter whose is the first.)
Request(g, u) ==
    /\ games[g].at = "none"
    /\ \A h \in Games : /\ h < g => games[h].at # "none"
                        /\ ~Pending(h)
                        /\ g = 1 => u = CHOOSE v \in Users : TRUE
                        /\ games[h].user = u => games[h].at # "running"
    /\ LET id == IdOf(name, u)
       IN /\ tabs' = Pushed(Ensured(tabs, id, u), id, <<g, 0>>)
          /\ active' = id
          /\ Ensuring(id, u)
    /\ games' = [games EXCEPT ![g] = [Idle EXCEPT !.user = u, !.name = name, !.at = "asked"]]
    /\ UNCHANGED <<name, views, gone, acts>>

Start(g) ==
    /\ games[g].at = "asked" /\ games' = [games EXCEPT ![g].at = "running"]
    /\ UNCHANGED <<tabs, active, name, views, displaced, reborn, gone, acts>>

\* The worker's answer: the tab again, a thread for the log, and a line; after a launch that
\* failed only the line.
Answer(g) ==
    /\ Pending(g)
    /\ LET id == IdOf(games[g].name, games[g].user)
           launched == games[g].at # "asked"
           tail == [tab |-> id, at |-> "push", offset |-> 0, pushed |-> 0, advanced |-> TRUE, quiet |-> FALSE]
       IN /\ tabs' = Pushed(Ensured(tabs, id, games[g].user), id, <<g, IF launched THEN 0 ELSE 1>>)
          /\ active' = id
          /\ Ensuring(id, games[g].user)
          /\ games' = [games EXCEPT ![g].at = IF launched THEN @ ELSE "failed",
                                    ![g].tail = IF launched THEN tail ELSE @]
    /\ UNCHANGED <<name, views, gone, acts>>

Write(g) ==
    /\ games[g].at = "running" /\ games[g].length < MaxLength
    /\ games' = [games EXCEPT ![g].length = @ + 1]
    /\ UNCHANGED <<tabs, active, name, views, displaced, reborn, gone, acts>>

Exit(g) ==
    /\ games[g].at = "running" /\ games' = [games EXCEPT ![g].at = "ended"]
    /\ UNCHANGED <<tabs, active, name, views, displaced, reborn, gone, acts>>

Rename(n) ==
    /\ n # name /\ name' = n /\ Acts
    /\ UNCHANGED <<tabs, active, games, views, displaced, reborn, gone>>

-------------------------------------------------------------------------------
(* tail_launch_log_to_tab: in each turn the file is read to its end and the *)
(* whole lines are pushed; the thread ends when the instance runs no game,  *)
(* nothing new was read, and no game ran some time ago.                     *)

AnyRuns == \E g \in Games : games[g].at = "running"
Reads(g, at) == games[g].tail # Nothing /\ games[g].tail.at = at
SetTail(g, t) == games' = [games EXCEPT ![g].tail = t]

\* flush_complete_log_lines; at the thread's end the line that has no end.
TailPush(g) ==
    /\ LET t == games[g].tail
       IN /\ \/ Reads(g, "push") /\ t.pushed < t.offset \div 2
             \/ Reads(g, "rest") /\ 2 * t.pushed < t.offset
          /\ tabs' = Pushed(tabs, t.tab, <<g, t.pushed + 1>>)
          /\ SetTail(g, [t EXCEPT !.pushed = @ + 1])
    /\ UNCHANGED <<active, name, views, displaced, reborn, gone, acts>>

\* Mutant of Over: a thread ends as soon as no game runs.
OverAtOnce(g) == ~AnyRuns

Over(g) ==
    /\ ~AnyRuns /\ games[g].tail.quiet
    /\ games[g].length <= games[g].tail.offset /\ ~games[g].tail.advanced

\* The end of one turn of the loop and the reading that begins the next.
TailTurn(g) ==
    /\ Reads(g, "push") /\ games[g].tail.pushed = games[g].tail.offset \div 2
    /\ \/ Over(g) /\ SetTail(g, [games[g].tail EXCEPT !.at = "rest"])
       \/ /\ ~Over(g)
          /\ SetTail(g, [games[g].tail EXCEPT !.offset = games[g].length, !.quiet = ~AnyRuns,
                                              !.advanced = games[g].length > games[g].tail.offset])
    /\ UNCHANGED <<tabs, active, name, views, displaced, reborn, gone, acts>>

-------------------------------------------------------------------------------
(* The screen.                                                              *)

\* close_tab: the games of the instance are stopped, whichever account's they are.
CloseTab(id) ==
    /\ id \in Ids \ {Default} /\ Acts
    /\ tabs' = SelectSeq(tabs, LAMBDA t : t.id # id)
    /\ active' = IF active = id THEN Default ELSE active
    /\ games' = [g \in Games |-> IF games[g].at = "running" THEN [games[g] EXCEPT !.at = "ended"] ELSE games[g]]
    /\ displaced' = displaced \cup {g \in Games : games[g].tail # Nothing /\ games[g].tail.tab = id}
    /\ gone' = gone \cup UNION {ToSet(tabs[i].all) : i \in {j \in DOMAIN tabs : tabs[j].id = id}}
    /\ UNCHANGED <<name, views, reborn>>

\* Mutant of Taken: the lines are counted from the oldest that is left.
TakenFromHeld(view, tab) ==
    LET have == Held(tab)
        old == IF view.consumed > Len(have) THEN [consumed |-> 0, shown |-> <<>>] ELSE view
    IN [consumed |-> Len(have), shown |-> old.shown \o SubSeq(have, old.consumed + 1, Len(have))]

\* Merger::update: the lines that are new by their number, or all there are if some it has not
\* taken in are trimmed, or it has taken in more than there ever were.
Taken(view, tab) ==
    LET first == Trimmed(tab)
        end == Len(tab.all)
        old == IF view.consumed < first \/ view.consumed > end THEN [consumed |-> first, shown |-> <<>>] ELSE view
    IN [consumed |-> end, shown |-> old.shown \o SubSeq(Held(tab), old.consumed - first + 1, Len(Held(tab)))]

\* render: a tab is chosen by a click, for the newest launch (take_focus_request) or for the account
\* in the bar (activate_tab_for_instance_root, activate_tab_for_user); then its snapshot is merged.
Frame(i) ==
    LET id == tabs[i].id
        view == IF id \in DOMAIN views THEN views[id] ELSE [consumed |-> 0, shown |-> <<>>]
    IN /\ Acts /\ active' = id
       /\ views' = [v \in DOMAIN views \cup {id} |-> IF v = id THEN Taken(view, tabs[i]) ELSE views[v]]
       /\ UNCHANGED <<tabs, name, games, displaced, reborn, gone>>

Next ==
    \/ \E g \in Games : \/ \E u \in Users : Request(g, u)
                        \/ Start(g) \/ Answer(g) \/ Write(g) \/ Exit(g)
                        \/ TailPush(g) \/ TailTurn(g)
    \/ \E n \in Names : Rename(n)
    \/ \E id \in Ids : CloseTab(id)
    \/ \E i \in DOMAIN tabs : Frame(i)

-------------------------------------------------------------------------------
(* log_collapse.rs.  A unit is a run of equal lines or a pattern: its key,  *)
(* the runs it covers, the last line it covers, the lines shown for it, and *)
(* the runs two of its cycles cover at most.                                *)

SumOf(units, from, to) == MapThenSumSet(LAMBDA i : units[i].runs, from .. to)
LinesOf(units) == FlattenSeq([i \in DOMAIN units |-> units[i].lines])

\* A run shows its first line and, with how many there are in between, its last.
Run(r) == [key |-> <<r.key>>, runs |-> 1, latest |-> r.last, width |-> 0,
           lines |-> IF r.count = 1 THEN <<<<r.first>>>> ELSE <<<<r.first>>, <<r.last, r.count - 1>>>>]

\* Into(runs, k, n): line n is one more of the last run, or the first of the next.
Into(runs, k, n) ==
    IF runs # <<>> /\ Last(runs).key = k THEN [runs EXCEPT ![Len(runs)] = [@ EXCEPT !.last = n, !.count = @ + 1]]
    ELSE Append(runs, [key |-> k, first |-> n, last |-> n, count |-> 1])

SameCycle(units, a, b, len) == \A i \in 0 .. len - 1 : units[a + i].key = units[b + i].key

\* How often the cycle at `at` is repeated right after itself.
Repetitions(units, at, len) ==
    Max({0} \cup {n \in 1 .. Len(units) : /\ at + (n + 1) * len <= Len(units) + 1
                                          /\ SameCycle(units, at, at + len, n * len)})

\* The cycle that covers the most, the shorter on a tie; its length is 0 if none repeats.
Best(units, at) ==
    LET cycles == [l \in 1 .. Window |-> [len |-> l, reps |-> Repetitions(units, at, l)]]
        Better(b, c) == IF c.reps > 0 /\ c.len * (c.reps + 1) > b.len * (b.reps + 1) THEN c ELSE b
    IN FoldLeft(Better, [len |-> 0, reps |-> 0], cycles)

\* The lines of the first cycle, and how often it was repeated, dated by the latest.
Pattern(units, at, len, reps) ==
    LET Cycle(k) == SumOf(units, at + k * len, at + (k + 1) * len - 1)
        cycle == SubSeq(units, at, at + len - 1)
        latest == units[at + (reps + 1) * len - 1].latest
    IN [key |-> <<"[">> \o FlattenSeq([i \in DOMAIN cycle |-> cycle[i].key \o <<"|">>]) \o <<"]">>,
        runs |-> SumOf(units, at, at + (reps + 1) * len - 1), latest |-> latest,
        lines |-> Append(LinesOf(cycle), <<latest, len, reps>>),
        width |-> Max({Cycle(k) + Cycle(k + 1) : k \in 0 .. reps - 1}
                      \cup {units[i].width : i \in at .. at + (reps + 1) * len - 1})]

\* pattern_pass: every cycle that repeats becomes one unit.
Pass(units) ==
    LET from[at \in 1 .. Len(units) + 1] ==
            IF at > Len(units) THEN <<>>
            ELSE LET best == Best(units, at)
                 IN IF best.len = 0 THEN <<units[at]>> \o from[at + 1]
                    ELSE <<Pattern(units, at, best.len, best.reps)>> \o from[at + (best.reps + 1) * best.len]
    IN from[1]

\* The runs before the first that more lines could change the merge from: a cycle that still
\* repeats at the end may come to cover more.
UnsettledFrom(units) ==
    LET n == Len(units)
        Since(len) == Min({s \in 0 .. n - len : \A j \in s + 1 .. n - len : units[j].key = units[j + len].key})
    IN SumOf(units, 1, Min({Max({0, n - 2 * Window})} \cup {Since(l) : l \in {k \in 1 .. Window : k < n}}))

\* merge: patterns of patterns, until nothing changes.
MergedUnits(units, runs) ==
    LET after[n \in 0 .. runs] ==
            IF n = 0 THEN [units |-> units, unsettled |-> runs, more |-> TRUE]
            ELSE LET last == after[n - 1]
                     next == Pass(last.units)
                 IN IF ~last.more THEN last
                    ELSE [units |-> next, unsettled |-> Min({last.unsettled, UnsettledFrom(last.units)}),
                          more |-> next # last.units]
    IN after[runs]

Merge(runs) == MergedUnits([i \in DOMAIN runs |-> Run(runs[i])], Len(runs))

\* collapse: the merge of a whole log.
Collapse(lines) == Merge(FoldLeft(LAMBDA runs, i : Into(runs, lines[i], i), <<>>, [i \in DOMAIN lines |-> i])).units
Width(units) == Max({0} \cup {units[i].width : i \in DOMAIN units})

MergeInit ==
    /\ log = <<>>
    /\ merger = [consumed |-> 0, held |-> <<>>, settled |-> <<>>, open |-> <<>>]

Log(i) ==
    /\ Len(log) < MaxLog /\ Len(log) < merger.consumed + MaxFresh
    /\ \A j \in 1 .. i - 1 : Contains(log, LineKeys[j])
    /\ log' = Append(log, LineKeys[i])
    /\ UNCHANGED merger

\* Mutant of Drained: as many runs are let go as there are groups.
DrainedGroups(held, units, groups) == SubSeq(held, groups + 1, Len(held))

\* The runs of the groups that are settled are let go.
Drained(held, units, groups) == SubSeq(held, SumOf(units, 1, groups) + 1, Len(held))

\* Merger::update: the new lines join what is held; groups that end before anything more lines
\* could change are settled, but never any of the newest KEEP_OPEN runs.
Update ==
    /\ merger.consumed < Len(log)
    /\ LET fresh == [i \in 1 .. Len(log) - merger.consumed |-> merger.consumed + i]
           held == FoldLeft(LAMBDA runs, i : Into(runs, log[i], i), merger.held, fresh)
           merged == Merge(held)
           until == Min({merged.unsettled, Max({0, Len(held) - KeepOpen})})
           groups == Max({0} \cup {g \in DOMAIN merged.units : SumOf(merged.units, 1, g) <= until})
       IN merger' = [consumed |-> Len(log),
                        held |-> Drained(held, merged.units, groups),
                        settled |-> merger.settled \o LinesOf(SubSeq(merged.units, 1, groups)),
                        open |-> LinesOf(SubSeq(merged.units, groups + 1, Len(merged.units)))]
    /\ UNCHANGED log

MergeNext == Update \/ \E i \in DOMAIN LineKeys : Log(i)

(***************************************************************************)
(* Properties.                                                             *)
(***************************************************************************)
Lines(tab) == ToSet(tab.all)
Has(g, tab) == SelectSeq(tab.all, LAMBDA l : l[1] = g /\ l[2] > 0)

\* The launcher's tab is there, an account has one tab, and the active tab is one of them.
TabsAreOne ==
    /\ Default \in Ids /\ active \in Ids
    /\ \A i, j \in DOMAIN tabs : i # j => tabs[i].id # tabs[j].id /\ tabs[i].user # tabs[j].user

\* A thread that has ended has pushed every line of its game, the unfinished last one too; a game's
\* lines are in order, each in one place, and in no other account's tab, nor in the launcher's
\* unless the tab was closed or renamed.
LogsAreKept ==
    \A g \in Games :
        /\ games[g].at = "ended" /\ Reads(g, "rest") /\ 2 * games[g].tail.pushed >= games[g].tail.offset =>
             \A k \in 1 .. (games[g].length + 1) \div 2 :
                <<g, k>> \in gone \cup UNION {Lines(tabs[i]) : i \in DOMAIN tabs}
        /\ \A i \in DOMAIN tabs :
             LET here == Has(g, tabs[i])
             IN /\ \A a, b \in DOMAIN here : a < b => here[a][2] < here[b][2]
                /\ here # <<>> => tabs[i].user = games[g].user \/ (tabs[i].id = Default /\ g \in displaced)
                /\ \A j \in DOMAIN tabs \ {i} : ToSet(here) \cap Lines(tabs[j]) = {}

\* What the screen shows of a tab is a stretch of its lines up to the last it has taken in, none left
\* out and none twice, however many were trimmed and whichever tabs were looked at in between;
\* except under an id that belonged to another tab before.
ViewsAreTrue ==
    \A i \in DOMAIN tabs : tabs[i].id \in DOMAIN views \ reborn =>
        LET v == views[tabs[i].id]
        IN v.consumed <= Len(tabs[i].all) =>
             /\ Len(v.shown) <= v.consumed
             /\ v.shown = SubSeq(tabs[i].all, v.consumed - Len(v.shown) + 1, v.consumed)

\* What is shown after lines were taken in a few at a time is the merge of the whole log at once, as
\* long as two successive cycles of every pattern were within the newest KEEP_OPEN runs.
MergedAsAWhole ==
    merger.consumed = Len(log) =>
        \/ merger.settled \o merger.open = LinesOf(Collapse(log))
        \/ \E n \in 1 .. Len(log) : Width(Collapse(SubSeq(log, 1, n))) > KeepOpen

ConsoleIsRight == TabsAreOne /\ LogsAreKept /\ ViewsAreTrue
=============================================================================
