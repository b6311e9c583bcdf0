------------------------------ MODULE StoreSaver ------------------------------
(***************************************************************************)
(* How the instance store reaches the disk (se5/mod.rs: Saver, commit,     *)
(* save_on_exit; instances: load_store, save_store; cli.rs).  The UI saves *)
(* in the background, one job at a time, and once more when its window     *)
(* closes.  A command-line launch, which the single-instance guard does    *)
(* not stop, loads the store and saves it when the game has started.       *)
(*                                                                         *)
(* save_store truncates the file and writes it piece by piece: between     *)
(* the first step and the last the file is torn, and two writers mix.      *)
(* A store is the set of changes made to it.                               *)
(***************************************************************************)
EXTENDS Naturals, Sequences, FiniteSets

CONSTANT MaxChanges     \* bound on the changes made

VARIABLES
    ui,         \* off, open, closing, saved: the process has still to end
    mem,        \* the store in memory; AppState.saved_instances follows it
    pending,    \* Saver.pending
    inFlight,   \* Saver.in_flight
    jobs,       \* background saves that have not opened the file
    results,    \* Saver.results
    snapshot,   \* exit_snapshot
    base,       \* the store a command-line launch has loaded
    file,       \* what the file holds
    writers,    \* who has the file open
    made,       \* the changes made so far
    fine,       \* history: the last background save did not fail
    durable,    \* history: changes that were in the file when it was whole
    promised,   \* history: what a save on exit has written
    excused     \* history: why changes may be lost

uiState == <<ui, mem, pending, inFlight, jobs, results, snapshot>>
history == <<fine, durable, promised, excused>>
vars == <<ui, mem, pending, inFlight, jobs, results, snapshot, base, file,
          writers, made, fine, durable, promised, excused>>

Changes == 1..MaxChanges
Stores == SUBSET Changes
None == {0}
Torn == {0}
Excuses == {"not loaded", "saved while saving", "two processes"}

Init ==
    /\ ui = "off"
    /\ mem = {} /\ pending = None /\ inFlight = FALSE
    /\ jobs = {} /\ results = <<>> /\ snapshot = None
    /\ base = None
    /\ file = {} /\ writers = {}
    /\ made = 0
    /\ fine = TRUE /\ durable = {} /\ promised = None /\ excused = {}

-----------------------------------------------------------------------------
(* The file.                                                                *)

Mixed(w) == \E v \in writers : v.store # w.store

\* File::create truncates the file under whoever has it open.
Open(who, store) ==
    LET w == [who |-> who, store |-> store, mixed |-> FALSE]
        Meet(v, u) == [v EXCEPT !.mixed = @ \/ v.store # u.store]
    IN  /\ writers' = {Meet(v, w) : v \in writers} \cup
                         {[w EXCEPT !.mixed = Mixed(w)]}
        /\ file' = Torn

\* The last write.  Of two writers with different stores either may be left, or a
\* mixture; the same holds of a writer whose file was truncated under it.
Close(w) ==
    /\ writers' = writers \ {w}
    /\ file' \in IF w.mixed THEN {w.store, Torn, file}
                 ELSE IF writers = {w} THEN {w.store} ELSE {w.store, Torn}
    /\ durable' = IF file' = Torn THEN durable ELSE durable \cup file'

-----------------------------------------------------------------------------
(* The UI.                                                                  *)

\* load_store: a file that cannot be read or does not parse is reported, and the
\* UI goes on with an empty store.
UiStart(loaded) ==
    /\ ui = "off"
    /\ loaded => file # Torn
    /\ ui' = "open"
    /\ mem' = IF loaded THEN file ELSE {}
    /\ pending' = None /\ inFlight' = FALSE
    /\ jobs' = {} /\ results' = <<>> /\ snapshot' = None
    /\ fine' = TRUE
    /\ promised' = None
    /\ excused' = excused \cup (IF loaded THEN {} ELSE {"not loaded"})
                          \cup (IF base # None THEN {"two processes"} ELSE {})
    /\ UNCHANGED <<base, file, writers, made, durable>>

\* Mutant of Start: a job is started although one is in flight.
StartAlways(store, busy) ==
    IF store = None
    THEN pending' = store /\ inFlight' = busy /\ UNCHANGED jobs
    ELSE pending' = None /\ inFlight' = TRUE /\ jobs' = jobs \cup {store}

\* Saver::start, with what is pending and whether a save is in flight.
Start(store, busy) ==
    IF busy \/ store = None
    THEN pending' = store /\ inFlight' = busy /\ UNCHANGED jobs
    ELSE pending' = None /\ inFlight' = TRUE /\ jobs' = jobs \cup {store}

\* Mutant of NextPending: what is pending is kept.
FirstPending(store) == IF pending = None THEN store ELSE pending

\* Saver::queue: the newest state wins.
NextPending(store) == store

\* Mutant of Snapshot: the store of the first frame is kept.
FirstSnapshot(store) == IF snapshot = None THEN store ELSE snapshot

\* What commit keeps for the exit.
Snapshot(store) == store

\* A frame in which the store does not change: it too is kept, so that a UI which
\* changed nothing saves on exit as well.
Frame ==
    /\ ui = "open"
    /\ snapshot' = Snapshot(mem)
    /\ UNCHANGED <<ui, mem, pending, inFlight, jobs, results, base, file, writers,
                   made, history>>

\* A frame in which the store changes: commit queues it and keeps it.
Change ==
    /\ ui = "open" /\ made < MaxChanges
    /\ made' = made + 1
    /\ mem' = mem \cup {made'}
    /\ Start(NextPending(mem'), inFlight)
    /\ snapshot' = Snapshot(mem')
    /\ UNCHANGED <<ui, results, base, file, writers, history>>

\* Saver::poll, at the start of a frame.
Poll ==
    /\ ui = "open"
    /\ results # <<>>
    /\ results' = <<>>
    /\ fine' = (results[Len(results)] = "ok")
    /\ Start(pending, FALSE)
    /\ UNCHANGED <<ui, mem, snapshot, base, file, writers, made, durable, promised, excused>>

\* A background save opens the file, or cannot.
JobOpen(store) ==
    /\ store \in jobs
    /\ jobs' = jobs \ {store}
    /\ \/ Open("saver", store) /\ UNCHANGED results
       \/ results' = Append(results, "err") /\ UNCHANGED <<file, writers>>
    /\ UNCHANGED <<ui, mem, pending, inFlight, snapshot, base, made, history>>

JobClose(w) ==
    /\ w.who = "saver"
    /\ \/ /\ Close(w)
          /\ results' = Append(results, "ok")
       \/ /\ writers' = writers \ {w}
          /\ results' = Append(results, "err")
          /\ UNCHANGED <<file, durable>>
    /\ UNCHANGED <<ui, mem, pending, inFlight, jobs, snapshot, base, made, fine,
                   promised, excused>>

\* The job panics, or the pool drops it: no result is sent, and nothing is saved in
\* the background any more.
JobLost(store) ==
    /\ store \in jobs
    /\ jobs' = jobs \ {store}
    /\ UNCHANGED <<ui, mem, pending, inFlight, results, snapshot, base, file,
                   writers, made, history>>

WindowCloses ==
    /\ ui = "open"
    /\ ui' = "closing"
    /\ UNCHANGED <<mem, pending, inFlight, jobs, results, snapshot, base, file,
                   writers, made, history>>

Saving == jobs # {} \/ \E w \in writers : w.who = "saver"

\* save_on_exit; nothing waits for the pool.
ExitOpen ==
    /\ ui = "closing" /\ snapshot # None
    /\ Open("exit", snapshot)
    /\ snapshot' = None
    /\ excused' = IF Saving THEN excused \cup {"saved while saving"} ELSE excused
    /\ UNCHANGED <<ui, mem, pending, inFlight, jobs, results, base, made, fine,
                   durable, promised>>

ExitClose(w) ==
    /\ w.who = "exit"
    /\ ui' = "saved"
    /\ \/ Close(w) /\ promised' = mem
       \/ /\ writers' = writers \ {w}
          /\ UNCHANGED <<file, durable, promised>>
    /\ UNCHANGED <<mem, pending, inFlight, jobs, results, snapshot, base, made,
                   fine, excused>>

\* The process ends, whatever its threads are doing; or it dies before.
UiEnds ==
    /\ ui # "off"
    /\ ui' = "off"
    /\ jobs' = {}
    /\ writers' = {w \in writers : w.who = "cli"}
    /\ UNCHANGED <<mem, pending, inFlight, results, snapshot, base, file, made, history>>

-----------------------------------------------------------------------------
(* A command-line launch: it stops when the store does not load.            *)

CliLoad ==
    /\ base = None /\ file # Torn
    /\ base' = file
    /\ excused' = IF ui # "off" THEN excused \cup {"two processes"} ELSE excused
    /\ UNCHANGED <<uiState, file, writers, made, fine, durable, promised>>

CliOpen ==
    /\ base # None /\ made < MaxChanges
    /\ \A w \in writers : w.who # "cli"
    /\ made' = made + 1
    /\ Open("cli", base \cup {made'})
    /\ promised' = None
    /\ UNCHANGED <<uiState, base, fine, durable, excused>>

\* It has saved, or could not, and ends; or the launch had failed before.
CliEnds ==
    /\ base # None
    /\ base' = None
    /\ \/ \E w \in writers : w.who = "cli" /\ Close(w)
       \/ /\ writers' = {w \in writers : w.who # "cli"}
          /\ UNCHANGED <<file, durable>>
    /\ UNCHANGED <<uiState, made, fine, promised, excused>>

Next ==
    \/ \E loaded \in BOOLEAN : UiStart(loaded)
    \/ Frame \/ Change \/ Poll \/ WindowCloses \/ ExitOpen \/ UiEnds
    \/ \E store \in jobs : JobOpen(store) \/ JobLost(store)
    \/ \E w \in writers : JobClose(w) \/ ExitClose(w)
    \/ CliLoad \/ CliOpen \/ CliEnds

Spec == Init /\ [][Next]_vars

-----------------------------------------------------------------------------
\* At most one background write is in flight, as Saver's comment says, whatever
\* is queued while it runs; the flag covers it until its result is polled.
TypeOK ==
    /\ ui \in {"off", "open", "closing", "saved"}
    /\ mem \in Stores /\ pending \in Stores \cup {None}
    /\ inFlight \in BOOLEAN
    /\ results \in Seq({"ok", "err"})
    /\ snapshot \in Stores \cup {None} /\ base \in Stores \cup {None}
    /\ file \in Stores \cup {Torn}
    /\ writers \subseteq [who : {"saver", "exit", "cli"}, store : Stores, mixed : BOOLEAN]
    /\ made \in 0..MaxChanges
    /\ excused \subseteq Excuses
    /\ LET saves == Cardinality(jobs) + Len(results)
                      + Cardinality({w \in writers : w.who = "saver"})
       IN  saves <= 1 /\ (ui = "open" /\ saves = 1 => inFlight)

\* The newest state wins: when the saver has nothing left to do the file holds the
\* store in memory, unless the save failed or another process wrote.
NewestWins ==
    ui = "open" /\ ~inFlight /\ fine /\ excused = {} => file = mem

\* What a whole file once held is in every whole file after it, through failed
\* saves and exits, unless the UI saved on exit while it was saving, could not load
\* the file, or shared the store with a command-line launch.
SavedIsKept ==
    excused = {} /\ file # Torn => durable \subseteq file

\* A save on exit that succeeds leaves the newest store in the file, also when the
\* background saver is stuck or its saves failed, unless it was still writing.
ExitSaves ==
    promised # None /\ excused = {} => file = promised

\* se5/mod.rs:291: the save on exit is there "so a background save that the exit
\* cut short cannot lose them".  One UI alone, with a file it could load.
ExitSavesDespiteSaver ==
    promised # None /\ excused \subseteq {"saved while saving"} => file = promised
=============================================================================
