--------------------------- MODULE ProcessRegistry ---------------------------
(***************************************************************************)
(* The registry of running game processes of                               *)
(* installation/src/process_control.rs.                                    *)
(*                                                                         *)
(* A launch is a thread running launch_instance: it asks the registry      *)
(* whether it is allowed, prepares the profile and the class path without  *)
(* any lock, spawns the child, waits 1.2 s, and only then registers the    *)
(* child.  Queries, stops and the UI's per-frame poll take the registry    *)
(* lock; every operation under that lock is one action.                    *)
(***************************************************************************)
EXTENDS FiniteSets, Naturals

CONSTANTS Launches,     \* launch attempts; each spawns at most one child
          Instances,    \* instance keys (canonical instance roots)
          Accounts,     \* normalised account keys
          NoAccount,    \* a launch without an account key
          MaxBacklog    \* MAX_FINISHED_PROCESS_BACKLOG

ASSUME RegistryAssumption ==
    /\ NoAccount \notin Accounts
    /\ MaxBacklog \in Nat

VARIABLES
    request,    \* what each launch was asked to start
    phase,      \* where each launch thread is
    child,      \* what the operating system says of the launch's child
    registry,   \* RUNNING_INSTANCE_PROCESSES
    finished,   \* FINISHED_INSTANCE_PROCESSES, reports the UI has not taken
    uiTaking,   \* the UI is inside take_finished_instance_processes
    delivered,  \* history: exits the UI has been told of
    unreported, \* history: dead children dropped without a report
    stopped,    \* history: children killed by a stop
    overlap     \* history: launches whose windows overlapped this one's

vars == <<request, phase, child, registry, finished, uiTaking,
          delivered, unreported, stopped, overlap>>
reports == <<finished, delivered, unreported, stopped>>

Requests == [inst : Instances, acct : Accounts \cup {NoAccount}]
Phases == {"idle", "rejected", "preparing", "spawned", "registered",
           "failed", "orphaned"}
ChildStates == {"none", "running", "exited", "lost"}

\* Between the admission check and the registration of the child a launch is
\* invisible to the registry.
InWindow == {p \in Launches : phase[p] \in {"preparing", "spawned"}}

\* try_wait() = Ok(None): the only answer that counts as running.
Running(p) == child[p] = "running"

Init ==
    /\ request \in [Launches -> Requests]
    /\ phase = [p \in Launches |-> "idle"]
    /\ child = [p \in Launches |-> "none"]
    /\ registry = [i \in Instances |-> {}]
    /\ finished = {}
    /\ uiTaking = FALSE
    /\ delivered = {}
    /\ unreported = {}
    /\ stopped = {}
    /\ overlap = [p \in Launches |-> {}]

-----------------------------------------------------------------------------
(* prune_finished_processes: drops every child that is not running.  Those  *)
(* with an exit status are pushed to the finished queue, which keeps no     *)
(* more than MaxBacklog and drops the newest; the others vanish silently.   *)

Registered == UNION {registry[i] : i \in Instances}

Fits(reps) == Cardinality(reps) <= MaxBacklog

\* Mutant of Pushed: the length is compared with <= before the push.
PushedPastTheCap(gone, kept) ==
    IF Cardinality(finished) <= MaxBacklog THEN kept = gone ELSE kept = {}

Pushed(gone, kept) ==
    \/ kept = gone /\ Fits(finished \cup gone)
    \/ /\ ~Fits(finished \cup gone)
       /\ Cardinality(finished \cup kept) = MaxBacklog

\* Mutant of Prune: `retain` keeps a child whose exit it has just reported.
PruneKeepsReported ==
    LET gone == {p \in Registered : child[p] = "exited"}
    IN  /\ \E kept \in SUBSET gone :
              /\ Pushed(gone, kept)
              /\ finished' = finished \cup kept
        /\ UNCHANGED <<registry, unreported, delivered, stopped>>

Prune ==
    LET gone == {p \in Registered : child[p] = "exited"}
        lost == {p \in Registered : child[p] = "lost"}
    IN  /\ registry' = [i \in Instances |-> {p \in registry[i] : Running(p)}]
        /\ \E kept \in SUBSET gone :
              /\ Pushed(gone, kept)
              /\ finished' = finished \cup kept
              /\ unreported' = unreported \cup lost \cup (gone \ kept)
        /\ UNCHANGED <<delivered, stopped>>

(* ensure_launch_allowed: the same account (or no account) already running  *)
(* in this instance, or this account running in another instance.           *)
Blocks(p, q) ==
    /\ Running(q)
    /\ \/ /\ q \in registry[request[p].inst]
          /\ request[q].acct = request[p].acct
       \/ /\ request[p].acct # NoAccount
          /\ request[q].acct = request[p].acct
          /\ \E i \in Instances \ {request[p].inst} : q \in registry[i]

\* Mutant of LaunchAllowed: the other instances are not searched.
LaunchAllowedHere(p) ==
    \A q \in registry[request[p].inst] :
        ~(Running(q) /\ request[q].acct = request[p].acct)

LaunchAllowed(p) == \A q \in Launches : ~Blocks(p, q)

EnterWindow(p) ==
    overlap' = [q \in Launches |->
                  IF q = p THEN InWindow
                  ELSE IF q \in InWindow THEN overlap[q] \cup {p}
                  ELSE overlap[q]]

Admit(p) ==
    /\ phase[p] = "idle"
    /\ LaunchAllowed(p)
    /\ Prune
    /\ phase' = [phase EXCEPT ![p] = "preparing"]
    /\ EnterWindow(p)
    /\ UNCHANGED <<request, child, uiTaking>>

Reject(p) ==
    /\ phase[p] = "idle"
    /\ ~LaunchAllowed(p)
    /\ Prune
    /\ phase' = [phase EXCEPT ![p] = "rejected"]
    /\ UNCHANGED <<request, child, uiTaking, overlap>>

\* Any `?` between the check and the spawn, the spawn's own error included.
PrepareFail(p) ==
    /\ phase[p] = "preparing"
    /\ phase' = [phase EXCEPT ![p] = "failed"]
    /\ UNCHANGED <<request, child, registry, reports, uiTaking, overlap>>

Spawn(p) ==
    /\ phase[p] = "preparing"
    /\ phase' = [phase EXCEPT ![p] = "spawned"]
    /\ child' = [child EXCEPT ![p] = "running"]
    /\ UNCHANGED <<request, registry, reports, uiTaking, overlap>>

\* After the sleep: a child that is already gone fails the launch.
ExitedImmediately(p) ==
    /\ phase[p] = "spawned"
    /\ ~Running(p)
    /\ phase' = [phase EXCEPT ![p] = "failed"]
    /\ UNCHANGED <<request, child, registry, reports, uiTaking, overlap>>

Register(p) ==
    /\ phase[p] = "spawned"
    /\ Running(p)
    /\ phase' = [phase EXCEPT ![p] = "registered"]
    /\ registry' = [registry EXCEPT ![request[p].inst] = @ \cup {p}]
    /\ UNCHANGED <<request, child, reports, uiTaking, overlap>>

-----------------------------------------------------------------------------
(* stop_running_instance removes the instance's entry and kills what still  *)
(* runs; stop_running_instance_for_account only that account's children.    *)

Stop(i, victims) ==
    /\ registry' = [registry EXCEPT ![i] = @ \ victims]
    /\ child' = [p \in Launches |->
                   IF p \in victims /\ Running(p) THEN "exited" ELSE child[p]]
    /\ stopped' = stopped \cup {p \in victims : Running(p)}
    /\ unreported' = unreported \cup {p \in victims : ~Running(p)}
    /\ UNCHANGED <<request, phase, finished, delivered, uiTaking, overlap>>

StopInstance(i) ==
    /\ registry[i] # {}
    /\ Stop(i, registry[i])

StopForAccount(i, a) ==
    LET victims == {p \in registry[i] : request[p].acct = a}
    IN  victims # {} /\ Stop(i, victims)

\* is_instance_running, running_instance_for_account and the other queries
\* change nothing but what the prune changes.
Query ==
    /\ Prune
    /\ UNCHANGED <<request, phase, child, uiTaking, overlap>>

\* take_finished_instance_processes takes the two locks one after the other.
TakePrune ==
    /\ ~uiTaking
    /\ Prune
    /\ uiTaking' = TRUE
    /\ UNCHANGED <<request, phase, child, overlap>>

\* Mutant of TakeDrain: the queue is cloned, not taken.
TakeDrainClone ==
    /\ uiTaking
    /\ uiTaking' = FALSE
    /\ delivered' = delivered \cup finished
    /\ UNCHANGED <<request, phase, child, registry, finished, unreported,
                   stopped, overlap>>

TakeDrain ==
    /\ uiTaking
    /\ uiTaking' = FALSE
    /\ finished' = {}
    /\ delivered' = delivered \cup finished
    /\ UNCHANGED <<request, phase, child, registry, unreported, stopped, overlap>>

-----------------------------------------------------------------------------
(* The environment: the game exits, or waitpid loses its status; the        *)
(* launcher quits and starts again with an empty registry, leaving the      *)
(* children it had running.                                                 *)

Exit(p) ==
    /\ Running(p)
    /\ \E end \in {"exited", "lost"} : child' = [child EXCEPT ![p] = end]
    /\ UNCHANGED <<request, phase, registry, reports, uiTaking, overlap>>

Restart ==
    /\ \E p \in Launches : phase[p] # "idle"
    /\ phase' = [p \in Launches |->
                   IF phase[p] = "idle" THEN "idle" ELSE "orphaned"]
    /\ registry' = [i \in Instances |-> {}]
    /\ finished' = {}
    /\ uiTaking' = FALSE
    /\ UNCHANGED <<request, child, delivered, unreported, stopped, overlap>>

Next ==
    \/ \E p \in Launches :
          \/ Admit(p) \/ Reject(p) \/ PrepareFail(p) \/ Spawn(p)
          \/ ExitedImmediately(p) \/ Register(p) \/ Exit(p)
    \/ \E i \in Instances : StopInstance(i)
    \/ \E i \in Instances, a \in Accounts : StopForAccount(i, a)
    \/ Query
    \/ TakePrune
    \/ TakeDrain
    \/ Restart

Spec == Init /\ [][Next]_vars

\* The UI polls the registry every frame.  Nothing else is promised: games
\* need not exit and users need not launch or stop anything.
FairSpec == Spec /\ WF_vars(TakePrune) /\ WF_vars(TakeDrain)

-----------------------------------------------------------------------------
\* Every variable has its type, and the finished queue respects its cap.
TypeOK ==
    /\ request \in [Launches -> Requests]
    /\ phase \in [Launches -> Phases]
    /\ child \in [Launches -> ChildStates]
    /\ registry \in [Instances -> SUBSET Launches]
    /\ finished \in SUBSET Launches
    /\ Cardinality(finished) <= MaxBacklog
    /\ uiTaking \in BOOLEAN
    /\ delivered \in SUBSET Launches
    /\ unreported \in SUBSET Launches
    /\ stopped \in SUBSET Launches
    /\ overlap \in [Launches -> SUBSET Launches]

\* The launcher never loses track of a game it started: a running child is in
\* the registry under its own instance (so that a stop reaches it), unless its
\* launch is still inside the 1.2 s window or an earlier session started it.
RunningIsTracked ==
    \A p \in Launches :
        Running(p) =>
            \/ phase[p] \in {"spawned", "orphaned"}
            \/ p \in registry[request[p].inst]

\* Two launches conflict when ensure_launch_allowed would refuse one of them
\* while the other's child runs.
Conflict(p, q) ==
    /\ p # q
    /\ request[p].acct = request[q].acct
    /\ request[p].acct # NoAccount \/ request[p].inst = request[q].inst

Playing(p) == phase[p] = "registered" /\ Running(p)

\* The admission check is only as good as its window: two conflicting games of
\* one session can run together only if their launches overlapped between the
\* check and the registration.
ExclusiveUnlessOverlapping ==
    \A p, q \in Launches :
        Playing(p) /\ Playing(q) /\ Conflict(p, q) => q \in overlap[p]

\* An exit is reported to the UI at most once: a child in the registry has not
\* been reported yet, a report taken by the UI never comes back, and a game the
\* user stopped (or that was dropped silently) is never announced as finished.
ReportedAtMostOnce ==
    /\ Registered \cap (finished \cup delivered \cup unreported \cup stopped) = {}
    /\ finished \cap delivered = {}
    /\ (finished \cup delivered) \cap (unreported \cup stopped) = {}


\* With the UI polling, every child that dies after registration is reported,
\* unless a stop or a full backlog swallowed the report.
ExitIsSettled ==
    \A p \in Launches :
        (phase[p] = "registered" /\ ~Running(p))
            ~> (p \in delivered \cup unreported \cup stopped
                \/ phase[p] = "orphaned")
=============================================================================
