------------------------------- MODULE JobQueue -------------------------------
(***************************************************************************)
(* What launcher_runtime::spawn_blocking promises its callers (lib.rs,     *)
(* sync.rs and the comments of exec.rs): a job that was handed in waits    *)
(* its turn in order, runs at most once with at most Cap others, and its   *)
(* handle is settled: with its value, or with an error if it panicked or   *)
(* was dropped.  Jobs are dropped only while none is running.              *)
(***************************************************************************)
EXTENDS Naturals, Sequences, FiniteSets

CONSTANTS Jobs, Cap

VARIABLES
    waiting,    \* the jobs handed in that have not started, in order
    running,    \* the jobs being run
    outcome     \* what each job's handle holds

vars == <<waiting, running, outcome>>

Waits(j) == \E i \in DOMAIN waiting : waiting[i] = j
New(j) == outcome[j] = "none" /\ j \notin running /\ ~Waits(j)

Init ==
    /\ waiting = <<>>
    /\ running = {}
    /\ outcome = [j \in Jobs |-> "none"]

Submit(j) ==
    /\ New(j)
    /\ waiting' = Append(waiting, j)
    /\ UNCHANGED <<running, outcome>>

Start ==
    /\ waiting # <<>>
    /\ Cardinality(running) < Cap
    /\ running' = running \cup {Head(waiting)}
    /\ waiting' = Tail(waiting)
    /\ UNCHANGED outcome

Finish(j) ==
    /\ j \in running
    /\ running' = running \ {j}
    /\ \E result \in {"value", "error"} : outcome' = [outcome EXCEPT ![j] = result]
    /\ UNCHANGED waiting

DropAll ==
    /\ waiting # <<>>
    /\ running = {}
    /\ waiting' = <<>>
    /\ outcome' = [j \in Jobs |-> IF Waits(j) THEN "error" ELSE outcome[j]]
    /\ UNCHANGED running

Next ==
    \/ \E j \in Jobs : Submit(j) \/ Finish(j)
    \/ Start
    \/ DropAll

Spec == Init /\ [][Next]_vars

\* Every job handed in is settled, if jobs end.
FairSpec == Spec /\ WF_vars(Start \/ DropAll) /\ \A j \in Jobs : WF_vars(Finish(j))

=============================================================================
