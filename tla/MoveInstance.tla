---------------------------- MODULE MoveInstance ----------------------------
(***************************************************************************)
(* An instance's files are copied to another folder by one task per file,  *)
(* and only when every one was copied does the record name that folder.    *)
(* What was there is not removed.  A game, or an install, that was started *)
(* before goes on writing in the folder it was started with.               *)
(***************************************************************************)
EXTENDS Naturals, FiniteSets

CONSTANTS Places, Contents, Nothing, Torn, Permits, MaxMoves, MaxSaves


VARIABLES home,      \* the folder the record names
          folders,   \* by place and file: nothing, a torn copy, or the number of a save
          saved,     \* the last save of each file
          moving,    \* the move in flight: its phase, source, destination, files and errors
          wait,      \* has the progress not yet been shown for two seconds
          message,   \* what the dialog says of the last move
          writer,    \* the folder a game was started in, or Nothing
          moves,     \* moves begun
          raced      \* files written while or after they were copied, or not seen
vars == <<home, folders, saved, moving, wait, message, writer, moves, raced>>

Idle == [phase |-> "idle", from |-> Nothing, to |-> Nothing, waiting |-> {}, copying |-> {}, failed |-> {}]

Init ==
  /\ home = CHOOSE p \in Places : TRUE
  /\ folders = [p \in Places |-> [f \in Contents |-> IF p = home THEN 0 ELSE Nothing]]
  /\ saved = [f \in Contents |-> 0]
  /\ moving = Idle /\ wait = FALSE /\ message = Nothing /\ writer = Nothing /\ moves = 0 /\ raced = {}

IsEmpty(place) == \A f \in Contents : folders[place][f] = Nothing

(* validate_move_dest and request_move_instance                            *)
Start(to) ==
  /\ moving.phase = "idle" /\ message = Nothing /\ moves < MaxMoves /\ moves' = moves + 1
  /\ IsEmpty(to)
  /\ moving' = [Idle EXCEPT !.phase = "asked", !.from = home, !.to = to]
  /\ wait' = TRUE
  /\ UNCHANGED <<home, folders, saved, message, writer, raced>>

(* A destination that cannot be made, or a scan that panics, ends the move. *)
CannotStart ==
  /\ moving.phase = "asked" /\ moving' = [moving EXCEPT !.phase = "failed"]
  /\ UNCHANGED <<home, folders, saved, wait, message, writer, moves, raced>>

(* collect_files_recursively: a folder that cannot be read is passed over  *)
Scan(unread) ==
  /\ moving.phase = "asked"
  /\ LET found == {f \in Contents \ unread : folders[moving.from][f] # Nothing}
     IN moving' = [moving EXCEPT !.phase = IF found = {} THEN "complete" ELSE "copying", !.waiting = found]
  /\ raced' = raced \cup unread
  /\ UNCHANGED <<home, folders, saved, wait, message, writer, moves>>

(* The task of a file, once it has a permit: it makes the copy's folder,   *)
(* opens the file and creates the copy, and then fills it.                 *)
Put(place, f, content) == folders' = [folders EXCEPT ![place][f] = content]
BeginCopy(f) ==
  /\ f \in moving.waiting /\ Cardinality(moving.copying) < Permits
  /\ moving' = [moving EXCEPT !.waiting = @ \ {f}, !.copying = @ \cup {f}]
  /\ Put(moving.to, f, Torn)
  /\ UNCHANGED <<home, saved, wait, message, writer, moves, raced>>
EndCopy(f) ==
  /\ f \in moving.copying /\ moving' = [moving EXCEPT !.copying = @ \ {f}]
  /\ Put(moving.to, f, folders[moving.from][f])
  /\ UNCHANGED <<home, saved, wait, message, writer, moves, raced>>
FailCopy(f) ==
  /\ f \in moving.waiting \cup moving.copying
  /\ moving' = [moving EXCEPT !.waiting = @ \ {f}, !.copying = @ \ {f}, !.failed = @ \cup {f}]
  /\ UNCHANGED <<home, folders, saved, wait, message, writer, moves, raced>>

(* Mutant of Outcome: an error is logged and no more.                       *)
OutcomeOfMost == IF moving.failed = Contents THEN "failed" ELSE "complete"
Outcome == IF moving.failed # {} THEN "failed" ELSE "complete"
(* The collector of the reports ends when every task has.                   *)
Collect ==
  /\ moving.phase = "copying" /\ moving.waiting \cup moving.copying = {}
  /\ moving' = [moving EXCEPT !.phase = Outcome]
  /\ UNCHANGED <<home, folders, saved, wait, message, writer, moves, raced>>

(* The progress stays for two seconds; a result that came is kept till then *)
ShownLongEnough ==
  /\ wait /\ wait' = FALSE
  /\ UNCHANGED <<home, folders, saved, moving, message, writer, moves, raced>>
(* poll_move_instance_results and tick                                      *)
Poll ==
  /\ ~wait /\ moving.phase \in {"complete", "failed"}
  /\ moving' = Idle /\ message' = moving.phase
  /\ home' = IF moving.phase = "complete" THEN moving.to ELSE home
  /\ UNCHANGED <<folders, saved, wait, writer, moves, raced>>
(* The dialog, which stays while a move is in flight.                       *)
Dismiss ==
  /\ message # Nothing /\ message' = Nothing
  /\ UNCHANGED <<home, folders, saved, moving, wait, writer, moves, raced>>

StartGame ==
  /\ writer = Nothing /\ writer' = home
  /\ UNCHANGED <<home, folders, saved, moving, wait, message, moves, raced>>
Save(f) ==
  /\ writer # Nothing /\ saved[f] < MaxSaves
  /\ saved' = [saved EXCEPT ![f] = @ + 1] /\ Put(writer, f, saved[f] + 1)
  /\ raced' = IF writer = home /\ moving.phase = "idle" THEN raced ELSE raced \cup {f}
  /\ UNCHANGED <<home, moving, wait, message, writer, moves>>
StopGame ==
  /\ writer # Nothing /\ writer' = Nothing
  /\ UNCHANGED <<home, folders, saved, moving, wait, message, moves, raced>>

Next ==
  \/ \E p \in Places : Start(p)
  \/ CannotStart \/ \E u \in SUBSET Contents : Scan(u)
  \/ \E f \in Contents : BeginCopy(f) \/ EndCopy(f) \/ FailCopy(f) \/ Save(f)
  \/ Collect \/ ShownLongEnough \/ Poll \/ Dismiss \/ StartGame \/ StopGame
Spec == Init /\ [][Next]_vars

(***************************************************************************)
(* Wherever the record points, every file of the instance is there, whole  *)
(* and as last saved, after moves that failed half-way and moves that      *)
(* ended, unless it was written meanwhile or its folder could not be read. *)
(***************************************************************************)
MovesAreWhole == \A f \in Contents \ raced : folders[home][f] = saved[f]
=============================================================================
