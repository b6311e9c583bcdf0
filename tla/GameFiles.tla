------------------------------ MODULE GameFiles ------------------------------
(***************************************************************************)
(* Fetching the files of a game (installation: ensure_game_files and       *)
(* download_files_concurrent).  An install goes through batches; those     *)
(* after the first are listed by a file fetched before.  The files of a    *)
(* batch that are missing are fetched by a few workers, each into          *)
(* `<name>.downloading' beside its destination and then renamed.  A file   *)
(* that exists is taken as good.                                           *)
(*                                                                         *)
(* The name of the temporary file is not unique, and the library and an    *)
(* instance's screen can install into one instance at once: two workers    *)
(* may then write through one inode, and which name that inode has is      *)
(* part of the state.                                                      *)
(***************************************************************************)
EXTENDS Naturals, Sequences, FiniteSets

CONSTANTS Installs,     \* installs that may run into one instance
          Workers,      \* max_concurrent_downloads of each
          Batches,      \* the sets of files fetched together, in order
          ListedBy,     \* the file that lists each batch, or NoFile
          NoFile,
          Chunks        \* bound: reads that make up a file

Files == UNION {Batches[b] : b \in DOMAIN Batches}
Threads == Installs \X Workers

\* The number of workers is clamped to 1..64.
ASSUME FilesAssumption ==
    /\ Chunks \in Nat \ {0} /\ Workers # {}
    /\ Batches \in Seq(SUBSET Files) /\ Batches # <<>>
    /\ \A b \in DOMAIN Batches : ListedBy[b] = NoFile
          \/ \E c \in 1..b-1 : ListedBy[b] \in Batches[c]
    /\ NoFile \notin Files

VARIABLES
    dest,       \* what is at each destination: the chunks written, or Absent
    temp,       \* the same for each temporary file
    batch,      \* the batch each install is at; 0 when it does not run
    result,     \* what its last run returned
    queue,      \* tasks no worker has taken
    at,         \* where each worker is
    task,       \* the file it fetches
    open,       \* the name the inode it writes has now
    offset,     \* chunks it has written
    met         \* history: files two workers were writing at once

disk == <<dest, temp>>
worker == <<at, task, open, offset>>
vars == <<dest, temp, batch, result, queue, at, task, open, offset, met>>

Absent == {0}
Whole == 1..Chunks
Places == {"idle", "next", "get", "write", "ok", "err"}

Of(i) == {t \in Threads : t[1] = i}
Writing(f) == {t \in Threads : at[t] = "write" /\ task[t] = f}

Init ==
    /\ dest = [f \in Files |-> Absent]
    /\ temp = [f \in Files |-> Absent]
    /\ batch = [i \in Installs |-> 0]
    /\ result = [i \in Installs |-> "none"]
    /\ queue = [i \in Installs |-> {}]
    /\ at = [t \in Threads |-> "idle"]
    /\ task = [t \in Threads |-> NoFile]
    /\ open = [t \in Threads |-> "closed"]
    /\ offset = [t \in Threads |-> 0]
    /\ met = {}

-----------------------------------------------------------------------------
(* The install.                                                             *)

Begin(i) ==
    /\ batch[i] = 0
    /\ batch' = [batch EXCEPT ![i] = 1]
    /\ result' = [result EXCEPT ![i] = "none"]
    /\ UNCHANGED <<disk, queue, worker, met>>

\* The install returns, or goes on with the next batch.
Advance(i) ==
    IF batch[i] = Len(Batches)
    THEN /\ batch' = [batch EXCEPT ![i] = 0]
         /\ result' = [result EXCEPT ![i] = "ok"]
    ELSE batch' = [batch EXCEPT ![i] = @ + 1] /\ UNCHANGED result

Return(i, r) ==
    /\ batch' = [batch EXCEPT ![i] = 0]
    /\ result' = [result EXCEPT ![i] = r]

Missing(b) == {f \in Batches[b] : dest[f] = Absent}
Readable(b) == \A f \in Files : f = ListedBy[b] => dest[f] = Whole

\* The collect_ functions parse the list and drop the files that exist; what is
\* left is queued, if anything is.
Collect(i) ==
    /\ batch[i] # 0 /\ \A t \in Of(i) : at[t] = "idle"
    /\ \/ ~Readable(batch[i]) /\ Return(i, "err") /\ UNCHANGED <<queue, at>>
       \/ /\ Readable(batch[i]) /\ Missing(batch[i]) = {}
          /\ Advance(i)
          /\ UNCHANGED <<queue, at>>
       \/ /\ Readable(batch[i]) /\ Missing(batch[i]) # {}
          /\ queue' = [queue EXCEPT ![i] = Missing(batch[i])]
          /\ at' = [t \in Threads |-> IF t \in Of(i) THEN "next" ELSE at[t]]
          /\ UNCHANGED <<batch, result>>
    /\ UNCHANGED <<disk, task, open, offset, met>>

\* Mutant of Failed: the errors of the workers are not looked at.
NoneFailed(i) == FALSE

Failed(i) == \E t \in Of(i) : at[t] = "err"

\* The scope joins every worker; an error of one is the batch's.
Join(i) ==
    /\ batch[i] # 0 /\ \A t \in Of(i) : at[t] \in {"ok", "err"}
    /\ IF Failed(i) THEN Return(i, "err") ELSE Advance(i)
    /\ queue' = [queue EXCEPT ![i] = {}]
    /\ at' = [t \in Threads |-> IF t \in Of(i) THEN "idle" ELSE at[t]]
    /\ UNCHANGED <<disk, task, open, offset, met>>

-----------------------------------------------------------------------------
(* A worker.                                                                *)

NextTask(t) ==
    IF queue[t[1]] # {}
    THEN \E f \in queue[t[1]] :
            /\ queue' = [queue EXCEPT ![t[1]] = @ \ {f}]
            /\ task' = [task EXCEPT ![t] = f]
            /\ at' = [at EXCEPT ![t] = "get"]
    ELSE at' = [at EXCEPT ![t] = "ok"] /\ UNCHANGED <<queue, task>>

\* The largest file comes first; sizes are left out, so any may.
Take(t) ==
    /\ at[t] = "next"
    /\ NextTask(t)
    /\ UNCHANGED <<disk, batch, result, open, offset, met>>

\* Mutant of Create: the file is written where it belongs.
CreateInPlace(t) ==
    /\ dest' = [dest EXCEPT ![task[t]] = {}]
    /\ open' = [open EXCEPT ![t] = "dest"]
    /\ UNCHANGED temp

\* The temporary file is created, or truncated under whoever writes it.
Create(t) ==
    /\ temp' = [temp EXCEPT ![task[t]] = {}]
    /\ open' = [open EXCEPT ![t] = "temp"]
    /\ UNCHANGED dest

Get(t) ==
    /\ at[t] = "get"
    /\ Create(t)
    /\ at' = [at EXCEPT ![t] = "write"]
    /\ offset' = [offset EXCEPT ![t] = 0]
    /\ met' = IF Writing(task[t]) = {} THEN met ELSE met \cup {task[t]}
    /\ UNCHANGED <<batch, result, queue, task>>

Write(t) ==
    /\ at[t] = "write" /\ offset[t] < Chunks
    /\ offset' = [offset EXCEPT ![t] = @ + 1]
    /\ IF open[t] = "temp"
       THEN temp' = [temp EXCEPT ![task[t]] = @ \cup {offset'[t]}]
       ELSE UNCHANGED temp
    /\ IF open[t] = "dest"
       THEN dest' = [dest EXCEPT ![task[t]] = @ \cup {offset'[t]}]
       ELSE UNCHANGED dest
    /\ UNCHANGED <<batch, result, queue, at, task, open, met>>

\* The worker lets go of its task, closing the file.
Drop(t, place) ==
    /\ at' = [at EXCEPT ![t] = place]
    /\ task' = [task EXCEPT ![t] = NoFile]
    /\ offset' = [offset EXCEPT ![t] = 0]

\* The inode under the temporary name, whoever wrote it, gets the destination's,
\* and whoever still writes it writes there.
Rename(t) ==
    /\ at[t] = "write" /\ offset[t] = Chunks /\ temp[task[t]] # Absent
    /\ dest' = [dest EXCEPT ![task[t]] = temp[task[t]]]
    /\ temp' = [temp EXCEPT ![task[t]] = Absent]
    /\ open' = [u \in Threads |->
                  IF u = t THEN "closed"
                  ELSE IF u \notin Writing(task[t]) THEN open[u]
                  ELSE IF open[u] = "temp" THEN "dest" ELSE "unlinked"]
    /\ Drop(t, "next")
    /\ UNCHANGED <<batch, result, queue, met>>

\* Mutant of Fail: the worker cleans up after itself.
FailCleansUp(t) ==
    /\ at[t] \in {"get", "write"}
    /\ temp' = [temp EXCEPT ![task[t]] = Absent]
    /\ Drop(t, "err")
    /\ open' = [open EXCEPT ![t] = "closed"]
    /\ UNCHANGED <<dest, batch, result, queue, met>>

\* The request fails for good, or a read, a write or the rename does, as when the
\* temporary file is gone: the worker ends, and the files stay as they are.
Fail(t) ==
    /\ at[t] \in {"get", "write"}
    /\ Drop(t, "err")
    /\ open' = [open EXCEPT ![t] = "closed"]
    /\ UNCHANGED <<disk, batch, result, queue, met>>

\* The launcher dies with all its installs, and is started again.
Crash ==
    /\ \E i \in Installs : batch[i] # 0
    /\ batch' = [i \in Installs |-> 0]
    /\ result' = [i \in Installs |-> "none"]
    /\ queue' = [i \in Installs |-> {}]
    /\ at' = [t \in Threads |-> "idle"]
    /\ task' = [t \in Threads |-> NoFile]
    /\ open' = [t \in Threads |-> "closed"]
    /\ offset' = [t \in Threads |-> 0]
    /\ UNCHANGED <<disk, met>>

Next ==
    \/ \E i \in Installs : Begin(i) \/ Collect(i) \/ Join(i)
    \/ \E t \in Threads : Take(t) \/ Get(t) \/ Write(t) \/ Rename(t) \/ Fail(t)
    \/ Crash

Spec == Init /\ [][Next]_vars

-----------------------------------------------------------------------------
\* Types, and what a worker has open: the inode it writes is still under the name
\* the model says it has, because nobody removes a temporary file.
TypeOK ==
    /\ dest \in [Files -> (SUBSET Whole) \cup {Absent}]
    /\ temp \in [Files -> (SUBSET Whole) \cup {Absent}]
    /\ batch \in [Installs -> 0..Len(Batches)]
    /\ result \in [Installs -> {"none", "ok", "err"}]
    /\ queue \in [Installs -> SUBSET Files]
    /\ at \in [Threads -> Places]
    /\ task \in [Threads -> Files \cup {NoFile}]
    /\ open \in [Threads -> {"closed", "temp", "dest", "unlinked"}]
    /\ offset \in [Threads -> 0..Chunks]
    /\ met \subseteq Files
    /\ \A t \in Threads :
          /\ task[t] # NoFile <=> at[t] \in {"get", "write"}
          /\ open[t] # "closed" <=> at[t] = "write"
          /\ open[t] = "temp" => temp[task[t]] # Absent
          /\ open[t] = "dest" => dest[task[t]] # Absent

\* A file that exists is whole, whatever failed, crashed or was left behind before,
\* unless two installs were writing it at once: the installs and the launch go by
\* its existence alone.
PresentIsComplete ==
    \A f \in Files \ met : dest[f] \in {Absent, Whole}

\* An install that reports success has left every file of the game whole, although
\* others fetched some of them and its workers ended one by one.
SuccessIsComplete ==
    \A i \in Installs : result[i] = "ok" => \A f \in Files \ met : dest[f] = Whole

\* What exists, and what an install says is there, is whole.
FilesAreComplete == PresentIsComplete /\ SuccessIsComplete

\* What was fetched is not lost: no install, failure or crash damages a whole file
\* that a slower install fetches again.
WholeStaysWhole ==
    [][\A f \in Files : dest[f] = Whole /\ f \notin met' => dest'[f] = Whole]_vars
=============================================================================
