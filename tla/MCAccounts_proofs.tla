---------------------------- MODULE MCAccounts_proofs ----------------------------
(***************************************************************************)
(* Which accounts the launcher has, which of them is active, and what the  *)
(* disk holds of them, for every set of accounts and any number of saves   *)
(* and tokens.                                                             *)
(***************************************************************************)
EXTENDS MCAccounts, Sequences, FiniteSetTheorems, TLAPS

\* The state without the bounds of the model.
AnyState == [tok : [Accounts -> Int], active : Accounts \cup {NoAccount}]
Places == {"idle", "file", "tokens", "refresh"} \cup Saving
Job == [pc : Places, st : AnyState, prev : SUBSET Accounts, todo : SUBSET Accounts,
        mixed : BOOLEAN]

Typed ==
    /\ session \in {"off", "loading", "on"} /\ mem \in AnyState /\ flow \in BOOLEAN
    /\ renewal \in SUBSET Accounts
    /\ result \in SUBSET [ok : BOOLEAN, st : AnyState]
    /\ queue \in SUBSET [seq : Nat, st : AnyState]
    /\ next \in Nat /\ written \in Nat
    /\ job \in [Workers -> Job]
    /\ file \in [whole : BOOLEAN, in : SUBSET Accounts, active : Accounts \cup {NoAccount}]
    /\ keyring \in [Accounts -> Int] /\ newest \in [Accounts -> Nat]
    /\ users \in SUBSET Accounts /\ chosen \in Accounts \cup {NoAccount}

\* Who is at work when, and on what.
AtWork ==
    /\ job["loader"].pc \in {"idle", "file", "tokens"}
    /\ job["saver"].pc \in {"idle"} \cup Saving
    /\ job["skins"].pc \in {"idle", "file", "tokens"} \cup Saving
    /\ session = "loading" <=> Busy("loader")
    /\ Busy("renewal") \/ result # {} => renewal # {}
    /\ result # {} => ~Busy("renewal")
    /\ session # "on" =>
          /\ queue = {} /\ renewal = {} /\ result = {} /\ ~flow /\ chosen = NoAccount
          /\ next = 0 /\ written = 0
          /\ \A w \in Workers \ {"loader"} : ~Busy(w)

\* The account the user chose is active while it is there.
ChosenIsActive == chosen # NoAccount => mem.active = chosen

\* Saves are numbered in the order they were asked for; those that begin are taken from
\* the queue.
Numbered ==
    /\ written <= next
    /\ \A r \in queue : r.seq <= next /\ r.seq # written
    /\ \A q, r \in queue : q.seq = r.seq => q = r

\* The last save asked for lists the accounts in memory.  It is still to come, or the file
\* has it.
LastIsSaved ==
    /\ \A r \in queue : r.seq = next => In(r.st) = In(mem)
    /\ written = next /\ Busy("saver") => In(job["saver"].st) = In(mem)
    /\ \/ \E r \in queue : r.seq = next
       \/ written = next /\ job["saver"].pc \in {"previous", "store"}
       \/ written = next /\ file.in = In(mem)
    /\ job["saver"].pc \in {"write", "delete"} => file.in = In(job["saver"].st)

\* What has loaded the accounts, and will save them or have them replace those in memory.
Loaded(w) ==
    /\ job[w].pc = "tokens" => job[w].prev = In(mem)
    /\ job[w].pc \in {"refresh"} \cup Saving => In(job[w].st) = In(mem)
NobodyInTheWay ==
    /\ renewal # {} \/ Busy("renewal") \/ Busy("skins") => file.in = In(mem)
    /\ Loaded("renewal") /\ Loaded("skins")
    /\ \A r \in result : r.ok => In(r.st) = In(mem)

\* Without a failure, and unless the accounts were changed under one who had loaded them.
AccountsHold ==
    /\ session = "off" => file.in = users
    /\ session = "loading" => file.in = users /\ (job["loader"].pc = "tokens" => job["loader"].prev = users)
    /\ session = "on" => In(mem) = users /\ LastIsSaved /\ NobodyInTheWay

IInv ==
    /\ Typed /\ AtWork /\ ChosenIsActive /\ Numbered
    /\ excused = {} /\ "accounts" \notin raced => AccountsHold
-----------------------------------------------------------------------------
(* Types.                                                                   *)

\* The type of each variable, for citing one at a time.
LEMMA Facts ==
    ASSUME Typed
    PROVE  /\ session \in {"off", "loading", "on"} /\ mem \in AnyState /\ flow \in BOOLEAN
           /\ renewal \in SUBSET Accounts
           /\ result \in SUBSET [ok : BOOLEAN, st : AnyState]
           /\ queue \in SUBSET [seq : Nat, st : AnyState]
           /\ next \in Nat /\ written \in Nat
           /\ job \in [Workers -> Job]
           /\ file \in [whole : BOOLEAN, in : SUBSET Accounts, active : Accounts \cup {NoAccount}]
           /\ keyring \in [Accounts -> Int] /\ newest \in [Accounts -> Nat]
           /\ users \in SUBSET Accounts /\ chosen \in Accounts \cup {NoAccount}
BY DEF Typed

\* The values that stand for nobody and nothing have their types.
LEMMA IdleTyped == Nobody \in AnyState /\ Idle \in Job /\ None \in [ok : BOOLEAN, st : AnyState]
BY DEF Nobody, Idle, None, AnyState, Job, Places, Absent

\* The workers, and the places they can be at.
LEMMA Names ==
    /\ "loader" \in Workers /\ "saver" \in Workers /\ "renewal" \in Workers /\ "skins" \in Workers
    /\ "idle" \in Places /\ "file" \in Places /\ "tokens" \in Places /\ "refresh" \in Places
    /\ "previous" \in Places /\ "store" \in Places /\ "write" \in Places /\ "delete" \in Places
BY DEF Workers, Places, Saving

\* How a worker's record changes.
LEMMA RecordChanges ==
    ASSUME NEW r \in Job, NEW p \in Places, NEW t \in SUBSET Accounts, NEW v \in SUBSET Accounts,
           NEW a \in Accounts \cup {NoAccount}, NEW st \in AnyState, NEW tok \in [Accounts -> Int],
           NEW b \in BOOLEAN
    PROVE  /\ [r EXCEPT !.pc = p] \in Job
           /\ [r EXCEPT !.pc = p, !.todo = t] \in Job
           /\ [r EXCEPT !.pc = p, !.prev = v, !.todo = t] \in Job
           /\ [r EXCEPT !.pc = p, !.mixed = b, !.prev = v, !.todo = t] \in Job
           /\ [r EXCEPT !.pc = p, !.prev = v, !.st.active = a] \in Job
           /\ [r EXCEPT !.pc = p, !.st = st] \in Job
           /\ [r EXCEPT !.st = st, !.pc = p] \in Job
           /\ [r EXCEPT !.pc = p, !.st.tok = tok] \in Job
<1>1. [r EXCEPT !.pc = p] \in Job
  BY DEF Job
<1>2. [r EXCEPT !.pc = p, !.todo = t] \in Job
  BY DEF Job
<1>3. [r EXCEPT !.pc = p, !.prev = v, !.todo = t] \in Job
  BY DEF Job
<1>4. [r EXCEPT !.pc = p, !.mixed = b, !.prev = v, !.todo = t] \in Job
  BY DEF Job
<1>5. [r EXCEPT !.pc = p, !.prev = v, !.st.active = a] \in Job
  BY DEF Job, AnyState
<1>6. [r EXCEPT !.pc = p, !.st = st] \in Job
  BY DEF Job
<1>7. [r EXCEPT !.st = st, !.pc = p] \in Job
  BY DEF Job
<1>8. [r EXCEPT !.pc = p, !.st.tok = tok] \in Job
  BY DEF Job, AnyState
<1> QED
  BY <1>1, <1>2, <1>3, <1>4, <1>5, <1>6, <1>7, <1>8

\* Loading keeps the types.
LEMMA TypedLoad ==
    ASSUME Typed, AtWork, NEW w \in Workers, LoadFile(w) \/ LoadTokens(w)
    PROVE  Typed'
<1> USE Facts
<1>0. w \in {"loader", "renewal", "skins"}
  BY DEF LoadFile, LoadTokens, AtWork, Workers, Saving
<1>1. CASE LoadFails(w)
  <2>1. job' \in [Workers -> Job]
    BY <1>1, IdleTyped DEF LoadFails
  <2>2. session' \in {"off", "loading", "on"} /\ (result' = {None} \/ result' = result)
    <3>1. CASE w = "loader"
      BY <1>1, <3>1 DEF LoadFails
    <3>2. CASE w = "renewal"
      BY <1>1, <3>2 DEF LoadFails
    <3>3. CASE w = "skins"
      BY <1>1, <3>3 DEF LoadFails
    <3> QED
      BY <1>0, <3>1, <3>2, <3>3
  <2>4. result' \in SUBSET [ok : BOOLEAN, st : AnyState]
    BY <2>2, IdleTyped
  <2> QED
    BY <1>1, <2>1, <2>2, <2>4 DEF Typed, LoadFails, disk, history
<1>2. ASSUME file.whole,
             job' = [job EXCEPT ![w].pc = "tokens", ![w].prev = file.in,
                                ![w].st.active = file.active],
             UNCHANGED <<ui, disk, newest, history, excused>>
      PROVE  Typed'
  <2>1. job' \in [Workers -> Job]
    <3> DEFINE r == [job[w] EXCEPT !.pc = "tokens", !.prev = file.in, !.st.active = file.active]
    <3>1. r \in Job
      <4>1. job[w] \in Job /\ file.in \in SUBSET Accounts /\ file.active \in Accounts \cup {NoAccount}
        OBVIOUS
      <4> QED
        BY <4>1, Names, RecordChanges, Zenon
    <3>2. job' = [job EXCEPT ![w] = r]
      BY <1>2
    <3> QED
      BY <3>1, <3>2
  <2> QED
    BY <1>2, <2>1 DEF Typed, ui, disk, history
<1>3. ASSUME NEW unread \in {{}, job[w].prev}, job[w].pc = "tokens",
             NEW st,
             st = [job[w].st EXCEPT !.tok = [a \in Accounts |->
                      IF a \in job[w].prev THEN Token(a, unread) ELSE Absent]],
             IF w = "loader"
             THEN /\ session' = "on" /\ mem' = st
                  /\ \E start \in BOOLEAN :
                       LET go == start /\ In(st) # {}
                       IN  /\ renewal' = IF go THEN Accounts ELSE {}
                           /\ job' = [job EXCEPT ![w] = Idle,
                                       !["renewal"].pc = IF go THEN "file" ELSE "idle"]
             ELSE /\ job' = [job EXCEPT ![w].st = st,
                       ![w].pc = IF w = "renewal" THEN "refresh" ELSE "previous"]
                  /\ UNCHANGED <<session, mem, renewal>>,
             UNCHANGED <<flow, result, queue, next, written, disk, newest, history, excused>>
      PROVE  Typed'
  <2>1. \A a \in Accounts : Token(a, unread) \in Int
    BY DEF Token, Unread, Missing
  <2>2. [a \in Accounts |-> IF a \in job[w].prev THEN Token(a, unread) ELSE Absent]
           \in [Accounts -> Int]
    BY <2>1 DEF Absent
  <2>3. st \in AnyState
    BY <1>3, <2>2 DEF AnyState, Job
  <2>4. CASE w = "loader"
    <3>1. PICK start \in BOOLEAN :
             LET go == start /\ In(st) # {}
             IN  /\ renewal' = IF go THEN Accounts ELSE {}
                 /\ job' = [job EXCEPT ![w] = Idle,
                             !["renewal"].pc = IF go THEN "file" ELSE "idle"]
      BY <1>3, <2>4
    <3>2. job' \in [Workers -> Job] /\ renewal' \in SUBSET Accounts
      <4>1. [job EXCEPT ![w] = Idle] \in [Workers -> Job]
        BY IdleTyped
      <4>2. job' = [[job EXCEPT ![w] = Idle] EXCEPT
                      !["renewal"].pc = IF start /\ In(st) # {} THEN "file" ELSE "idle"]
        BY <3>1
      <4> QED
        <5> DEFINE j == [job EXCEPT ![w] = Idle]
                   pc == IF start /\ In(st) # {} THEN "file" ELSE "idle"
        <5>1. pc \in Places /\ j["renewal"] \in Job
          BY <4>1, Names
        <5> HIDE DEF pc
        <5>2. [j["renewal"] EXCEPT !.pc = pc] \in Job
          BY <5>1, RecordChanges, Zenon
        <5>3. job' = [j EXCEPT !["renewal"] = [j["renewal"] EXCEPT !.pc = pc]]
          BY <4>2 DEF pc
        <5> HIDE DEF j
        <5>4. job' \in [Workers -> Job]
          BY <4>1, <5>2, <5>3 DEF j
        <5> QED
          BY <3>1, <5>4
    <3> QED
      BY <1>3, <2>3, <2>4, <3>2 DEF Typed, disk, history
  <2>5. CASE w # "loader"
    <3>1. job' \in [Workers -> Job]
      BY <1>3, <2>3, <2>5, Names DEF Job
    <3> QED
      BY <1>3, <2>5, <3>1 DEF Typed, disk, history
  <2> QED
    BY <2>4, <2>5
<1> QED
  BY <1>1, <1>2, <1>3 DEF LoadFile, LoadTokens

\* The end of a save keeps the types.
LEMMA TypedSaved ==
    ASSUME Typed, NEW w \in Workers, NEW ok \in BOOLEAN, Saved(w, ok)
    PROVE  /\ job' \in [Workers -> Job]
           /\ result' \in SUBSET [ok : BOOLEAN, st : AnyState]
           /\ UNCHANGED <<session, mem, flow, renewal, queue, next, written>>
<1> USE Facts
<1>1. job' \in [Workers -> Job]
  BY IdleTyped DEF Saved
<1>2. [ok |-> TRUE, st |-> job[w].st] \in [ok : BOOLEAN, st : AnyState]
  BY DEF Job
<1> QED
  BY <1>1, <1>2, IdleTyped DEF Saved

\* The steps of a save keep the types.
LEMMA TypedSave ==
    ASSUME Typed, NEW w \in Workers,
           ReadPrevious(w) \/ StoreToken(w) \/ Truncate(w) \/ WriteFile(w) \/ DeleteToken(w)
    PROVE  Typed'
<1> USE Facts
<1>0. job[w].st \in AnyState /\ job[w].prev \in SUBSET Accounts
      /\ job[w].todo \in SUBSET Accounts /\ In(job[w].st) \in SUBSET Accounts
  BY DEF Job, In
<1>1. CASE ReadPrevious(w)
  <2>1. job' \in [Workers -> Job]
    <3> DEFINE r == [job[w] EXCEPT !.pc = "store", !.prev = IF file.whole THEN file.in ELSE {},
                                   !.todo = In(job[w].st)]
    <3>1. r \in Job
      <4>1. job[w] \in Job /\ (IF file.whole THEN file.in ELSE {}) \in SUBSET Accounts
        OBVIOUS
      <4> QED
        BY <1>0, <4>1, Names, RecordChanges, Zenon
    <3>2. job' = [job EXCEPT ![w] = r]
      BY <1>1 DEF ReadPrevious
    <3> QED
      BY <3>1, <3>2
  <2> QED
    BY <1>1, <2>1 DEF Typed, ReadPrevious, ui, disk, history
<1>2. ASSUME NEW a \in job[w].todo, NEW k \in Int,
             keyring' = [keyring EXCEPT ![a] = k] \/ UNCHANGED keyring
      PROVE  keyring' \in [Accounts -> Int]
  BY <1>0, <1>2
<1>3. CASE StoreToken(w)
  <2>1. PICK a \in job[w].todo :
         \/ /\ keyring' = [keyring EXCEPT ![a] = Persisted(job[w].st.tok[a], @)]
            /\ job' = [job EXCEPT ![w].todo = @ \ {a}]
            /\ UNCHANGED <<ui, file, newest, history, excused>>
         \/ /\ keyring' \in {keyring, [keyring EXCEPT ![a] = 0]}
            /\ Saved(w, FALSE)
            /\ UNCHANGED <<file, newest, history>>
    BY <1>3 DEF StoreToken
  <2>2. a \in Accounts /\ Persisted(job[w].st.tok[a], keyring[a]) \in Int /\ 0 \in Int
    BY <1>0 DEF Persisted, AnyState
  <2>3. keyring' \in [Accounts -> Int]
    BY <2>1, <2>2
  <2>4. CASE job' = [job EXCEPT ![w].todo = @ \ {a}]
             /\ UNCHANGED <<ui, file, newest, history, excused>>
    <3>1. job' \in [Workers -> Job]
      BY <1>0, <2>4 DEF Job
    <3> QED
      BY <2>3, <2>4, <3>1 DEF Typed, ui, history
  <2>5. CASE Saved(w, FALSE) /\ UNCHANGED <<file, newest, history>>
    BY <2>3, <2>5, TypedSaved DEF Typed, history
  <2> QED
    BY <2>1, <2>4, <2>5
<1>4. CASE Truncate(w)
  <2> DEFINE others == {v \in Workers \ {w} : job[v].pc = "write"}
  <2>1. job' = [v \in Workers |->
                     IF v = w THEN [job[w] EXCEPT !.pc = "write", !.mixed = others # {},
                                       !.prev = {}, !.todo = job[w].prev \ In(job[w].st)]
                     ELSE IF v \in others THEN [job[v] EXCEPT !.mixed = TRUE]
                     ELSE job[v]]
    BY <1>4 DEF Truncate
  <2> HIDE DEF others
  <2>2. [job[w] EXCEPT !.pc = "write", !.mixed = others # {}, !.prev = {},
                       !.todo = job[w].prev \ In(job[w].st)] \in Job
    <3>1. job[w] \in Job /\ (others # {}) \in BOOLEAN /\ {} \in SUBSET Accounts
          /\ job[w].prev \ In(job[w].st) \in SUBSET Accounts
      BY <1>0
    <3> QED
      BY <3>1, Names, RecordChanges, Zenon
  <2>3. ASSUME NEW v \in Workers PROVE [job[v] EXCEPT !.mixed = TRUE] \in Job
    <3>1. job[v] \in Job
      OBVIOUS
    <3> QED
      BY <3>1 DEF Job
  <2>4. job' \in [Workers -> Job]
    BY <2>1, <2>2, <2>3
  <2>5. file' \in [whole : BOOLEAN, in : SUBSET Accounts, active : Accounts \cup {NoAccount}]
    BY <1>0, <1>4 DEF Truncate, AnyState
  <2> QED
    BY <1>4, <2>4, <2>5 DEF Typed, Truncate, ui, history
<1>5. ASSUME NEW left \in SUBSET Accounts, Left(w, left)
      PROVE  /\ job' \in [Workers -> Job]
             /\ result' \in SUBSET [ok : BOOLEAN, st : AnyState]
             /\ UNCHANGED <<session, mem, flow, renewal, queue, next, written>>
  <2>1. CASE left = {}
    BY <1>5, <2>1, TypedSaved DEF Left
  <2>2. CASE left # {}
    <3>1. job[w] \in Job
      OBVIOUS
    <3>2. [job[w] EXCEPT !.pc = "delete", !.todo = left] \in Job
      BY <1>5, <3>1, Names, RecordChanges, Zenon
    <3> QED
      BY <1>5, <2>2, <3>2 DEF Left, ui
  <2> QED
    BY <2>1, <2>2
<1>6. CASE SaveFails(w) /\ UNCHANGED disk
  BY <1>6, TypedSaved DEF Typed, SaveFails, disk, history
<1>7. CASE WriteFile(w)
  <2>1. CASE SaveFails(w) /\ UNCHANGED disk
    BY <1>6, <2>1
  <2>2. CASE Left(w, job[w].todo) /\ UNCHANGED <<keyring, newest, history, excused>>
             /\ \E whole \in BOOLEAN : file' = [whole |-> whole, in |-> In(job[w].st),
                                                active |-> job[w].st.active]
    <3>1. file' \in [whole : BOOLEAN, in : SUBSET Accounts, active : Accounts \cup {NoAccount}]
      BY <1>0, <2>2 DEF AnyState
    <3> QED
      BY <1>0, <1>5, <2>2, <3>1 DEF Typed, history
  <2> QED
    BY <1>7, <2>1, <2>2 DEF WriteFile
<1>8. CASE DeleteToken(w)
  <2>1. CASE SaveFails(w) /\ UNCHANGED disk
    BY <1>6, <2>1
  <2>2. ASSUME NEW a \in job[w].todo, keyring' = [keyring EXCEPT ![a] = 0],
               Left(w, job[w].todo \ {a}), UNCHANGED <<file, newest, history, excused>>
        PROVE  Typed'
    <3>1. keyring' \in [Accounts -> Int]
      BY <1>0, <2>2
    <3> QED
      BY <1>0, <1>5, <2>2, <3>1 DEF Typed, history
  <2> QED
    BY <1>8, <2>1, <2>2 DEF DeleteToken
<1> QED
  BY <1>1, <1>3, <1>4, <1>7, <1>8

\* Every step keeps the types.
LEMMA TypedStep ==
    ASSUME Typed, AtWork, Next
    PROVE  Typed'
<1> USE Facts
<1>a. ASSUME NEW st \in AnyState, Queue(st)
      PROVE  queue' \in SUBSET [seq : Nat, st : AnyState] /\ next' \in Nat
  BY <1>a DEF Queue
<1>b. ASSUME NEW which \in SUBSET Accounts, StartRenewal(which)
      PROVE  job' \in [Workers -> Job] /\ renewal' \in SUBSET Accounts
  BY <1>b, Names DEF StartRenewal, To, Job
<1>1. CASE StartSession
  <2>1. job' \in [Workers -> Job]
    BY <1>1, Names DEF StartSession, To, Job
  <2> QED
    BY <1>1, <2>1 DEF Typed, StartSession, disk, history
<1>2. CASE StartSignIn
  BY <1>2 DEF Typed, StartSignIn, disk, history
<1>3. CASE EndSignIn
  <2>1. CASE UNCHANGED <<mem, queue, next, newest, users, chosen>>
    BY <1>3, <2>1 DEF Typed, EndSignIn, disk
  <2>2. ASSUME NEW a \in Accounts, newest' = [newest EXCEPT ![a] = @ + 1],
               mem' = [tok |-> [mem.tok EXCEPT ![a] = newest'[a]], active |-> a],
               users' = users \cup {a}, chosen' = a, Queue(mem')
        PROVE  Typed'
    <3>1. newest' \in [Accounts -> Nat] /\ mem' \in AnyState
      BY <2>2 DEF AnyState
    <3>2. queue' \in SUBSET [seq : Nat, st : AnyState] /\ next' \in Nat
      BY <1>a, <2>2, <3>1
    <3> QED
      BY <1>3, <2>2, <3>1, <3>2 DEF Typed, EndSignIn, disk
  <2> QED
    BY <1>3, <2>1, <2>2 DEF EndSignIn
<1>4. CASE PollRenewal
  <2>1. PICK r \in result : TRUE
    BY <1>4 DEF PollRenewal
  <2>2. r.ok \in BOOLEAN /\ r.st \in AnyState
    OBVIOUS
  <2>3. KeepActive(r.st) \in AnyState
    BY <2>2 DEF KeepActive, AnyState
  <2>4. mem' \in AnyState /\ chosen' \in Accounts \cup {NoAccount}
    BY <1>4, <2>1, <2>2, <2>3 DEF PollRenewal
  <2> QED
    BY <1>4, <2>4 DEF Typed, PollRenewal, disk
<1>5. CASE Refresh
  <2> DEFINE st == job["renewal"].st
  <2>1. st \in AnyState /\ "renewal" \in Workers
    BY DEF Workers, Job
  <2>2. PICK new \in SUBSET Accounts :
           LET tok == [a \in Accounts |-> IF a \in new THEN newest[a] + 1 ELSE st.tok[a]]
           IN  /\ newest' = [a \in Accounts |-> newest[a] + IF a \in new THEN 1 ELSE 0]
               /\ \/ /\ job' = [job EXCEPT !["renewal"].pc = "previous", !["renewal"].st.tok = tok]
                     /\ UNCHANGED result
                  \/ /\ job' = [job EXCEPT !["renewal"] = Idle]
                     /\ \E sent \in BOOLEAN :
                          result' = {IF sent THEN [ok |-> TRUE, st |-> st] ELSE None}
    BY <1>5 DEF Refresh
  <2>3. newest' \in [Accounts -> Nat]
    BY <2>2
  <2>4. [a \in Accounts |-> IF a \in new THEN newest[a] + 1 ELSE st.tok[a]] \in [Accounts -> Int]
    BY <2>1 DEF AnyState
  <2>5. job' \in [Workers -> Job]
    <3>1. CASE job' = [job EXCEPT !["renewal"] = Idle]
      BY <3>1, IdleTyped
    <3>2. CASE job' # [job EXCEPT !["renewal"] = Idle]
      <4> DEFINE tok == [a \in Accounts |-> IF a \in new THEN newest[a] + 1 ELSE st.tok[a]]
                 r == [job["renewal"] EXCEPT !.pc = "previous", !.st.tok = tok]
      <4>1. job' = [job EXCEPT !["renewal"] = r]
        BY <2>2, <3>2
      <4> HIDE DEF tok
      <4>2. tok \in [Accounts -> Int]
        BY <2>4 DEF tok
      <4>3. r \in Job
        <5>1. job["renewal"] \in Job
          BY <2>1
        <5> QED
          BY <5>1, <4>2, Names, RecordChanges, Zenon
      <4> QED
        BY <4>1, <4>3
    <3> QED
      BY <3>1, <3>2
  <2>6. result' \in SUBSET [ok : BOOLEAN, st : AnyState]
    <3>1. [ok |-> TRUE, st |-> st] \in [ok : BOOLEAN, st : AnyState]
      BY <2>1
    <3> HIDE DEF st
    <3> QED
      BY <2>2, <3>1, IdleTyped DEF st
  <2> QED
    BY <1>5, <2>3, <2>5, <2>6 DEF Typed, Refresh, disk, history
<1>6. CASE StartSkins
  <2>1. job' \in [Workers -> Job]
    BY <1>6, Names DEF StartSkins, To, Job
  <2> QED
    BY <1>6, <2>1 DEF Typed, StartSkins, ui, disk, history
<1>7. CASE End
  <2>1. keyring' \in [Accounts -> Int]
    <3>1. CASE UNCHANGED keyring
      BY <3>1
    <3>2. ASSUME NEW w \in Workers, NEW a \in job[w].todo, keyring' = [keyring EXCEPT ![a] = 0]
          PROVE  keyring' \in [Accounts -> Int]
      <4>1. a \in Accounts
        BY DEF Job
      <4> QED
        BY <3>2, <4>1
    <3> QED
      BY <1>7, <3>1, <3>2 DEF End
  <2>2. mem' \in AnyState /\ job' \in [Workers -> Job]
    BY <1>7, IdleTyped DEF End
  <2> QED
    BY <1>7, <2>1, <2>2 DEF Typed, End
<1>8. ASSUME NEW a \in Accounts, SelectAccount(a) PROVE Typed'
  <2>1. mem' \in AnyState
    BY <1>8 DEF SelectAccount, AnyState
  <2>2. queue' \in SUBSET [seq : Nat, st : AnyState] /\ next' \in Nat
    BY <1>a, <1>8, <2>1 DEF SelectAccount
  <2>3. job' \in [Workers -> Job] /\ renewal' \in SUBSET Accounts
    BY <1>b, <1>8 DEF SelectAccount
  <2> QED
    BY <1>8, <2>1, <2>2, <2>3 DEF Typed, SelectAccount, disk
<1>9. ASSUME NEW a \in Accounts, RemoveAccount(a) PROVE Typed'
  <2>1. \A b \in ActiveWithout(a) : b \in Accounts \cup {NoAccount}
    BY DEF ActiveWithout, In, AnyState
  <2>2. mem' \in AnyState
    BY <1>9, <2>1 DEF RemoveAccount, AnyState, Absent
  <2>3. queue' \in SUBSET [seq : Nat, st : AnyState] /\ next' \in Nat
    BY <1>a, <1>9, <2>2 DEF RemoveAccount
  <2> QED
    BY <1>9, <2>2, <2>3 DEF Typed, RemoveAccount, disk
<1>10. ASSUME NEW a \in Accounts, RefreshAccount(a) PROVE Typed'
  <2>1. job' \in [Workers -> Job] /\ renewal' \in SUBSET Accounts
    BY <1>b, <1>10 DEF RefreshAccount
  <2> QED
    BY <1>10, <2>1 DEF Typed, RefreshAccount, disk, history
<1>11. ASSUME NEW r \in queue, BeginSave(r) PROVE Typed'
  <2>1. r.seq \in Nat /\ r.st \in AnyState
    OBVIOUS
  <2>2. written' \in Nat /\ job' \in [Workers -> Job]
    <3>1. [job EXCEPT !["saver"].pc = "previous", !["saver"].st = r.st] \in [Workers -> Job]
      <4>1. job["saver"] \in Job
        BY Names
      <4>2. [job["saver"] EXCEPT !.pc = "previous", !.st = r.st] \in Job
        BY <2>1, <4>1, Names, RecordChanges, Zenon
      <4> QED
        BY <4>2
    <3> QED
      BY <1>11, <2>1, <3>1 DEF BeginSave
  <2> QED
    BY <1>11, <2>2 DEF Typed, BeginSave, disk, history
<1> QED
  BY <1>1, <1>2, <1>3, <1>4, <1>5, <1>6, <1>7, <1>8, <1>9, <1>10, <1>11, TypedLoad, TypedSave
  DEF Next, Step
-----------------------------------------------------------------------------
(* What the workers do.                                                     *)

\* A worker that loads changes nothing but its record, what the UI takes from it, and the
\* history of failures.
LEMMA LoadEffect ==
    ASSUME Typed, AtWork, NEW w \in Workers, LoadFile(w) \/ LoadTokens(w)
    PROVE  /\ w \in {"loader", "renewal", "skins"} /\ job[w].pc \in {"file", "tokens"}
           /\ UNCHANGED <<flow, queue, next, written, disk, newest, history>>
           /\ excused \subseteq excused'
           /\ w # "loader" => UNCHANGED <<session, mem, renewal>>
           /\ w # "loader" => \A v \in Workers \ {w} : job'[v] = job[v]
           /\ w # "loader" => job'[w].pc \in {"idle", "tokens"} \cup (IF w = "renewal" THEN {"refresh"} ELSE {"previous"})
           /\ w # "loader" =>
                \/ result' = result
                \/ w = "renewal" /\ job'[w].pc = "idle" /\ \A r \in result' : ~r.ok
           /\ w # "loader" /\ job'[w].pc = "tokens" => job[w].pc = "file" /\ job'[w].prev = file.in
           /\ w # "loader" /\ job'[w].pc \in {"refresh", "previous"} =>
                job[w].pc = "tokens" /\ In(job'[w].st) = job[w].prev
           /\ w = "loader" => UNCHANGED result
           /\ w = "loader" =>
                \/ /\ session' = "on" /\ job'["loader"].pc = "idle" /\ excused' # {}
                   /\ UNCHANGED <<mem, renewal>>
                   /\ \A v \in Workers \ {"loader"} : job'[v] = job[v]
                \/ /\ UNCHANGED <<session, mem, renewal>>
                   /\ job'["loader"].pc = "tokens" /\ job'["loader"].prev = file.in
                   /\ \A v \in Workers \ {"loader"} : job'[v] = job[v]
                \/ /\ job["loader"].pc = "tokens"
                   /\ session' = "on" /\ job'["loader"].pc = "idle"
                   /\ In(mem') = job["loader"].prev
                   /\ \A v \in {"saver", "skins"} : job'[v] = job[v]
                   /\ job'["renewal"].pc \in {"idle", "file"}
                   /\ job'["renewal"].pc = "file" => renewal' # {}
<1> USE Facts
<1>0. w \in {"loader", "renewal", "skins"} /\ job[w].pc \in {"file", "tokens"}
  BY DEF LoadFile, LoadTokens, AtWork, Workers, Saving
<1>1. CASE LoadFails(w)
  <2>1. job' = [job EXCEPT ![w] = Idle] /\ job'[w].pc = "idle"
    BY <1>1 DEF LoadFails, Idle
  <2>2. CASE w = "loader"
    <3>1. excused' = excused \cup {"not loaded"} /\ session' = "on" /\ UNCHANGED result
      BY <1>1, <2>2 DEF LoadFails
    <3> QED
      BY <1>0, <1>1, <2>1, <2>2, <3>1 DEF LoadFails, disk, history
  <2>3. CASE w = "renewal"
    <3>1. result' = {None} /\ UNCHANGED <<session, excused>>
      BY <1>1, <2>3 DEF LoadFails
    <3>2. \A r \in result' : ~r.ok
      BY <3>1 DEF None
    <3> QED
      BY <1>0, <1>1, <2>1, <2>3, <3>1, <3>2 DEF LoadFails, disk, history
  <2>4. CASE w = "skins"
    <3>1. UNCHANGED <<session, excused, result>>
      BY <1>1, <2>4 DEF LoadFails
    <3> QED
      BY <1>0, <1>1, <2>1, <2>4, <3>1 DEF LoadFails, disk, history
  <2> QED
    BY <1>0, <2>2, <2>3, <2>4
<1>2. ASSUME file.whole, job[w].pc = "file",
             job' = [job EXCEPT ![w].pc = "tokens", ![w].prev = file.in,
                                ![w].st.active = file.active],
             UNCHANGED <<ui, disk, newest, history, excused>>
      PROVE  /\ UNCHANGED <<session, mem, renewal, result, excused>>
             /\ job'[w].pc = "tokens" /\ job'[w].prev = file.in
             /\ \A v \in Workers \ {w} : job'[v] = job[v]
  <2>1. job[w] \in Job
    OBVIOUS
  <2>2. job'[w] = [job[w] EXCEPT !.pc = "tokens", !.prev = file.in, !.st.active = file.active]
    BY <1>2
  <2> QED
    BY <1>2, <2>1, <2>2 DEF ui, Job
<1>3. ASSUME NEW unread \in {{}, job[w].prev}, job[w].pc = "tokens",
             NEW st,
             st = [job[w].st EXCEPT !.tok = [a \in Accounts |->
                      IF a \in job[w].prev THEN Token(a, unread) ELSE Absent]]
      PROVE  In(st) = job[w].prev
  <2>1. \A a \in Accounts : Token(a, unread) # Absent
    BY DEF Token, Unread, Missing, Absent
  <2>2. job[w].st \in AnyState /\ job[w].prev \in SUBSET Accounts
    BY DEF Job
  <2>3. st.tok = [a \in Accounts |-> IF a \in job[w].prev THEN Token(a, unread) ELSE Absent]
    BY <1>3, <2>2 DEF AnyState
  <2> QED
    BY <2>1, <2>2, <2>3 DEF In
<1>4. CASE LoadTokens(w) /\ ~LoadFails(w)
  <2>1. PICK unread \in {{}, job[w].prev} :
            LET st == [job[w].st EXCEPT !.tok =
                         [a \in Accounts |-> IF a \in job[w].prev THEN Token(a, unread)
                                             ELSE Absent]]
            IN  /\ IF w = "loader"
                   THEN /\ session' = "on" /\ mem' = st
                        /\ \E start \in BOOLEAN :
                             LET go == start /\ In(st) # {}
                             IN  /\ renewal' = IF go THEN Accounts ELSE {}
                                 /\ job' = [job EXCEPT ![w] = Idle,
                                             !["renewal"].pc = IF go THEN "file" ELSE "idle"]
                   ELSE /\ job' = [job EXCEPT ![w].st = st,
                             ![w].pc = IF w = "renewal" THEN "refresh" ELSE "previous"]
                        /\ UNCHANGED <<session, mem, renewal>>
                /\ UNCHANGED <<flow, result, queue, next, written, disk, newest,
                               history, excused>>
    BY <1>4 DEF LoadTokens
  <2> DEFINE st == [job[w].st EXCEPT !.tok =
                         [a \in Accounts |-> IF a \in job[w].prev THEN Token(a, unread)
                                             ELSE Absent]]
  <2>2. job[w].pc = "tokens"
    BY <1>4 DEF LoadTokens
  <2>3. In(st) = job[w].prev
    BY <1>3, <2>2
  <2> HIDE DEF st
  <2>4. CASE w = "loader"
    <3>1. /\ session' = "on" /\ mem' = st
          /\ \E start \in BOOLEAN :
                LET go == start /\ In(st) # {}
                IN  /\ renewal' = IF go THEN Accounts ELSE {}
                    /\ job' = [job EXCEPT ![w] = Idle,
                                !["renewal"].pc = IF go THEN "file" ELSE "idle"]
      BY <2>1, <2>4 DEF st
    <3>2. PICK start \in BOOLEAN :
                LET go == start /\ In(st) # {}
                IN  /\ renewal' = IF go THEN Accounts ELSE {}
                    /\ job' = [job EXCEPT ![w] = Idle,
                                !["renewal"].pc = IF go THEN "file" ELSE "idle"]
      BY <3>1
    <3>3. /\ job'["loader"].pc = "idle" /\ job'["renewal"].pc \in {"idle", "file"}
          /\ \A v \in {"saver", "skins"} : job'[v] = job[v]
      BY <2>4, <3>2, Names DEF Idle, Job
    <3>4. job'["renewal"].pc = "file" => renewal' # {}
      <4>1. job'["renewal"].pc = "file" => start /\ In(st) # {}
        BY <2>4, <3>2, Names DEF Idle, Job
      <4>2. In(st) \subseteq Accounts
        BY DEF In
      <4> QED
        BY <3>2, <4>1, <4>2
    <3> QED
      BY <1>0, <2>1, <2>2, <2>3, <2>4, <3>1, <3>3, <3>4
  <2>5. CASE w # "loader"
    <3>1. /\ UNCHANGED <<session, mem, renewal>>
          /\ job' = [job EXCEPT ![w].st = st,
                             ![w].pc = IF w = "renewal" THEN "refresh" ELSE "previous"]
      BY <2>1, <2>5 DEF st
    <3>2. /\ job'[w].st = st /\ job'[w].pc = IF w = "renewal" THEN "refresh" ELSE "previous"
          /\ \A v \in Workers \ {w} : job'[v] = job[v]
      BY <3>1 DEF Job
    <3> QED
      BY <1>0, <2>1, <2>2, <2>3, <2>5, <3>1, <3>2
  <2> QED
    BY <2>4, <2>5
<1> QED
  <2>1. CASE LoadFile(w) /\ ~LoadFails(w)
    BY <1>0, <1>2, <2>1 DEF LoadFile, ui, disk
  <2> QED
    BY <1>0, <1>1, <1>4, <2>1

SaveStep(w) ==
    ReadPrevious(w) \/ StoreToken(w) \/ Truncate(w) \/ WriteFile(w) \/ DeleteToken(w)

\* A worker that saves lists on the file the accounts it saves, and a save that does not
\* fail ends only after that.
LEMMA SaveEffect ==
    ASSUME Typed, NEW w \in Workers, SaveStep(w)
    PROVE  /\ job[w].pc \in Saving /\ job'[w].pc \in {"idle"} \cup Saving
           /\ UNCHANGED <<session, mem, flow, renewal, queue, next, written, users, chosen>>
           /\ excused \subseteq excused'
           /\ \A v \in Workers \ {w} :
                job'[v].pc = job[v].pc /\ job'[v].st = job[v].st /\ job'[v].prev = job[v].prev
           /\ job'[w].pc # "idle" => job'[w].st = job[w].st
           /\ \/ result' = result
              \/ /\ w = "renewal" /\ job'[w].pc = "idle"
                 /\ \A r \in result' : r.ok => r.st = job[w].st
           /\ file' = file \/ file'.in = In(job[w].st)
           /\ job'[w].pc \in {"write", "delete"} =>
                file'.in = In(job[w].st) \/ (job[w].pc \in {"write", "delete"} /\ file' = file)
           /\ job'[w].pc = "idle" /\ excused' = {} =>
                file'.in = In(job[w].st) \/ (job[w].pc \in {"write", "delete"} /\ file' = file)
<1> USE Facts
<1>1. ASSUME NEW ok \in BOOLEAN, Saved(w, ok)
      PROVE  /\ UNCHANGED <<session, mem, flow, renewal, queue, next, written>>
             /\ \A v \in Workers \ {w} : job'[v] = job[v]
             /\ job'[w].pc = "idle"
             /\ \/ result' = result
                \/ w = "renewal" /\ \A r \in result' : r.ok => r.st = job[w].st
  <2>1. job' = [job EXCEPT ![w] = Idle] /\ Idle.pc = "idle"
    BY <1>1 DEF Saved, Idle
  <2>2. CASE w = "renewal"
    BY <1>1, <2>1, <2>2 DEF Saved, None
  <2>3. CASE w # "renewal"
    BY <1>1, <2>1, <2>3 DEF Saved
  <2> QED
    BY <2>2, <2>3
<1>2. ASSUME SaveFails(w)
      PROVE  /\ UNCHANGED <<session, mem, flow, renewal, queue, next, written, users, chosen>>
             /\ \A v \in Workers \ {w} : job'[v] = job[v]
             /\ job'[w].pc = "idle"
             /\ \/ result' = result
                \/ w = "renewal" /\ \A r \in result' : r.ok => r.st = job[w].st
             /\ excused \subseteq excused' /\ excused' # {}
  BY <1>1, <1>2 DEF SaveFails, history
<1>3. ASSUME NEW left, Left(w, left), job[w].pc \in Saving
      PROVE  /\ UNCHANGED <<session, mem, flow, renewal, queue, next, written>>
             /\ \A v \in Workers \ {w} : job'[v] = job[v]
             /\ job'[w].pc \in {"idle", "delete"}
             /\ job'[w].pc # "idle" => job'[w].st = job[w].st
             /\ \/ result' = result
                \/ /\ w = "renewal" /\ job'[w].pc = "idle"
                   /\ \A r \in result' : r.ok => r.st = job[w].st
  <2>1. CASE left = {}
    BY <1>1, <1>3, <2>1 DEF Left
  <2>2. CASE left # {}
    <3>1. job' = [job EXCEPT ![w].pc = "delete", ![w].todo = left] /\ UNCHANGED ui
      BY <1>3, <2>2 DEF Left
    <3>2. job[w] \in Job
      OBVIOUS
    <3> QED
      BY <3>1, <3>2 DEF ui, Job
  <2> QED
    BY <2>1, <2>2
<1>4. CASE ReadPrevious(w)
  <2>1. job[w] \in Job /\ job[w].pc = "previous"
    BY <1>4 DEF ReadPrevious
  <2>2. job'[w].pc = "store" /\ job'[w].st = job[w].st /\ \A v \in Workers \ {w} : job'[v] = job[v]
    BY <1>4, <2>1 DEF ReadPrevious, Job
  <2> QED
    BY <1>4, <2>1, <2>2 DEF ReadPrevious, ui, disk, history, Saving
<1>5. CASE StoreToken(w)
  <2>1. job[w] \in Job /\ job[w].pc = "store" /\ UNCHANGED file
    BY <1>5 DEF StoreToken
  <2>2. PICK a \in job[w].todo :
         \/ /\ job' = [job EXCEPT ![w].todo = @ \ {a}]
            /\ UNCHANGED <<ui, file, newest, history, excused>>
         \/ /\ Saved(w, FALSE)
            /\ excused' = excused \cup {"not saved", "token deleted"}
            /\ UNCHANGED <<file, newest, history>>
    BY <1>5 DEF StoreToken
  <2>3. CASE job' = [job EXCEPT ![w].todo = @ \ {a}] /\ UNCHANGED <<ui, file, newest, history, excused>>
    <3>1. job'[w].pc = "store" /\ job'[w].st = job[w].st /\ \A v \in Workers \ {w} : job'[v] = job[v]
      BY <2>1, <2>3 DEF Job
    <3> QED
      BY <2>1, <2>3, <3>1 DEF ui, history, Saving
  <2>4. CASE Saved(w, FALSE) /\ excused' = excused \cup {"not saved", "token deleted"}
             /\ UNCHANGED <<file, newest, history>>
    BY <1>1, <2>1, <2>4 DEF history, Saving
  <2> QED
    BY <2>2, <2>3, <2>4
<1>6. CASE Truncate(w)
  <2> DEFINE others == {v \in Workers \ {w} : job[v].pc = "write"}
  <2>1. job' = [v \in Workers |->
                     IF v = w THEN [job[w] EXCEPT !.pc = "write", !.mixed = others # {},
                                       !.prev = {}, !.todo = job[w].prev \ In(job[w].st)]
                     ELSE IF v \in others THEN [job[v] EXCEPT !.mixed = TRUE]
                     ELSE job[v]]
    BY <1>6 DEF Truncate
  <2> HIDE DEF others
  <2>2. job[w] \in Job /\ job[w].pc = "store"
    BY <1>6 DEF Truncate
  <2>3. job'[w].pc = "write" /\ job'[w].st = job[w].st
    BY <2>1, <2>2 DEF Job
  <2>4. ASSUME NEW v \in Workers \ {w}
        PROVE  job'[v].pc = job[v].pc /\ job'[v].st = job[v].st /\ job'[v].prev = job[v].prev
    <3>1. job[v] \in Job
      OBVIOUS
    <3>2. job'[v] = job[v] \/ job'[v] = [job[v] EXCEPT !.mixed = TRUE]
      BY <2>1
    <3> QED
      BY <3>1, <3>2 DEF Job
  <2>5. file'.in = In(job[w].st) /\ UNCHANGED <<ui, history, excused>>
    BY <1>6 DEF Truncate
  <2> QED
    BY <2>2, <2>3, <2>4, <2>5 DEF ui, history, Saving
<1>7. CASE WriteFile(w)
  <2>1. job[w].pc = "write" /\ job[w].pc \in Saving
    BY <1>7 DEF WriteFile, Saving
  <2>2. CASE SaveFails(w) /\ UNCHANGED disk
    BY <1>2, <2>1, <2>2 DEF disk
  <2>3. CASE Left(w, job[w].todo) /\ UNCHANGED <<keyring, newest, history, excused>>
             /\ file'.in = In(job[w].st)
    BY <1>3, <2>1, <2>3 DEF history, Saving
  <2> QED
    BY <1>7, <2>2, <2>3 DEF WriteFile
<1>8. CASE DeleteToken(w)
  <2>1. job[w].pc = "delete" /\ job[w].pc \in Saving
    BY <1>8 DEF DeleteToken, Saving
  <2>2. CASE SaveFails(w) /\ UNCHANGED disk
    BY <1>2, <2>1, <2>2 DEF disk
  <2>3. ASSUME NEW a, Left(w, job[w].todo \ {a}), UNCHANGED <<file, newest, history, excused>>
        PROVE  /\ UNCHANGED <<session, mem, flow, renewal, queue, next, written, users, chosen>>
               /\ excused \subseteq excused' /\ file' = file
               /\ \A v \in Workers \ {w} : job'[v] = job[v]
               /\ job'[w].pc \in {"idle", "delete"}
               /\ job'[w].pc # "idle" => job'[w].st = job[w].st
               /\ \/ result' = result
                  \/ /\ w = "renewal" /\ job'[w].pc = "idle"
                     /\ \A r \in result' : r.ok => r.st = job[w].st
    BY <1>3, <2>1, <2>3 DEF history
  <2> QED
    BY <1>2, <1>8, <2>1, <2>2, <2>3 DEF DeleteToken, Saving
<1> QED
  BY <1>4, <1>5, <1>6, <1>7, <1>8 DEF SaveStep
-----------------------------------------------------------------------------
(* Who is at work, and which account is active.                             *)

\* Who is at work when, and on what, whatever steps.
LEMMA AtWorkStep ==
    ASSUME Typed, AtWork, Next
    PROVE  AtWork'
<1> USE Facts, Names
<1>0. /\ \A w \in Workers : job[w] \in Job
      /\ Workers = {"loader", "saver", "renewal", "skins"}
  BY DEF Workers
<1>a. ASSUME NEW which \in SUBSET Accounts, which # {}, StartRenewal(which), renewal = {},
             session = "on", UNCHANGED <<session, result>>
      PROVE  AtWork'
  <2>1. job'["renewal"].pc = "file" /\ \A v \in Workers \ {"renewal"} : job'[v] = job[v]
    BY <1>0, <1>a DEF StartRenewal, To, Job
  <2> QED
    BY <1>0, <1>a, <2>1 DEF AtWork, StartRenewal, Busy
<1>1. CASE StartSession
  <2>1. job'["loader"].pc = "file" /\ \A v \in Workers \ {"loader"} : job'[v] = job[v]
    BY <1>0, <1>1 DEF StartSession, To, Job
  <2>2. /\ session' = "loading" /\ queue' = {} /\ renewal' = {} /\ result' = {} /\ ~flow'
        /\ chosen' = NoAccount /\ next' = 0 /\ written' = 0
    BY <1>1 DEF StartSession, AtWork, history
  <2>3. \A w \in Workers \ {"loader"} : job'[w].pc = "idle"
    BY <1>1, <2>1 DEF StartSession, AtWork, Busy
  <2> QED
    BY <1>0, <2>1, <2>2, <2>3 DEF AtWork, Busy
<1>2. CASE StartSignIn
  BY <1>2 DEF AtWork, StartSignIn, Busy
<1>3. CASE EndSignIn
  <2>1. session = "on"
    BY <1>3 DEF AtWork, EndSignIn
  <2> QED
    BY <1>3, <2>1 DEF AtWork, EndSignIn, Busy
<1>4. CASE PollRenewal
  <2>1. session = "on" /\ ~Busy("renewal")
    BY <1>4 DEF AtWork, PollRenewal
  <2> QED
    BY <1>4, <2>1 DEF AtWork, PollRenewal, Busy
<1>5. CASE Refresh
  <2>1. /\ \A v \in Workers \ {"renewal"} : job'[v] = job[v]
        /\ \/ job'["renewal"].pc = "previous" /\ UNCHANGED result
           \/ job'["renewal"].pc = "idle"
    BY <1>0, <1>5 DEF Refresh, Job, Idle
  <2>2. Busy("renewal") /\ session = "on" /\ renewal # {} /\ result = {}
    BY <1>0, <1>5 DEF Refresh, AtWork, Busy
  <2> QED
    BY <1>0, <1>5, <2>1, <2>2 DEF AtWork, Refresh, Busy
<1>6. CASE StartSkins
  <2>1. job'["skins"].pc = "file" /\ \A v \in Workers \ {"skins"} : job'[v] = job[v]
    BY <1>0, <1>6 DEF StartSkins, To, Job
  <2> QED
    BY <1>0, <1>6, <2>1 DEF AtWork, StartSkins, Busy, ui
<1>7. CASE End
  BY <1>0, <1>7 DEF AtWork, End, Busy, Idle
<1>8. ASSUME NEW a \in Accounts, SelectAccount(a) PROVE AtWork'
  <2>1. CASE UNCHANGED <<renewal, job>>
    BY <1>8, <2>1 DEF AtWork, SelectAccount, Busy
  <2>2. CASE renewal = {} /\ StartRenewal(Accounts)
    BY <1>a, <1>8, <2>2 DEF SelectAccount
  <2> QED
    BY <1>8, <2>1, <2>2 DEF SelectAccount
<1>9. ASSUME NEW a \in Accounts, RemoveAccount(a) PROVE AtWork'
  BY <1>9 DEF AtWork, RemoveAccount, Busy
<1>10. ASSUME NEW a \in Accounts, RefreshAccount(a) PROVE AtWork'
  BY <1>a, <1>10 DEF RefreshAccount
<1>11. ASSUME NEW r \in queue, BeginSave(r) PROVE AtWork'
  <2>1. session = "on"
    BY <1>11 DEF AtWork
  <2>2. /\ \A v \in Workers \ {"saver"} : job'[v] = job[v]
        /\ job'["saver"] = job["saver"] \/ job'["saver"].pc = "previous"
    BY <1>0, <1>11 DEF BeginSave, Job
  <2> QED
    BY <1>0, <1>11, <2>1, <2>2 DEF AtWork, BeginSave, Busy, Saving
<1>12. ASSUME NEW w \in Workers, LoadFile(w) \/ LoadTokens(w) PROVE AtWork'
  <2>1. CASE w = "loader"
    <3>1. session = "loading" /\ result = {} /\ \A v \in Workers \ {"loader"} : ~Busy(v)
      BY <1>12, <2>1, LoadEffect DEF AtWork, Busy
    <3> QED
      BY <1>0, <1>12, <2>1, <3>1, LoadEffect DEF AtWork, Busy, history
  <2>2. CASE w # "loader"
    <3>1. session = "on" /\ Busy(w)
      BY <1>12, <2>2, LoadEffect DEF AtWork, Busy
    <3> QED
      BY <1>0, <1>12, <2>2, <3>1, LoadEffect DEF AtWork, Busy, history, Saving
  <2> QED
    BY <2>1, <2>2
<1>13. ASSUME NEW w \in Workers, SaveStep(w) PROVE AtWork'
  <2>1. w # "loader" /\ Busy(w) /\ session = "on"
    BY <1>0, <1>13, SaveEffect DEF AtWork, Busy, Saving
  <2> QED
    BY <1>0, <1>13, <2>1, SaveEffect DEF AtWork, Busy
<1> QED
  BY <1>1, <1>2, <1>3, <1>4, <1>5, <1>6, <1>7, <1>8, <1>9, <1>10, <1>11, <1>12, <1>13
  DEF Next, Step, SaveStep

\* The account the user chose stays the active one.
LEMMA ChosenStep ==
    ASSUME Typed, AtWork, ChosenIsActive, Next
    PROVE  ChosenIsActive'
<1> USE Facts
<1>1. CASE EndSignIn
  BY <1>1 DEF EndSignIn, ChosenIsActive
<1>2. CASE PollRenewal
  <2>1. PICK r \in result : IF r.ok THEN /\ mem' = KeepActive(r.st)
                                         /\ chosen' = IF chosen \in In(r.st) THEN chosen ELSE NoAccount
                            ELSE UNCHANGED <<mem, chosen>>
    BY <1>2 DEF PollRenewal
  <2>2. r.st \in AnyState
    OBVIOUS
  <2>3. CASE r.ok /\ chosen \in In(r.st)
    <3>1. chosen \in Accounts /\ chosen # NoAccount
      BY <2>3, AccountsAssumption DEF In
    <3>2. mem' = [r.st EXCEPT !.active = mem.active]
      BY <2>1, <2>3, <3>1 DEF ChosenIsActive, KeepActive
    <3> QED
      BY <2>1, <2>2, <2>3, <3>1, <3>2 DEF ChosenIsActive, AnyState
  <2>4. CASE ~(r.ok /\ chosen \in In(r.st))
    BY <2>1, <2>4 DEF ChosenIsActive
  <2> QED
    BY <2>3, <2>4
<1>3. ASSUME NEW a \in Accounts, SelectAccount(a) PROVE ChosenIsActive'
  BY <1>3 DEF SelectAccount, ChosenIsActive, AnyState
<1>4. ASSUME NEW a \in Accounts, RemoveAccount(a) PROVE ChosenIsActive'
  <2>1. PICK b \in ActiveWithout(a) : mem' = [tok |-> [mem.tok EXCEPT ![a] = Absent], active |-> b]
    BY <1>4 DEF RemoveAccount
  <2>2. mem'.active = b /\ chosen' = IF chosen = a THEN NoAccount ELSE chosen
    BY <1>4, <2>1 DEF RemoveAccount
  <2>3. CASE mem.active # a
    <3>1. b = mem.active
      BY <2>3 DEF ActiveWithout
    <3> QED
      BY <2>2, <3>1 DEF ChosenIsActive
  <2>4. CASE mem.active = a
    BY <2>2, <2>4 DEF ChosenIsActive
  <2> QED
    BY <2>3, <2>4
<1>5. CASE End
  BY <1>5 DEF End, ChosenIsActive
<1>6. ASSUME NEW w \in Workers, LoadFile(w) \/ LoadTokens(w) PROVE ChosenIsActive'
  <2>1. CASE w = "loader"
    <3>1. chosen = NoAccount
      BY <1>6, <2>1, LoadEffect DEF AtWork, Busy
    <3> QED
      BY <1>6, <3>1, LoadEffect DEF ChosenIsActive, history
  <2>2. CASE w # "loader"
    BY <1>6, <2>2, LoadEffect DEF ChosenIsActive, history
  <2> QED
    BY <2>1, <2>2
<1>7. ASSUME UNCHANGED <<mem, chosen>> PROVE ChosenIsActive'
  BY <1>7 DEF ChosenIsActive
<1> QED
  BY <1>1, <1>2, <1>3, <1>4, <1>5, <1>6, <1>7, SaveEffect
  DEF Next, Step, SaveStep, StartSession, StartSignIn, Refresh, StartSkins, RefreshAccount,
      BeginSave, ui, history

\* The numbers of the saves stay in order.
LEMMA NumberedStep ==
    ASSUME Typed, AtWork, Numbered, Next
    PROVE  Numbered'
<1> USE Facts
<1>1. ASSUME NEW st, Queue(st), UNCHANGED written PROVE Numbered'
  <2>1. next' = next + 1 /\ queue' = queue \cup {[seq |-> next + 1, st |-> st]}
    BY <1>1 DEF Queue
  <2> QED
    BY <1>1, <2>1 DEF Numbered
<1>2. CASE UNCHANGED <<queue, next, written>>
  BY <1>2 DEF Numbered
<1>3. CASE End
  <2>1. queue' = {} /\ next' = 0 /\ written' = 0
    BY <1>3 DEF End
  <2> QED
    BY <2>1 DEF Numbered
<1>4. ASSUME NEW r \in queue, BeginSave(r) PROVE Numbered'
  BY <1>4 DEF BeginSave, Numbered
<1>5. CASE EndSignIn
  BY <1>1, <1>2, <1>5 DEF EndSignIn
<1>6. ASSUME NEW a \in Accounts, SelectAccount(a) \/ RemoveAccount(a) PROVE Numbered'
  BY <1>1, <1>6 DEF SelectAccount, RemoveAccount
<1> QED
  BY <1>2, <1>3, <1>4, <1>5, <1>6, SaveEffect, LoadEffect
  DEF Next, Step, SaveStep, StartSession, StartSignIn, PollRenewal, Refresh, StartSkins,
      RefreshAccount, ui
-----------------------------------------------------------------------------
(* The accounts: in memory, on the disk and in the user's mind.             *)

\* Failures are not forgotten.
LEMMA ExcusedGrows ==
    ASSUME Typed, AtWork, Next
    PROVE  excused \subseteq excused'
<1>1. ASSUME NEW w \in Workers, LoadFile(w) \/ LoadTokens(w) PROVE excused \subseteq excused'
  BY <1>1, LoadEffect
<1>2. ASSUME NEW w \in Workers, SaveStep(w) PROVE excused \subseteq excused'
  BY <1>2, SaveEffect
<1>3. CASE End
  BY <1>3 DEF End
<1>4. ASSUME NEW a \in Accounts, SelectAccount(a) \/ RemoveAccount(a) \/ RefreshAccount(a)
      PROVE  excused \subseteq excused'
  BY <1>4 DEF SelectAccount, RemoveAccount, RefreshAccount
<1>5. ASSUME NEW r \in queue, BeginSave(r) PROVE excused \subseteq excused'
  BY <1>5 DEF BeginSave
<1>6. CASE StartSession \/ StartSignIn \/ EndSignIn \/ PollRenewal \/ Refresh \/ StartSkins
  BY <1>6 DEF StartSession, StartSignIn, EndSignIn, PollRenewal, Refresh, StartSkins
<1> QED
  BY <1>1, <1>2, <1>3, <1>4, <1>5, <1>6 DEF Next, Step, SaveStep

\* Whoever is about to load the accounts, or has, finds those in memory in the file.
FileIsMemory == renewal # {} \/ Busy("renewal") \/ Busy("skins") => file.in = In(mem)

\* Unless the accounts have raced, those who load them find on disk what is in memory.
LEMMA Unraced ==
    ASSUME Next, "accounts" \notin raced'
    PROVE  "accounts" \notin raced /\ FileIsMemory'
<1>1. raced \subseteq raced' /\ Races' \subseteq raced'
  BY DEF Next
<1>2. ~( /\ {w \in {"renewal", "skins"} : Busy(w)'}
               \cup (IF renewal' = {} THEN {} ELSE {"renewal"}) # {}
         /\ In(mem') # file'.in)
  BY <1>1 DEF Races
<1> QED
  BY <1>1, <1>2 DEF FileIsMemory

\* What the last save asked for stays right while neither the accounts nor the saves change.
LEMMA LastStays ==
    ASSUME LastIsSaved, UNCHANGED <<queue, next, written>>, In(mem') = In(mem), file'.in = file.in,
           job'["saver"].pc = job["saver"].pc, job'["saver"].st = job["saver"].st
    PROVE  LastIsSaved'
BY DEF LastIsSaved, Busy

\* A save is asked for of the accounts as they are.
LEMMA LastIsAsked ==
    ASSUME Typed, Numbered, LastIsSaved, Queue(mem'), UNCHANGED <<written, file>>,
           job'["saver"] = job["saver"]
    PROVE  LastIsSaved'
<1> USE Facts
<1>1. next' = next + 1 /\ queue' = queue \cup {[seq |-> next', st |-> mem']}
  BY DEF Queue
<1>2. \A r \in queue : r.seq # next'
  BY <1>1 DEF Numbered
<1>3. written' # next'
  BY <1>1 DEF Numbered
<1>4. \A r \in queue' : r.seq = next' => r.st = mem'
  BY <1>1, <1>2
<1>5. \E r \in queue' : r.seq = next'
  <2> DEFINE new == [seq |-> next', st |-> mem']
  <2>1. new \in queue' /\ new.seq = next'
    BY <1>1
  <2> QED
    BY <2>1
<1> QED
  BY <1>3, <1>4, <1>5 DEF LastIsSaved

\* Nobody comes into the way of a step that leaves the file and what was loaded alone.
LEMMA OthersStay ==
    ASSUME AtWork, AtWork', NobodyInTheWay, FileIsMemory', UNCHANGED file,
           \A w \in {"renewal", "skins"} : job'[w] = job[w] \/ job'[w].pc \in {"idle", "file"},
           result' \subseteq result
    PROVE  NobodyInTheWay'
<1>1. ASSUME NEW w \in {"renewal", "skins"} PROVE Loaded(w)'
  <2>1. CASE job'[w].pc \in {"idle", "file"}
    BY <2>1 DEF Loaded, Saving
  <2>2. CASE job'[w].pc \notin {"idle", "file"}
    <3>1. job'[w] = job[w] /\ Loaded(w)
      BY <2>2 DEF NobodyInTheWay
    <3>2. file.in = In(mem) /\ file'.in = In(mem')
      BY <2>2, <3>1 DEF NobodyInTheWay, FileIsMemory, Busy
    <3>3. In(mem') = In(mem)
      BY <3>2
    <3> QED
      BY <3>1, <3>3 DEF Loaded
  <2> QED
    BY <2>1, <2>2
<1>2. ASSUME NEW r \in result', r.ok PROVE In(r.st) = In(mem')
  <2>1. renewal # {} /\ renewal' # {} /\ r \in result
    BY <1>2 DEF AtWork
  <2>2. In(r.st) = In(mem) /\ file.in = In(mem) /\ file'.in = In(mem')
    BY <1>2, <2>1 DEF NobodyInTheWay, FileIsMemory
  <2> QED
    BY <2>2
<1> QED
  BY <1>1, <1>2 DEF NobodyInTheWay, FileIsMemory

\* The renewal and the skins screen load what is in memory.
LEMMA LoadHolds ==
    ASSUME Typed, AtWork, AtWork', NEW w \in Workers \ {"loader"}, LoadFile(w) \/ LoadTokens(w),
           LastIsSaved, NobodyInTheWay, FileIsMemory'
    PROVE  LastIsSaved' /\ NobodyInTheWay'
<1> USE Facts
<1>1. /\ w \in {"renewal", "skins"} /\ job[w].pc \in {"file", "tokens"}
      /\ UNCHANGED <<queue, next, written, file, mem>>
      /\ \A v \in Workers \ {w} : job'[v] = job[v]
  BY LoadEffect DEF disk
<1>2. LastIsSaved'
  BY <1>1, LastStays, Names
<1>3. file.in = In(mem) /\ Loaded(w)
  BY <1>1 DEF NobodyInTheWay, Busy
<1>4. Loaded(w)'
  <2>1. job'[w].pc = "tokens" => job'[w].prev = In(mem')
    BY <1>1, <1>3, LoadEffect
  <2>2. job'[w].pc \in {"refresh", "previous"} => In(job'[w].st) = In(mem')
    BY <1>1, <1>3, LoadEffect DEF Loaded
  <2>3. job'[w].pc \in {"idle", "tokens", "refresh", "previous"}
    BY <1>1, LoadEffect
  <2> QED
    BY <2>1, <2>2, <2>3 DEF Loaded, Saving
<1>5. \A v \in {"renewal", "skins"} \ {w} : Loaded(v)'
  BY <1>1, Names DEF NobodyInTheWay, Loaded
<1>6. \A r \in result' : r.ok => In(r.st) = In(mem')
  BY <1>1, LoadEffect DEF NobodyInTheWay
<1> QED
  BY <1>2, <1>4, <1>5, <1>6 DEF NobodyInTheWay, FileIsMemory

\* A save that does not fail leaves the accounts of the last save in the file.
LEMMA SaveHolds ==
    ASSUME Typed, AtWork, AtWork', NEW w \in Workers, SaveStep(w), excused' = {},
           LastIsSaved, NobodyInTheWay, FileIsMemory'
    PROVE  LastIsSaved' /\ NobodyInTheWay'
<1> USE Facts
<1>1. /\ w # "loader" /\ job[w].pc \in Saving /\ UNCHANGED <<queue, next, written, mem>>
      /\ \A v \in Workers \ {w} :
           job'[v].pc = job[v].pc /\ job'[v].st = job[v].st /\ job'[v].prev = job[v].prev
      /\ job'[w].pc # "idle" => job'[w].st = job[w].st
      /\ job'[w].pc \in {"idle"} \cup Saving
  BY SaveEffect DEF AtWork, Saving
<1>2. \A v \in {"renewal", "skins"} \ {w} : Loaded(v)'
  BY <1>1, Names DEF NobodyInTheWay, Loaded
<1>3. CASE w = "saver"
  <2>1. /\ file' = file \/ file'.in = In(job["saver"].st)
        /\ job'["saver"].pc \in {"idle", "write", "delete"} =>
             \/ file'.in = In(job["saver"].st)
             \/ job["saver"].pc \in {"write", "delete"} /\ file' = file
        /\ result' = result
    BY <1>1, <1>3, SaveEffect
  <2>2. written' = next' /\ Busy("saver")' => In(job'["saver"].st) = In(mem')
    BY <1>1, <1>3 DEF LastIsSaved, Busy, Saving
  <2>3. job'["saver"].pc \in {"write", "delete"} => file'.in = In(job'["saver"].st)
    BY <1>1, <1>3, <2>1 DEF LastIsSaved
  <2>4. \/ \E r \in queue' : r.seq = next'
        \/ written' = next' /\ job'["saver"].pc \in {"previous", "store"}
        \/ written' = next' /\ file'.in = In(mem')
    <3>1. CASE \E r \in queue : r.seq = next
      BY <1>1, <3>1
    <3>2. CASE written = next
      <4>1. In(job["saver"].st) = In(mem)
        BY <1>1, <1>3, <3>2 DEF LastIsSaved, Busy, Saving
      <4>2. CASE job["saver"].pc \in {"previous", "store"}
        <5>1. job'["saver"].pc \in {"idle", "write", "delete"} => file'.in = In(mem')
          BY <1>1, <2>1, <4>1, <4>2
        <5>2. job'["saver"].pc \in {"idle", "previous", "store", "write", "delete"}
          <6>1. job'["saver"].pc \in {"idle"} \cup Saving
            BY <1>1, <1>3, Zenon
          <6> QED
            BY <6>1 DEF Saving
        <5> QED
          BY <1>1, <3>2, <5>1, <5>2
      <4>3. CASE file.in = In(mem)
        BY <1>1, <2>1, <3>2, <4>1, <4>3
      <4> QED
        BY <3>2, <4>1, <4>2, <4>3, <1>1 DEF LastIsSaved, Saving
    <3> QED
      BY <3>1, <3>2 DEF LastIsSaved
  <2>5. LastIsSaved'
    BY <1>1, <2>2, <2>3, <2>4 DEF LastIsSaved
  <2>6. \A r \in result' : r.ok => In(r.st) = In(mem')
    BY <1>1, <2>1 DEF NobodyInTheWay
  <2> QED
    BY <1>2, <1>3, <2>5, <2>6 DEF NobodyInTheWay, FileIsMemory
<1>4. CASE w # "saver"
  <2>1. w \in {"renewal", "skins"} /\ Busy(w)
    BY <1>1, <1>4 DEF Workers, Busy, Saving
  <2>2. file.in = In(mem) /\ In(job[w].st) = In(mem)
    BY <1>1, <2>1 DEF NobodyInTheWay, Loaded
  <2>3. file'.in = In(mem)
    BY <2>2, SaveEffect
  <2>4. LastIsSaved'
    BY <1>1, <1>4, <2>2, <2>3, LastStays, Names
  <2>5. Loaded(w)'
    BY <1>1, <2>2 DEF Loaded, Saving
  <2>6. \A r \in result' : r.ok => In(r.st) = In(mem')
    BY <1>1, <2>2, SaveEffect DEF NobodyInTheWay
  <2> QED
    BY <1>2, <2>1, <2>4, <2>5, <2>6 DEF NobodyInTheWay, FileIsMemory
<1> QED
  BY <1>3, <1>4

\* A renewal changes the tokens, not the accounts.
LEMMA RefreshHolds ==
    ASSUME Typed, AtWork, AtWork', Refresh, LastIsSaved, NobodyInTheWay, FileIsMemory'
    PROVE  LastIsSaved' /\ NobodyInTheWay'
<1> USE Facts, Names
<1> DEFINE st == job["renewal"].st
<1>1. job["renewal"] \in Job /\ job["renewal"].pc = "refresh" /\ st \in AnyState
      /\ UNCHANGED <<queue, next, written, file, mem>>
  BY DEF Refresh, disk, Job
<1>2. In(st) = In(mem)
  BY <1>1 DEF NobodyInTheWay, Loaded
<1>3. PICK ok \in SUBSET {a \in renewal : st.tok[a] > 0} : \E new \in SUBSET ok :
        LET tok == [a \in Accounts |-> IF a \in new THEN newest[a] + 1 ELSE st.tok[a]]
        IN  \/ /\ job' = [job EXCEPT !["renewal"].pc = "previous", !["renewal"].st.tok = tok]
               /\ UNCHANGED result
            \/ /\ job' = [job EXCEPT !["renewal"] = Idle]
               /\ \E sent \in BOOLEAN : result' = {IF sent THEN [ok |-> TRUE, st |-> st] ELSE None}
  BY DEF Refresh
<1>4. PICK new \in SUBSET ok :
        LET tok == [a \in Accounts |-> IF a \in new THEN newest[a] + 1 ELSE st.tok[a]]
        IN  \/ /\ job' = [job EXCEPT !["renewal"].pc = "previous", !["renewal"].st.tok = tok]
               /\ UNCHANGED result
            \/ /\ job' = [job EXCEPT !["renewal"] = Idle]
               /\ \E sent \in BOOLEAN : result' = {IF sent THEN [ok |-> TRUE, st |-> st] ELSE None}
  BY <1>3
<1> DEFINE tok == [a \in Accounts |-> IF a \in new THEN newest[a] + 1 ELSE st.tok[a]]
<1>5. \A v \in Workers \ {"renewal"} : job'[v] = job[v]
  BY <1>4
<1>6. LastIsSaved'
  BY <1>1, <1>5, LastStays
<1>7. Loaded("skins")'
  BY <1>1, <1>5 DEF NobodyInTheWay, Loaded
<1>8. CASE /\ job' = [job EXCEPT !["renewal"].pc = "previous", !["renewal"].st.tok = tok]
           /\ UNCHANGED result
  <2>1. \A a \in Accounts : tok[a] # Absent <=> st.tok[a] # Absent
    BY DEF Absent
  <2> HIDE DEF tok
  <2>2. job'["renewal"].pc = "previous" /\ job'["renewal"].st.tok = tok
    BY <1>1, <1>8 DEF Job, AnyState
  <2>3. In(job'["renewal"].st) = In(st)
    BY <2>1, <2>2 DEF In
  <2> QED
    BY <1>1, <1>2, <1>6, <1>7, <1>8, <2>2, <2>3 DEF NobodyInTheWay, Loaded, FileIsMemory
<1>9. CASE /\ job' = [job EXCEPT !["renewal"] = Idle]
           /\ \E sent \in BOOLEAN : result' = {IF sent THEN [ok |-> TRUE, st |-> st] ELSE None}
  <2>1. job'["renewal"].pc = "idle"
    BY <1>9 DEF Idle
  <2>2. \A r \in result' : r.ok => r.st = st
    BY <1>9 DEF None
  <2> HIDE DEF st
  <2>3. Loaded("renewal")'
    BY <2>1 DEF Loaded, Saving
  <2>4. \A r \in result' : r.ok => In(r.st) = In(mem')
    BY <1>1, <1>2, <2>2
  <2> QED
    BY <1>6, <1>7, <2>3, <2>4 DEF NobodyInTheWay, FileIsMemory
<1> QED
  BY <1>4, <1>8, <1>9

\* Between one session and the next, and while the accounts are loaded.
LEMMA SessionHolds ==
    ASSUME Typed, AtWork, AtWork', Next, excused' = {}, "accounts" \notin raced', AccountsHold,
           session # "on" \/ session' # "on"
    PROVE  AccountsHold'
<1> USE Facts, Names
<1>0. FileIsMemory'
  BY Unraced
<1>1. CASE StartSession
  BY <1>1 DEF StartSession, To, AccountsHold, Job, disk, history
<1>2. CASE End
  <2>1. /\ session' = "off" /\ UNCHANGED <<file, users>>
        /\ queue = {} /\ \A w \in Workers : ~Busy(w)
    BY <1>2 DEF End
  <2>2. session = "on"
    BY <1>2, <2>1 DEF End, AtWork
  <2>3. file.in = In(mem) /\ In(mem) = users
    BY <2>1, <2>2 DEF AccountsHold, LastIsSaved, Busy
  <2> QED
    BY <2>1, <2>3 DEF AccountsHold
<1>3. ASSUME LoadFile("loader") \/ LoadTokens("loader") PROVE AccountsHold'
  <2>1. session = "loading" /\ file.in = users /\ UNCHANGED <<file, users, queue, next, written, result>>
        /\ (job["loader"].pc = "tokens" => job["loader"].prev = users)
    BY <1>3, LoadEffect DEF AtWork, Busy, AccountsHold, disk, history
  <2>2. CASE job'["loader"].pc = "tokens"
    <3>1. session' = "loading" /\ job'["loader"].prev = file.in
      BY <1>3, <2>1, <2>2, LoadEffect
    <3> QED
      BY <2>1, <3>1 DEF AccountsHold
  <2>3. CASE job'["loader"].pc # "tokens"
    <3>1. /\ session' = "on" /\ In(mem') = users
          /\ \A v \in {"saver", "skins"} : job'[v] = job[v]
          /\ job'["renewal"].pc \in {"idle", "file"}
      BY <1>3, <2>1, <2>3, LoadEffect
    <3>2. next' = 0 /\ written' = 0 /\ queue' = {} /\ result' = {} /\ file'.in = In(mem')
          /\ job'["saver"].pc = "idle" /\ job'["skins"].pc = "idle"
      BY <2>1, <3>1 DEF AtWork, Busy
    <3>3. LastIsSaved'
      BY <3>2 DEF LastIsSaved, Busy
    <3>4. NobodyInTheWay'
      BY <3>1, <3>2 DEF NobodyInTheWay, Loaded, Saving
    <3> QED
      BY <2>1, <3>1, <3>3, <3>4 DEF AccountsHold
  <2> QED
    BY <2>2, <2>3
<1>4. ASSUME NEW w \in Workers \ {"loader"}, LoadFile(w) \/ LoadTokens(w) PROVE AccountsHold'
  <2>1. Busy(w) /\ session' = session
    BY <1>4, LoadEffect DEF Busy
  <2> QED
    BY <1>4, <2>1 DEF AtWork
<1>5. ASSUME NEW w \in Workers, SaveStep(w) PROVE AccountsHold'
  <2>1. w # "loader" /\ Busy(w) /\ session' = session
    BY <1>5, SaveEffect DEF Busy, Saving, AtWork
  <2> QED
    BY <1>5, <2>1 DEF AtWork
<1>6. ASSUME StartSignIn \/ EndSignIn \/ PollRenewal \/ Refresh \/ StartSkins PROVE AccountsHold'
  <2>1. session = "on" /\ session' = session
    BY <1>6 DEF StartSignIn, EndSignIn, PollRenewal, Refresh, StartSkins, AtWork, Busy, ui
  <2> QED
    BY <2>1
<1>7. ASSUME NEW a \in Accounts, SelectAccount(a) \/ RemoveAccount(a) \/ RefreshAccount(a)
      PROVE  AccountsHold'
  <2>1. session = "on" /\ session' = session
    BY <1>7 DEF SelectAccount, RemoveAccount, RefreshAccount
  <2> QED
    BY <2>1
<1>8. ASSUME NEW r \in queue, BeginSave(r) PROVE AccountsHold'
  <2>1. session = "on" /\ session' = session
    BY <1>8 DEF BeginSave, AtWork
  <2> QED
    BY <2>1
<1> QED
  BY <1>1, <1>2, <1>3, <1>4, <1>5, <1>6, <1>7, <1>8 DEF Next, Step, SaveStep

\* As long as nothing raced or failed, memory and copies hold the accounts of the user.
LEMMA AccountsStep ==
    ASSUME Typed, AtWork, AtWork', Numbered, Next, excused' = {}, "accounts" \notin raced',
           AccountsHold
    PROVE  AccountsHold'
<1> USE Facts, Names
<1>0. FileIsMemory'
  BY Unraced
<1>1. CASE session # "on" \/ session' # "on"
  BY <1>1, SessionHolds
<1>2. CASE session = "on" /\ session' = "on"
  <2>0. In(mem) = users /\ LastIsSaved /\ NobodyInTheWay
    BY <1>2 DEF AccountsHold
  <2> SUFFICES In(mem') = users' /\ LastIsSaved' /\ NobodyInTheWay'
    BY <1>2 DEF AccountsHold
  <2>1. CASE StartSession \/ End
    BY <1>2, <2>1 DEF StartSession, End
  <2>2. CASE StartSignIn
    BY <1>0, <2>0, <2>2, LastStays, OthersStay DEF StartSignIn, disk, history
  <2>3. CASE EndSignIn
    <3>1. NobodyInTheWay'
      BY <1>0, <2>0, <2>3, OthersStay DEF EndSignIn, disk
    <3>2. CASE UNCHANGED <<mem, queue, next, newest, users, chosen>>
      BY <2>0, <2>3, <3>1, <3>2, LastStays DEF EndSignIn, disk
    <3>3. ASSUME NEW a \in Accounts, newest' = [newest EXCEPT ![a] = @ + 1],
                 mem' = [tok |-> [mem.tok EXCEPT ![a] = newest'[a]], active |-> a],
                 users' = users \cup {a}, Queue(mem')
          PROVE  In(mem') = users' /\ LastIsSaved'
      <4>1. newest'[a] # Absent
        BY <3>3 DEF Absent
      <4>2. In(mem') = In(mem) \cup {a}
        BY <3>3, <4>1 DEF In, AnyState
      <4>3. LastIsSaved'
        BY <2>0, <2>3, <3>3, LastIsAsked DEF EndSignIn, disk
      <4> QED
        BY <2>0, <3>3, <4>2, <4>3
    <3> QED
      BY <2>3, <3>1, <3>2, <3>3 DEF EndSignIn
  <2>4. CASE PollRenewal
    <3>1. NobodyInTheWay'
      BY <1>0, <2>0, <2>4, OthersStay DEF PollRenewal, disk
    <3>2. PICK r \in result : IF r.ok THEN mem' = KeepActive(r.st) ELSE mem' = mem
      BY <2>4 DEF PollRenewal
    <3>3. r.st \in AnyState /\ (r.ok => In(r.st) = In(mem))
      BY <2>0 DEF NobodyInTheWay
    <3>4. In(KeepActive(r.st)) = In(r.st)
      BY <3>3 DEF KeepActive, In, AnyState
    <3>5. In(mem') = In(mem)
      BY <3>2, <3>3, <3>4
    <3> QED
      BY <2>0, <2>4, <3>1, <3>5, LastStays DEF PollRenewal, disk
  <2>5. CASE Refresh
    BY <1>0, <2>0, <2>5, RefreshHolds DEF Refresh, history
  <2>6. CASE StartSkins
    <3>1. job'["skins"].pc = "file" /\ \A v \in Workers \ {"skins"} : job'[v] = job[v]
      BY <2>6 DEF StartSkins, To, Job
    <3> QED
      BY <1>0, <2>0, <2>6, <3>1, LastStays, OthersStay DEF StartSkins, ui, disk, history
  <2>7. ASSUME NEW which \in SUBSET Accounts, StartRenewal(which)
        PROVE  job'["renewal"].pc = "file" /\ \A v \in Workers \ {"renewal"} : job'[v] = job[v]
    BY <2>7 DEF StartRenewal, To, Job
  <2>8. ASSUME NEW a \in Accounts, SelectAccount(a)
        PROVE  In(mem') = users' /\ LastIsSaved' /\ NobodyInTheWay'
    <3>1. /\ mem' = [mem EXCEPT !.active = a] /\ Queue(mem') /\ users' = users
          /\ UNCHANGED <<result, written, file>>
          /\ job' = job \/ StartRenewal(Accounts)
      BY <2>8 DEF SelectAccount, disk
    <3>2. In(mem') = In(mem)
      BY <3>1 DEF In, AnyState
    <3>3. LastIsSaved'
      BY <2>0, <2>7, <3>1, LastIsAsked
    <3>4. NobodyInTheWay'
      BY <1>0, <2>0, <2>7, <3>1, OthersStay
    <3> QED
      BY <2>0, <3>1, <3>2, <3>3, <3>4
  <2>9. ASSUME NEW a \in Accounts, RemoveAccount(a)
        PROVE  In(mem') = users' /\ LastIsSaved' /\ NobodyInTheWay'
    <3>1. /\ Queue(mem') /\ users' = users \ {a} /\ UNCHANGED <<result, written, file, job>>
      BY <2>9 DEF RemoveAccount, disk
    <3>2. PICK b \in ActiveWithout(a) :
            mem' = [tok |-> [mem.tok EXCEPT ![a] = Absent], active |-> b]
      BY <2>9 DEF RemoveAccount
    <3>3. mem'.tok = [mem.tok EXCEPT ![a] = Absent]
      BY <3>2
    <3>4. In(mem') = In(mem) \ {a}
      BY <3>3 DEF In, AnyState
    <3>5. LastIsSaved'
      BY <2>0, <3>1, LastIsAsked
    <3>6. NobodyInTheWay'
      BY <1>0, <2>0, <3>1, OthersStay
    <3> QED
      BY <2>0, <3>1, <3>4, <3>5, <3>6
  <2>10. ASSUME NEW a \in Accounts, RefreshAccount(a)
         PROVE  In(mem') = users' /\ LastIsSaved' /\ NobodyInTheWay'
    <3>1. /\ StartRenewal({a}) /\ UNCHANGED <<mem, users, result, queue, next, written, file>>
      BY <2>10 DEF RefreshAccount, disk, history
    <3>2. LastIsSaved'
      BY <2>0, <2>7, <3>1, LastStays
    <3>3. NobodyInTheWay'
      BY <1>0, <2>0, <2>7, <3>1, OthersStay
    <3> QED
      BY <2>0, <3>1, <3>2, <3>3
  <2>11. ASSUME NEW r \in queue, BeginSave(r)
         PROVE  In(mem') = users' /\ LastIsSaved' /\ NobodyInTheWay'
    <3>1. /\ ~Busy("saver") /\ queue' = queue \ {r} /\ UNCHANGED <<mem, next, file, users, result>>
          /\ \A v \in Workers \ {"saver"} : job'[v] = job[v]
      BY <2>11 DEF BeginSave, disk, history
    <3>2. NobodyInTheWay'
      BY <1>0, <2>0, <3>1, OthersStay
    <3>3. r.seq \in Nat /\ r.seq <= next /\ r.seq # written /\ written <= next
      BY DEF Numbered
    <3>4. \A q \in queue' : q.seq = next' => In(q.st) = In(mem')
      BY <2>0, <3>1 DEF LastIsSaved
    <3>5. CASE Skips(r)
      <4>1. UNCHANGED <<written, job>> /\ r.seq < written
        BY <2>11, <3>5 DEF BeginSave, Skips
      <4>2. r.seq # next
        BY <3>3, <4>1
      <4>3. LastIsSaved'
        BY <2>0, <3>1, <3>4, <4>1, <4>2 DEF LastIsSaved, Busy
      <4> QED
        BY <2>0, <3>1, <3>2, <4>3
    <3>6. CASE ~Skips(r)
      <4>1. /\ written' = r.seq /\ written < r.seq
            /\ job'["saver"].pc = "previous" /\ job'["saver"].st = r.st
        BY <2>11, <3>3, <3>6 DEF BeginSave, Skips, Job
      <4>2. written # next
        BY <3>3, <4>1
      <4>3. \E q \in queue : q.seq = next
        BY <2>0, <4>2 DEF LastIsSaved
      <4>4. (\E q \in queue' : q.seq = next') \/ written' = next'
        BY <3>1, <4>1, <4>3
      <4>5. written' = next' => In(job'["saver"].st) = In(mem')
        BY <2>0, <3>1, <4>1 DEF LastIsSaved
      <4>6. LastIsSaved'
        BY <3>4, <4>1, <4>4, <4>5 DEF LastIsSaved
      <4> QED
        BY <2>0, <3>1, <3>2, <4>6
    <3> QED
      BY <3>5, <3>6
  <2>12. ASSUME NEW w \in Workers, LoadFile(w) \/ LoadTokens(w)
         PROVE  In(mem') = users' /\ LastIsSaved' /\ NobodyInTheWay'
    <3>1. w # "loader"
      BY <1>2, <2>12, LoadEffect DEF AtWork, Busy
    <3>2. UNCHANGED <<mem, users>>
      BY <2>12, <3>1, LoadEffect DEF history
    <3> QED
      BY <1>0, <2>0, <2>12, <3>1, <3>2, LoadHolds
  <2>13. ASSUME NEW w \in Workers, SaveStep(w)
         PROVE  In(mem') = users' /\ LastIsSaved' /\ NobodyInTheWay'
    BY <1>0, <2>0, <2>13, SaveHolds, SaveEffect
  <2> QED
    BY <2>1, <2>2, <2>3, <2>4, <2>5, <2>6, <2>8, <2>9, <2>10, <2>11, <2>12, <2>13
    DEF Next, Step, SaveStep
<1> QED
  BY <1>1, <1>2
-----------------------------------------------------------------------------
\* The invariant holds before the first session.
LEMMA InitIInv == Init => IInv
<1> SUFFICES ASSUME Init PROVE IInv
  OBVIOUS
<1>1. Typed
  <2>1. job \in [Workers -> Job] /\ mem \in AnyState
    BY IdleTyped DEF Init
  <2>2. file \in [whole : BOOLEAN, in : SUBSET Accounts, active : Accounts \cup {NoAccount}]
    BY DEF Init
  <2>3. keyring \in [Accounts -> Int] /\ newest \in [Accounts -> Nat]
    BY DEF Init
  <2> QED
    BY <2>1, <2>2, <2>3 DEF Init, Typed
<1>2. \A w \in Workers : job[w].pc = "idle"
  BY DEF Init, Idle
<1>3. AtWork
  BY <1>2, Names DEF Init, AtWork, Busy
<1>4. ChosenIsActive /\ Numbered
  BY DEF Init, ChosenIsActive, Numbered
<1>5. AccountsHold
  BY DEF Init, AccountsHold
<1> QED
  BY <1>1, <1>3, <1>4, <1>5 DEF IInv

\* Every step keeps the invariant.
LEMMA StepIInv == IInv /\ [Next]_vars => IInv'
<1>1. ASSUME IInv, Next PROVE IInv'
  <2>1. Typed /\ AtWork /\ ChosenIsActive /\ Numbered
    BY <1>1 DEF IInv
  <2>2. Typed' /\ AtWork' /\ ChosenIsActive' /\ Numbered'
    BY <1>1, <2>1, TypedStep, AtWorkStep, ChosenStep, NumberedStep
  <2>3. ASSUME excused' = {}, "accounts" \notin raced' PROVE AccountsHold'
    <3>1. excused = {} /\ "accounts" \notin raced
      BY <1>1, <2>1, <2>3, ExcusedGrows, Unraced
    <3>2. AccountsHold
      BY <1>1, <3>1 DEF IInv
    <3> QED
      BY <1>1, <2>1, <2>2, <2>3, <3>2, AccountsStep
  <2> QED
    BY <2>2, <2>3 DEF IInv
<1>2. ASSUME IInv, UNCHANGED vars PROVE IInv'
  <2>1. Typed'
    BY <1>2 DEF IInv, Typed, vars
  <2>2. AtWork' /\ ChosenIsActive' /\ Numbered'
    BY <1>2 DEF IInv, AtWork, ChosenIsActive, Numbered, Busy, vars
  <2>3. AccountsHold => AccountsHold'
    BY <1>2 DEF AccountsHold, LastIsSaved, NobodyInTheWay, Loaded, Busy, vars
  <2> QED
    BY <1>2, <2>1, <2>2, <2>3 DEF IInv, vars
<1> QED
  BY <1>1, <1>2

\* The invariant: memory, disk and every worker's copy hold what the user has.
THEOREM Invariance == Spec => []IInv
BY InitIInv, StepIInv, PTL DEF Spec

\* The accounts in memory stay those the user signed in and has not removed, through any
\* number of sessions, saves and renewals, unless something failed or the accounts were
\* changed under one who had loaded them.
THEOREM AccountsAreTheUsers == Spec => []UsersAccounts
<1>1. IInv => UsersAccounts
  BY DEF IInv, AccountsHold, UsersAccounts
<1> QED
  BY <1>1, Invariance, PTL

\* The account the user chose stays active until it is removed, whatever renewals that
\* began before bring back.
THEOREM ChosenStaysActive == Spec => []SelectionIsKept
<1>1. IInv => SelectionIsKept
  BY DEF IInv, ChosenIsActive, SelectionIsKept
<1> QED
  BY <1>1, Invariance, PTL
-----------------------------------------------------------------------------
(* The disk: the file, and the keyring beside it.                           *)

Unreads(st) == {a \in Accounts : st.tok[a] = Unread}

\* What is known of each account listed in st, or the keyring has it.
Backed(st) == \A a \in Accounts : st.tok[a] >= 0 \/ (st.tok[a] = Unread /\ keyring[a] # 0)

\* As long as savers have not raced, nobody works beside a saver or one who loads to save.
Alone ==
    /\ renewal # {} \/ Busy("renewal") => ~Busy("skins")
    /\ queue # {} \/ Busy("saver") => renewal = {} /\ ~Busy("renewal") /\ ~Busy("skins")

\* What a worker relies on: an account leaves the keyring after it has left the file.
Relies(w) ==
    /\ job[w].pc = "tokens" => file.whole /\ job[w].prev = file.in
    /\ job[w].pc \in {"refresh"} \cup Saving => Backed(job[w].st)
    /\ job[w].pc = "store" =>
         /\ job[w].todo \subseteq In(job[w].st)
         /\ \A a \in In(job[w].st) \ job[w].todo : keyring[a] # 0
    /\ job[w].pc \in {"write", "delete"} =>
         /\ file.in = In(job[w].st) /\ job[w].todo \cap In(job[w].st) = {}
         /\ \A a \in In(job[w].st) : keyring[a] # 0

\* A renewal and the skins screen save the accounts they found, and delete nothing.
Resaves(w) ==
    /\ job[w].pc \in {"refresh", "previous", "store"} => file.whole /\ file.in = In(job[w].st)
    /\ job[w].pc = "store" => job[w].prev = In(job[w].st)
    /\ job[w].pc = "write" => job[w].todo = {}
    /\ job[w].pc # "delete"

\* A token that memory has not read is not known to the saves still to come either, so
\* none of them deletes it.
Queued ==
    /\ \A r \in queue : r.seq > written => Backed(r.st) /\ Unreads(mem) \subseteq Unreads(r.st)
    /\ \A q, r \in queue : written < q.seq /\ q.seq <= r.seq => Unreads(r.st) \subseteq Unreads(q.st)
    /\ Busy("saver") =>
         /\ Unreads(mem) \subseteq Unreads(job["saver"].st)
         /\ \A r \in queue : r.seq > written => Unreads(r.st) \subseteq Unreads(job["saver"].st)

Keyed ==
    /\ \A a \in Accounts : keyring[a] >= 0
    /\ file.whole => \A a \in file.in : keyring[a] # 0
    /\ Backed(mem)
    /\ \A r \in result : r.ok => Backed(r.st)

AllRely == (\A w \in Workers : Relies(w)) /\ Resaves("renewal") /\ Resaves("skins")

ListedKept == Alone /\ Keyed /\ Queued /\ AllRely

-----------------------------------------------------------------------------
(* The steps of a save, field by field.                                     *)

\* A save ends, or goes on with the tokens it has left to delete.
Ends(w, left) ==
    \/ /\ left = {} /\ job'[w].pc = "idle"
       /\ result' = IF w = "renewal" THEN {[ok |-> TRUE, st |-> job[w].st]} ELSE result
    \/ /\ left # {} /\ job'[w].pc = "delete" /\ job'[w].todo = left
       /\ job'[w].st = job[w].st /\ result' = result

Reads(w) ==
    /\ job[w].pc = "previous" /\ job'[w].pc = "store" /\ job'[w].st = job[w].st
    /\ job'[w].prev = (IF file.whole THEN file.in ELSE {}) /\ job'[w].todo = In(job[w].st)
    /\ UNCHANGED <<disk, newest, result, excused>>

Stores(w, a) ==
    /\ job[w].pc = "store" /\ job'[w].pc = "store" /\ job'[w].st = job[w].st
    /\ job'[w].prev = job[w].prev /\ a \in job[w].todo /\ job'[w].todo = job[w].todo \ {a}
    /\ keyring' = [keyring EXCEPT ![a] = Persisted(job[w].st.tok[a], @)]
    /\ UNCHANGED <<file, newest, result, excused>>

Truncates(w) ==
    /\ job[w].pc = "store" /\ job[w].todo = {} /\ job'[w].pc = "write" /\ job'[w].st = job[w].st
    /\ job'[w].todo = job[w].prev \ In(job[w].st)
    /\ job'[w].mixed = \E v \in Workers \ {w} : job[v].pc = "write"
    /\ file' = [whole |-> FALSE, in |-> In(job[w].st), active |-> job[w].st.active]
    /\ UNCHANGED <<keyring, newest, result, excused>>

Writes(w) ==
    /\ job[w].pc = "write" /\ Ends(w, job[w].todo)
    /\ file'.in = In(job[w].st) /\ file'.active = job[w].st.active /\ file'.whole \in BOOLEAN
    /\ file'.whole \/ job[w].mixed
    /\ UNCHANGED <<keyring, newest, excused>>

Deletes(w, a) ==
    /\ job[w].pc = "delete" /\ a \in job[w].todo /\ Ends(w, job[w].todo \ {a})
    /\ keyring' = [keyring EXCEPT ![a] = 0]
    /\ UNCHANGED <<file, newest, excused>>

Fails(w) ==
    /\ job'[w].pc = "idle" /\ UNCHANGED <<file, newest>> /\ excused' # {}
    /\ "token deleted" \in excused' \/ keyring' = keyring
    /\ result' = (IF w = "renewal" THEN {None} ELSE result)

\* The fields that others read; a save may set a mark in the record of one who writes.
Untouched(v) ==
    /\ job'[v].pc = job[v].pc /\ job'[v].st = job[v].st /\ job'[v].prev = job[v].prev
    /\ job'[v].todo = job[v].todo

\* A save that is over, and what it leaves to the keyring and to the UI.
LEMMA EndsSo ==
    ASSUME Typed, NEW w \in Workers, NEW left \in SUBSET Accounts, Left(w, left)
    PROVE  Ends(w, left) /\ \A v \in Workers \ {w} : job'[v] = job[v]
<1> USE Facts
<1>1. job[w] \in Job
  OBVIOUS
<1>2. CASE left = {}
  BY <1>2 DEF Left, Saved, Ends, Idle
<1>3. CASE left # {}
  <2>1. job' = [job EXCEPT ![w].pc = "delete", ![w].todo = left] /\ UNCHANGED ui
    BY <1>3 DEF Left
  <2>2. /\ job'[w].pc = "delete" /\ job'[w].todo = left /\ job'[w].st = job[w].st
        /\ \A v \in Workers \ {w} : job'[v] = job[v]
    BY <1>1, <2>1 DEF Job
  <2> QED
    BY <1>3, <2>1, <2>2 DEF Ends, ui
<1> QED
  BY <1>2, <1>3

\* A save that fails leaves memory and the disk as they are.
LEMMA FailsSo ==
    ASSUME Typed, NEW w \in Workers, Saved(w, FALSE)
    PROVE  /\ job'[w].pc = "idle" /\ result' = (IF w = "renewal" THEN {None} ELSE result)
           /\ \A v \in Workers \ {w} : job'[v] = job[v]
BY Facts DEF Saved, Idle

\* What a save does to the disk in one step.
LEMMA SaverMoves ==
    ASSUME Typed, NEW w \in Workers, SaveStep(w)
    PROVE  /\ \A v \in Workers \ {w} : Untouched(v)
           /\ \A v \in Workers \ {w} : job[v].pc = "write" \/ job'[v] = job[v]
           /\ \/ Reads(w) \/ Truncates(w) \/ Writes(w) \/ Fails(w)
              \/ \E a \in Accounts : Stores(w, a) \/ Deletes(w, a)
<1> USE Facts
<1>0. job[w] \in Job /\ job[w].todo \in SUBSET Accounts
  BY DEF Job
<1>1. CASE ReadPrevious(w)
  <2>1. job' = [job EXCEPT ![w].pc = "store",
                          ![w].prev = IF file.whole THEN file.in ELSE {},
                          ![w].todo = In(job[w].st)]
    BY <1>1 DEF ReadPrevious
  <2>2. /\ job'[w].pc = "store" /\ job'[w].st = job[w].st
        /\ job'[w].prev = (IF file.whole THEN file.in ELSE {}) /\ job'[w].todo = In(job[w].st)
        /\ \A v \in Workers \ {w} : job'[v] = job[v]
    BY <1>0, <2>1 DEF Job
  <2> QED
    BY <1>1, <2>2 DEF ReadPrevious, Reads, Untouched, ui
<1>2. CASE StoreToken(w)
  <2>1. PICK a \in job[w].todo :
         \/ /\ keyring' = [keyring EXCEPT ![a] = Persisted(job[w].st.tok[a], @)]
            /\ job' = [job EXCEPT ![w].todo = @ \ {a}]
            /\ UNCHANGED <<ui, file, newest, history, excused>>
         \/ /\ Saved(w, FALSE)
            /\ excused' = excused \cup {"not saved", "token deleted"}
            /\ UNCHANGED <<file, newest, history>>
    BY <1>2 DEF StoreToken
  <2>2. CASE /\ Saved(w, FALSE)
             /\ excused' = excused \cup {"not saved", "token deleted"}
             /\ UNCHANGED <<file, newest, history>>
    BY <2>2, FailsSo DEF Fails, Untouched
  <2>3. CASE /\ keyring' = [keyring EXCEPT ![a] = Persisted(job[w].st.tok[a], @)]
             /\ job' = [job EXCEPT ![w].todo = @ \ {a}]
             /\ UNCHANGED <<ui, file, newest, history, excused>>
    <3>1. /\ job'[w].pc = job[w].pc /\ job'[w].st = job[w].st /\ job'[w].prev = job[w].prev
          /\ job'[w].todo = job[w].todo \ {a}
          /\ \A v \in Workers \ {w} : job'[v] = job[v]
      BY <1>0, <2>3 DEF Job
    <3>2. Stores(w, a) /\ a \in Accounts
      BY <1>0, <1>2, <2>3, <3>1 DEF StoreToken, Stores, ui
    <3> QED
      BY <3>1, <3>2 DEF Untouched
  <2> QED
    BY <2>1, <2>2, <2>3
<1>3. CASE Truncate(w)
  <2> DEFINE others == {v \in Workers \ {w} : job[v].pc = "write"}
  <2>1. job' = [v \in Workers |->
                     IF v = w THEN [job[w] EXCEPT !.pc = "write", !.mixed = others # {},
                                                  !.prev = {}, !.todo = job[w].prev \ In(job[w].st)]
                     ELSE IF v \in others THEN [job[v] EXCEPT !.mixed = TRUE]
                     ELSE job[v]]
    BY <1>3 DEF Truncate
  <2>2. ASSUME NEW v \in Workers \ {w} PROVE Untouched(v) /\ (job[v].pc = "write" \/ job'[v] = job[v])
    <3>1. job[v] \in Job
      OBVIOUS
    <3>2. job'[v] = IF v \in others THEN [job[v] EXCEPT !.mixed = TRUE] ELSE job[v]
      BY <2>1
    <3> QED
      BY <3>1, <3>2 DEF Untouched, Job
  <2>3. job'[w] = [job[w] EXCEPT !.pc = "write", !.mixed = others # {},
                                 !.prev = {}, !.todo = job[w].prev \ In(job[w].st)]
    BY <2>1
  <2>4. /\ job'[w].pc = "write" /\ job'[w].st = job[w].st
        /\ job'[w].todo = job[w].prev \ In(job[w].st)
        /\ job'[w].mixed = (others # {})
    BY <1>0, <2>3 DEF Job
  <2>5. Truncates(w)
    BY <1>3, <2>4 DEF Truncate, Truncates, ui
  <2> QED
    BY <2>2, <2>5
<1>4. CASE WriteFile(w)
  <2>1. CASE SaveFails(w) /\ UNCHANGED disk
    BY <2>1, FailsSo DEF SaveFails, Fails, Untouched, disk
  <2>2. CASE /\ \E whole \in BOOLEAN :
                  /\ whole \/ job[w].mixed
                  /\ file' = [whole |-> whole, in |-> In(job[w].st), active |-> job[w].st.active]
             /\ Left(w, job[w].todo)
             /\ UNCHANGED <<keyring, newest, history, excused>>
    <3>1. Ends(w, job[w].todo) /\ \A v \in Workers \ {w} : job'[v] = job[v]
      BY <1>0, <2>2, EndsSo
    <3>2. Writes(w)
      BY <1>4, <2>2, <3>1 DEF WriteFile, Writes
    <3> QED
      BY <3>1, <3>2 DEF Untouched
  <2> QED
    BY <1>4, <2>1, <2>2 DEF WriteFile
<1>5. CASE DeleteToken(w)
  <2>1. PICK a \in job[w].todo :
         \/ /\ keyring' = [keyring EXCEPT ![a] = 0]
            /\ Left(w, job[w].todo \ {a})
            /\ UNCHANGED <<file, newest, history, excused>>
         \/ SaveFails(w) /\ UNCHANGED disk
    BY <1>5 DEF DeleteToken
  <2>2. CASE SaveFails(w) /\ UNCHANGED disk
    BY <2>2, FailsSo DEF SaveFails, Fails, Untouched, disk
  <2>3. CASE /\ keyring' = [keyring EXCEPT ![a] = 0]
             /\ Left(w, job[w].todo \ {a})
             /\ UNCHANGED <<file, newest, history, excused>>
    <3>1. Ends(w, job[w].todo \ {a}) /\ \A v \in Workers \ {w} : job'[v] = job[v]
      BY <1>0, <2>3, EndsSo
    <3>2. Deletes(w, a) /\ a \in Accounts
      BY <1>0, <1>5, <2>3, <3>1 DEF DeleteToken, Deletes
    <3> QED
      BY <3>1, <3>2 DEF Untouched
  <2> QED
    BY <2>1, <2>2, <2>3
<1> QED
  BY <1>1, <1>2, <1>3, <1>4, <1>5 DEF SaveStep

(* The steps of a load, field by field.                                     *)

Opens(w) ==
    /\ job[w].pc = "file" /\ file.whole /\ job'[w].pc = "tokens" /\ job'[w].prev = file.in
    /\ job'[w].st.active = file.active
    /\ UNCHANGED <<session, mem, renewal, result, excused>>

\* What is found is st: of each account in the file its token, or that it could not be read.
Finds(w, st) ==
    /\ job[w].pc = "tokens" /\ st \in AnyState /\ st.active = job[w].st.active
    /\ \A a \in job[w].prev :
         st.tok[a] = Unread \/ st.tok[a] = (IF keyring[a] = 0 THEN Missing ELSE keyring[a])
    /\ \A a \in Accounts \ job[w].prev : st.tok[a] = Absent
    /\ UNCHANGED <<result, excused>>
    /\ IF w = "loader"
       THEN /\ mem' = st /\ session' = "on" /\ job'["loader"].pc = "idle"
            /\ job'["renewal"].pc \in {"idle", "file"}
       ELSE /\ job'[w].st = st /\ job'[w].pc = (IF w = "renewal" THEN "refresh" ELSE "previous")
            /\ UNCHANGED <<session, mem, renewal>>

Misses(w) ==
    /\ job'[w].pc = "idle" /\ UNCHANGED <<mem, renewal>>
    /\ IF w = "loader" THEN excused' # {} ELSE UNCHANGED <<session, excused>>
    /\ result' = (IF w = "renewal" THEN {None} ELSE result)

\* A load that fails.
LEMMA MissesSo ==
    ASSUME Typed, NEW w \in {"loader", "renewal", "skins"}, LoadFails(w)
    PROVE  /\ Misses(w) /\ \A v \in Workers \ {w} : job'[v] = job[v]
           /\ UNCHANGED <<flow, queue, next, written, disk, newest>>
<1> USE Facts, Names
<1>1. job'[w].pc = "idle" /\ \A v \in Workers \ {w} : job'[v] = job[v]
  BY DEF LoadFails, Idle
<1>2. CASE w = "loader"
  BY <1>1, <1>2 DEF LoadFails, Misses
<1>3. CASE w = "renewal"
  BY <1>1, <1>3 DEF LoadFails, Misses
<1>4. CASE w = "skins"
  BY <1>1, <1>4 DEF LoadFails, Misses
<1> QED
  BY <1>2, <1>3, <1>4, <1>1 DEF LoadFails

\* What a load does in one step: the disk stays.
LEMMA LoaderMoves ==
    ASSUME Typed, AtWork, NEW w \in Workers, LoadFile(w) \/ LoadTokens(w)
    PROVE  /\ w \in {"loader", "renewal", "skins"} /\ job[w].pc \in {"file", "tokens"}
           /\ UNCHANGED <<flow, queue, next, written, disk, newest>>
           /\ \A v \in Workers \ {w} : job'[v] = job[v] \/ (v = "renewal" /\ job'[v].pc \in {"idle", "file"})
           /\ w # "loader" => \A v \in Workers \ {w} : job'[v] = job[v]
           /\ Opens(w) \/ Misses(w) \/ \E st \in AnyState : Finds(w, st)
<1> USE Facts, Names
<1>0. w \in {"loader", "renewal", "skins"} /\ job[w].pc \in {"file", "tokens"} /\ job[w] \in Job
  BY DEF AtWork, LoadFile, LoadTokens, Workers, Saving
<1>1. CASE LoadFails(w)
  BY <1>0, <1>1, MissesSo
<1>2. CASE LoadFile(w) /\ ~LoadFails(w)
  <2>1. /\ file.whole /\ job[w].pc = "file"
        /\ job' = [job EXCEPT ![w].pc = "tokens", ![w].prev = file.in,
                              ![w].st.active = file.active]
        /\ UNCHANGED <<ui, disk, newest, history, excused>>
    BY <1>2 DEF LoadFile
  <2>2. /\ job'[w].pc = "tokens" /\ job'[w].prev = file.in /\ job'[w].st.active = file.active
        /\ \A v \in Workers \ {w} : job'[v] = job[v]
    BY <1>0, <2>1 DEF Job, AnyState
  <2> QED
    BY <1>0, <2>1, <2>2 DEF Opens, ui
<1>3. CASE LoadTokens(w) /\ ~LoadFails(w)
  <2>1. PICK unread \in {{}, job[w].prev} :
            LET st == [job[w].st EXCEPT !.tok =
                         [a \in Accounts |-> IF a \in job[w].prev THEN Token(a, unread)
                                             ELSE Absent]]
            IN  /\ IF w = "loader"
                   THEN /\ session' = "on" /\ mem' = st
                        /\ \E start \in BOOLEAN :
                             LET go == start /\ In(st) # {}
                             IN  /\ renewal' = IF go THEN Accounts ELSE {}
                                 /\ job' = [job EXCEPT ![w] = Idle,
                                             !["renewal"].pc = IF go THEN "file" ELSE "idle"]
                   ELSE /\ job' = [job EXCEPT ![w].st = st,
                             ![w].pc = IF w = "renewal" THEN "refresh" ELSE "previous"]
                        /\ UNCHANGED <<session, mem, renewal>>
                /\ UNCHANGED <<flow, result, queue, next, written, disk, newest,
                               history, excused>>
    BY <1>3 DEF LoadTokens
  <2> DEFINE tok == [a \in Accounts |-> IF a \in job[w].prev THEN Token(a, unread) ELSE Absent]
             new == [job[w].st EXCEPT !.tok = tok]
  <2>2. tok \in [Accounts -> Int]
    BY DEF Token, Unread, Missing, Absent
  <2>3. /\ \A a \in job[w].prev :
             tok[a] = Unread \/ tok[a] = (IF keyring[a] = 0 THEN Missing ELSE keyring[a])
        /\ \A a \in Accounts \ job[w].prev : tok[a] = Absent
    <3>1. \A a \in job[w].prev : a \in Accounts
      BY <1>0 DEF Job
    <3> QED
      BY <3>1 DEF Token
  <2> HIDE DEF tok
  <2>4. new \in AnyState /\ new.tok = tok /\ new.active = job[w].st.active
    BY <1>0, <2>2 DEF Job, AnyState
  <2>5. /\ UNCHANGED <<flow, result, queue, next, written, disk, newest, excused>>
        /\ job[w].pc = "tokens"
    BY <1>3, <2>1 DEF LoadTokens
  <2>6. PICK st : st = new
    OBVIOUS
  <2>7. CASE w = "loader"
    <3>1. PICK start \in BOOLEAN :
            job' = [job EXCEPT ![w] = Idle,
                               !["renewal"].pc = IF start /\ In(new) # {} THEN "file" ELSE "idle"]
      BY <2>1, <2>7 DEF tok
    <3>2. mem' = new /\ session' = "on"
      BY <2>1, <2>7 DEF tok
    <3> HIDE DEF new
    <3>3. job["renewal"] \in Job
      OBVIOUS
    <3>4. /\ job'["loader"].pc = "idle" /\ job'["renewal"].pc \in {"idle", "file"}
          /\ \A v \in Workers \ {"loader", "renewal"} : job'[v] = job[v]
      BY <2>7, <3>1, <3>3 DEF Idle, Job
    <3>5. Finds(w, st)
      BY <2>3, <2>4, <2>5, <2>6, <2>7, <3>2, <3>4 DEF Finds
    <3> QED
      BY <1>0, <2>4, <2>5, <2>6, <2>7, <3>4, <3>5
  <2>8. CASE w # "loader"
    <3>1. job' = [job EXCEPT ![w].st = new, ![w].pc = IF w = "renewal" THEN "refresh" ELSE "previous"]
          /\ UNCHANGED <<session, mem, renewal>>
      BY <2>1, <2>8 DEF tok
    <3> HIDE DEF new
    <3>2. /\ job'[w].st = new /\ job'[w].pc = (IF w = "renewal" THEN "refresh" ELSE "previous")
          /\ \A v \in Workers \ {w} : job'[v] = job[v]
      BY <1>0, <3>1 DEF Job
    <3>3. Finds(w, st)
      BY <2>3, <2>4, <2>5, <2>6, <2>8, <3>1, <3>2 DEF Finds
    <3> QED
      BY <1>0, <2>4, <2>5, <2>6, <2>8, <3>2, <3>3
  <2> QED
    BY <2>7, <2>8
<1> QED
  BY <1>1, <1>2, <1>3

\* Where the savers have not raced nobody works beside one.
LEMMA NobodyBeside ==
    ASSUME Next, "saves" \notin raced'
    PROVE  "saves" \notin raced /\ Alone'
<1> DEFINE loaders == {w \in {"renewal", "skins"} : Busy(w)'} \cup (IF renewal' = {} THEN {} ELSE {"renewal"})
           saving == queue' # {} \/ Busy("saver")'
<1>1. "saves" \notin raced /\ ~(Cardinality(loaders) + (IF saving THEN 1 ELSE 0) > 1)
  BY DEF Next, Races
<1>2. IsFiniteSet(loaders) /\ Cardinality({}) = 0
  <2>1. loaders \subseteq {"renewal", "skins"}
    OBVIOUS
  <2>2. IsFiniteSet({"renewal", "skins"})
    <3>1. IsFiniteSet({"renewal"})
      BY FS_Singleton
    <3>2. IsFiniteSet({"renewal"} \cup {"skins"})
      BY <3>1, FS_AddElement
    <3>3. {"renewal"} \cup {"skins"} = {"renewal", "skins"}
      OBVIOUS
    <3> QED
      BY <3>2, <3>3
  <2> QED
    BY <2>1, <2>2, FS_Subset, FS_EmptySet
<1>3. ASSUME NEW v \in loaders PROVE Cardinality(loaders) >= 1
  BY <1>2, <1>3, FS_EmptySet, FS_CardinalityType
<1>4. ASSUME "renewal" \in loaders, "skins" \in loaders PROVE Cardinality(loaders) >= 2
  <2>1. {"renewal"} \subseteq loaders \ {"skins"}
    BY <1>4
  <2>2. IsFiniteSet(loaders \ {"skins"}) /\ Cardinality(loaders \ {"skins"}) = Cardinality(loaders) - 1
    BY <1>2, <1>4, FS_RemoveElement
  <2>3. Cardinality({"renewal"}) <= Cardinality(loaders \ {"skins"})
    BY <2>1, <2>2, FS_Subset
  <2>4. Cardinality({"renewal"}) = 1
    BY FS_Singleton
  <2> QED
    BY <1>2, <2>2, <2>3, <2>4, FS_CardinalityType
<1>5. Cardinality(loaders) \in Nat
  BY <1>2, FS_CardinalityType
<1>6. /\ renewal' # {} \/ Busy("renewal")' => "renewal" \in loaders
      /\ Busy("skins")' => "skins" \in loaders
  OBVIOUS
<1> HIDE DEF loaders
<1>7. ~("renewal" \in loaders /\ "skins" \in loaders)
  BY <1>1, <1>4, <1>5
<1>8. saving => loaders = {}
  BY <1>1, <1>3, <1>5
<1> QED
  BY <1>1, <1>6, <1>7, <1>8 DEF Alone

-----------------------------------------------------------------------------
(* An account in the file has a token in the keyring.                       *)

\* What could not be read is not absent, and is not read as a token.
LEMMA UnreadNumber == Unread \in Int /\ Unread # 0 /\ Unread < 0
BY DEF Unread

\* A token that could not be read is one of the accounts.
LEMMA UnreadsIn == ASSUME NEW st PROVE Unreads(st) \subseteq In(st)
BY UnreadNumber DEF Unreads, In, Absent

\* Storing leaves a token in the keyring.
LEMMA PersistedSo ==
    ASSUME NEW t \in Int, NEW k \in Int, k >= 0, t # 0, t >= 0 \/ (t = Unread /\ k # 0)
    PROVE  Persisted(t, k) \in Int /\ Persisted(t, k) > 0
<1>1. CASE t >= 0
  BY <1>1 DEF Persisted
<1>2. CASE t = Unread
  BY <1>2, UnreadNumber DEF Persisted
<1> QED
  BY <1>1, <1>2

\* The keyring loses no entry.
Grows == \A a \in Accounts : keyring'[a] >= 0 /\ (keyring[a] # 0 => keyring'[a] # 0)

\* The keyring as it was has grown, if only by nothing.
LEMMA KeyringStays ==
    ASSUME Keyed, UNCHANGED keyring
    PROVE  Grows
BY DEF Keyed, Grows

\* Storing a token takes no other away.
LEMMA StoringGrows ==
    ASSUME Typed, Keyed, NEW a \in Accounts, NEW x \in Int, x > 0, keyring' = [keyring EXCEPT ![a] = x]
    PROVE  Grows /\ keyring'[a] # 0
BY Facts DEF Keyed, Grows

\* Deleting a token takes no other account's away.
LEMMA DeletingShrinks ==
    ASSUME Typed, Keyed, NEW a \in Accounts, keyring' = [keyring EXCEPT ![a] = 0]
    PROVE  /\ \A b \in Accounts : keyring'[b] >= 0
           /\ \A b \in Accounts \ {a} : keyring'[b] = keyring[b]
BY Facts DEF Keyed

\* The result of a save that succeeds.
LEMMA OneResult == ASSUME NEW s PROVE \A r \in {[ok |-> TRUE, st |-> s]} : r.st = s
OBVIOUS

\* What a worker relies on is still there.
LEMMA ReliesKept ==
    ASSUME Typed, NEW w \in Workers, Relies(w), file' = file, Grows,
           Untouched(w) \/ job'[w].pc \in {"idle", "file"}
    PROVE  Relies(w)'
<1>1. CASE job'[w].pc \in {"idle", "file"}
  BY <1>1 DEF Relies, Saving
<1>2. CASE Untouched(w)
  <2>1. PICK j : j = job[w]
    OBVIOUS
  <2>2. job'[w].pc = j.pc /\ job'[w].st = j.st /\ job'[w].prev = j.prev /\ job'[w].todo = j.todo
    BY <1>2, <2>1 DEF Untouched
  <2>3. \A a \in In(j.st) : a \in Accounts /\ (keyring[a] # 0 => keyring'[a] # 0)
    BY DEF In, Grows
  <2>4. Backed(job[w].st) => Backed(job[w].st)'
    BY <2>1, <2>2 DEF Backed, Grows
  <2>5. j.pc = "tokens" => file'.whole /\ j.prev = file'.in
    BY <2>1 DEF Relies
  <2>6. j.pc \in {"refresh"} \cup Saving => Backed(job[w].st)'
    BY <2>1, <2>4 DEF Relies
  <2>7. j.pc = "store" => j.todo \subseteq In(j.st) /\ \A a \in In(j.st) \ j.todo : keyring'[a] # 0
    BY <2>1, <2>3 DEF Relies
  <2>8. j.pc \in {"write", "delete"} => /\ file'.in = In(j.st) /\ j.todo \cap In(j.st) = {}
                                       /\ \A a \in In(j.st) : keyring'[a] # 0
    BY <2>1, <2>3 DEF Relies
  <2> QED
    BY <2>2, <2>5, <2>6, <2>7, <2>8 DEF Relies
<1> QED
  BY <1>1, <1>2

\* A renewal or the skins screen saves what it loaded.
LEMMA ResavesKept ==
    ASSUME NEW w \in Workers, Resaves(w), file' = file,
           Untouched(w) \/ job'[w].pc \in {"idle", "file"}
    PROVE  Resaves(w)'
BY DEF Resaves, Untouched

\* The workers a step leaves alone keep what they rely on.
LEMMA AllRelyKept ==
    ASSUME Typed, AllRely, file' = file, Grows,
           \A w \in Workers : Untouched(w) \/ job'[w].pc \in {"idle", "file"}
    PROVE  AllRely'
BY Names, ReliesKept, ResavesKept DEF AllRely

\* The queue, while no save is asked for or begun.
LEMMA QueuedKept ==
    ASSUME Typed, Queued, Grows, UNCHANGED <<queue, written>>, Unreads(mem') \subseteq Unreads(mem),
           job'["saver"].pc = "idle" \/ (Busy("saver") /\ job'["saver"].st = job["saver"].st)
    PROVE  Queued'
<1>1. ASSUME NEW r \in queue, r.seq > written PROVE Backed(r.st)'
  BY <1>1 DEF Queued, Backed, Grows
<1> QED
  BY <1>1 DEF Queued, Busy

\* A save is asked for, in which no token is newly unread.
LEMMA QueuedAsk ==
    ASSUME Typed, Numbered, Queued, Keyed, Queue(mem'), UNCHANGED <<written, keyring>>,
           Unreads(mem') \subseteq Unreads(mem), Backed(mem)', job'["saver"] = job["saver"]
    PROVE  Queued'
<1> USE Facts
<1> DEFINE new == [seq |-> next + 1, st |-> mem']
<1>1. queue' = queue \cup {new} /\ new.seq = next + 1 /\ new.st = mem'
  BY DEF Queue
<1> HIDE DEF new
<1>2. \A r \in queue : r.seq \in Nat /\ r.seq <= next /\ r.seq < new.seq
  BY <1>1 DEF Numbered
<1>3. ASSUME NEW r \in queue', r.seq > written'
      PROVE  Backed(r.st)' /\ Unreads(mem') \subseteq Unreads(r.st)
  <2>1. CASE r = new
    BY <1>1, <2>1 DEF Backed
  <2>2. CASE r \in queue
    BY <1>3, <2>2 DEF Queued, Backed
  <2> QED
    BY <1>1, <2>1, <2>2
<1>4. ASSUME NEW q \in queue', NEW r \in queue', written' < q.seq, q.seq <= r.seq
      PROVE  Unreads(r.st) \subseteq Unreads(q.st)
  <2>1. CASE r = new /\ q = new
    BY <2>1
  <2>2. CASE r = new /\ q \in queue
    BY <1>1, <1>4, <2>2 DEF Queued
  <2>3. CASE r \in queue /\ q = new
    BY <1>1, <1>2, <1>4, <2>3
  <2>4. CASE r \in queue /\ q \in queue
    BY <1>4, <2>4 DEF Queued
  <2> QED
    BY <1>1, <2>1, <2>2, <2>3, <2>4
<1>5. ASSUME Busy("saver")'
      PROVE  /\ Unreads(mem') \subseteq Unreads(job'["saver"].st)
             /\ \A r \in queue' : r.seq > written' => Unreads(r.st) \subseteq Unreads(job'["saver"].st)
  BY <1>1, <1>5 DEF Queued, Busy
<1> QED
  BY <1>3, <1>4, <1>5 DEF Queued, Unreads

\* What memory and results rely on in the keyring is still there.
LEMMA KeyedKept ==
    ASSUME Typed, Keyed, file' = file, Grows, Backed(mem)' \/ mem' = mem,
           \A r \in result' : r.ok => r \in result \/ Backed(r.st)'
    PROVE  Keyed'
<1> USE Facts
<1>1. \A a \in Accounts : keyring'[a] >= 0
  BY DEF Grows
<1>2. file'.whole => \A a \in file'.in : keyring'[a] # 0
  BY DEF Keyed, Grows
<1>3. Backed(mem)'
  BY DEF Keyed, Backed, Grows
<1>4. \A r \in result' : r.ok => Backed(r.st)'
  BY DEF Keyed, Backed, Grows
<1> QED
  BY <1>1, <1>2, <1>3, <1>4 DEF Keyed

\* At most one worker is busy.
LEMMA OneBusy ==
    ASSUME AtWork, Alone, NEW w \in Workers, NEW v \in Workers \ {w}, Busy(w)
    PROVE  ~Busy(v)
BY DEF AtWork, Alone, Workers

\* Loading.
LEMMA LoadListed ==
    ASSUME Typed, AtWork, AtWork', Alone', NEW w \in Workers, LoadFile(w) \/ LoadTokens(w), ListedKept
    PROVE  ListedKept'
<1> USE Facts, Names
<1>0. Alone /\ Keyed /\ Queued /\ AllRely
  BY DEF ListedKept
<1>1. /\ w \in {"loader", "renewal", "skins"} /\ job[w].pc \in {"file", "tokens"}
      /\ UNCHANGED <<flow, queue, next, written, disk, newest>>
      /\ \A v \in Workers \ {w} : job'[v] = job[v] \/ (v = "renewal" /\ job'[v].pc \in {"idle", "file"})
      /\ w # "loader" => \A v \in Workers \ {w} : job'[v] = job[v]
      /\ Opens(w) \/ Misses(w) \/ \E st \in AnyState : Finds(w, st)
  BY LoaderMoves
<1>2. file' = file /\ Grows
  BY <1>0, <1>1, KeyringStays DEF disk
<1>3. \A v \in Workers \ {w} : Untouched(v) \/ job'[v].pc \in {"idle", "file"}
  BY <1>1 DEF Untouched
<1>4. \A v \in Workers \ {w} : Relies(v)'
  BY <1>0, <1>2, <1>3, ReliesKept DEF AllRely
<1>5. \A v \in {"renewal", "skins"} \ {w} : Resaves(v)'
  BY <1>0, <1>2, <1>3, ResavesKept DEF AllRely
<1>6. job'["saver"] = job["saver"]
  BY <1>1
<1>7. Busy("saver") => w # "loader"
  BY <1>0, <1>1, OneBusy DEF Busy
<1>8. ASSUME Relies(w)', w # "loader" => Resaves(w)'
      PROVE  AllRely'
  BY <1>1, <1>4, <1>5, <1>8 DEF AllRely
<1>9. CASE Misses(w)
  <2>1. Keyed'
    BY <1>0, <1>2, <1>9, KeyedKept DEF Misses, None
  <2>2. Queued'
    BY <1>0, <1>1, <1>2, <1>6, <1>9, QueuedKept DEF Misses, Busy
  <2>3. Relies(w)' /\ Resaves(w)'
    BY <1>9 DEF Misses, Relies, Resaves, Saving
  <2> QED
    BY <1>8, <2>1, <2>2, <2>3 DEF ListedKept
<1>10. CASE Opens(w)
  <2>1. Keyed'
    BY <1>0, <1>2, <1>10, KeyedKept DEF Opens
  <2>2. Queued'
    BY <1>0, <1>1, <1>2, <1>6, <1>10, QueuedKept DEF Opens, Busy
  <2>3. Relies(w)' /\ Resaves(w)'
    BY <1>2, <1>10 DEF Opens, Relies, Resaves, Saving
  <2> QED
    BY <1>8, <2>1, <2>2, <2>3 DEF ListedKept
<1>11. ASSUME NEW st \in AnyState, Finds(w, st) PROVE ListedKept'
  <2>1. job[w].prev = file.in /\ file.whole /\ job[w].prev \subseteq Accounts
    BY <1>0, <1>11 DEF AllRely, Relies, Finds
  <2>2. \A a \in file.in : st.tok[a] = Unread \/ (st.tok[a] = keyring[a] /\ keyring[a] > 0)
    BY <1>0, <1>11, <2>1 DEF Finds, Keyed
  <2>3. \A a \in Accounts \ file.in : st.tok[a] = 0
    BY <1>11, <2>1 DEF Finds, Absent
  <2>4. In(st) = file.in
    BY <2>1, <2>2, <2>3 DEF In, Absent, Unread
  <2>5. \A a \in Accounts : st.tok[a] >= 0 \/ (st.tok[a] = Unread /\ keyring[a] # 0)
    BY <1>0, <2>1, <2>2, <2>3 DEF Keyed
  <2>6. CASE w = "loader"
    <3>1. mem' = st /\ job'["loader"].pc = "idle" /\ result' = result
      BY <1>11, <2>6 DEF Finds
    <3>2. Backed(mem)'
      BY <1>1, <2>5, <3>1 DEF Backed, disk
    <3>3. Keyed'
      BY <1>0, <1>2, <3>1, <3>2, KeyedKept
    <3>4. ~Busy("saver") /\ queue = {}
      BY <1>1, <2>6, <1>7 DEF AtWork, Busy
    <3>5. Queued'
      BY <1>1, <1>6, <3>4 DEF Queued, Busy
    <3>6. Relies(w)'
      BY <2>6, <3>1 DEF Relies, Saving
    <3> QED
      BY <1>8, <2>6, <3>3, <3>5, <3>6 DEF ListedKept
  <2>7. CASE w # "loader"
    <3>1. /\ job'[w].st = st /\ job'[w].pc = (IF w = "renewal" THEN "refresh" ELSE "previous")
          /\ UNCHANGED <<session, mem, renewal, result>>
      BY <1>11, <2>7 DEF Finds
    <3>2. Keyed'
      BY <1>0, <1>2, <3>1, KeyedKept
    <3>3. Queued'
      BY <1>0, <1>1, <1>2, <1>6, <3>1, QueuedKept DEF Busy
    <3>4. Backed(job[w].st)'
      BY <1>1, <2>5, <3>1 DEF Backed, disk
    <3>5. Relies(w)'
      BY <3>1, <3>4 DEF Relies, Saving
    <3>6. Resaves(w)'
      BY <1>2, <2>1, <2>4, <3>1 DEF Resaves
    <3> QED
      BY <1>8, <3>2, <3>3, <3>5, <3>6 DEF ListedKept
  <2> QED
    BY <2>6, <2>7
<1> QED
  BY <1>1, <1>9, <1>10, <1>11

\* Saving.
LEMMA SaveListed ==
    ASSUME Typed, AtWork, AtWork', Alone', NEW w \in Workers, SaveStep(w), ListedKept,
           "token deleted" \notin excused'
    PROVE  ListedKept'
<1> USE Facts, Names
<1>0. Alone /\ Keyed /\ Queued /\ AllRely /\ Relies(w) /\ (w \in {"renewal", "skins"} => Resaves(w))
  BY DEF ListedKept, AllRely
<1>1. /\ \A v \in Workers \ {w} : Untouched(v)
      /\ \/ Reads(w) \/ Truncates(w) \/ Writes(w) \/ Fails(w)
         \/ \E a \in Accounts : Stores(w, a) \/ Deletes(w, a)
  BY SaverMoves
<1>2. /\ job[w].pc \in Saving /\ UNCHANGED <<session, mem, flow, renewal, queue, next, written>>
      /\ w # "loader"
  BY SaveEffect DEF AtWork, Saving
<1> DEFINE st == job[w].st
<1>3. /\ Busy(w) /\ Backed(st) /\ job[w] \in Job /\ In(st) \subseteq Accounts
      /\ \A v \in Workers \ {w} : job[v].pc = "idle" /\ job'[v].pc = "idle"
  <2>1. Busy(w)
    BY <1>2 DEF Busy, Saving
  <2>2. \A v \in Workers \ {w} : job[v].pc = "idle"
    BY <1>0, <2>1, OneBusy DEF Busy
  <2> QED
    BY <1>0, <1>1, <1>2, <2>1, <2>2 DEF Relies, Untouched, In
<1>4. /\ \A v \in Workers \ {w} : Relies(v)'
      /\ \A v \in {"renewal", "skins"} \ {w} : Resaves(v)'
  BY <1>3 DEF Relies, Resaves, Saving
<1>5. job'["saver"].pc = "idle" \/ job'["saver"].st = job["saver"].st \/ w = "saver"
  BY <1>3
<1>6. w = "saver" => result = {} /\ Unreads(mem) \subseteq In(st)
  <2>1. w = "saver" => renewal = {} /\ Unreads(mem) \subseteq Unreads(st)
    BY <1>0, <1>3 DEF Alone, Queued
  <2>2. Unreads(st) \subseteq In(st)
    BY UnreadsIn
  <2> QED
    BY <2>1, <2>2 DEF AtWork
<1>7. w # "saver" => queue = {} /\ ~Busy("saver")
  BY <1>2, <1>3, <1>0 DEF Alone, Workers
<1>8. ASSUME file' = file, Grows, \A r \in result' : r.ok => r \in result, Relies(w)',
             w \in {"renewal", "skins"} => Resaves(w)',
             job'[w].pc = "idle" \/ job'[w].st = st
      PROVE  ListedKept'
  <2>1. Keyed'
    BY <1>0, <1>2, <1>8, KeyedKept
  <2>2. job'["saver"].pc = "idle" \/ (Busy("saver") /\ job'["saver"].st = job["saver"].st)
    BY <1>3, <1>8
  <2>3. Queued'
    BY <1>0, <1>2, <1>8, <2>2, QueuedKept
  <2>4. AllRely'
    BY <1>4, <1>8 DEF AllRely
  <2> QED
    BY <2>1, <2>3, <2>4 DEF ListedKept
<1>9. CASE Fails(w)
  <2>1. file' = file /\ keyring' = keyring /\ job'[w].pc = "idle" /\ \A r \in result' : r.ok => r \in result
    <3>1. None.ok = FALSE
      BY DEF None
    <3> QED
      BY <1>9, <3>1 DEF Fails
  <2>2. Grows
    BY <1>0, <2>1, KeyringStays
  <2>3. Relies(w)' /\ Resaves(w)'
    BY <2>1 DEF Relies, Resaves, Saving
  <2> QED
    BY <1>8, <2>1, <2>2, <2>3
<1>10. CASE Reads(w)
  <2>1. /\ job'[w].pc = "store" /\ job'[w].st = st /\ file' = file /\ keyring' = keyring /\ result' = result
        /\ job'[w].prev = (IF file.whole THEN file.in ELSE {}) /\ job'[w].todo = In(st)
        /\ job[w].pc = "previous"
    BY <1>10 DEF Reads, disk
  <2>2. Grows
    BY <1>0, <2>1, KeyringStays
  <2>3. Backed(job[w].st)'
    BY <1>3, <2>1 DEF Backed
  <2>4. Relies(w)'
    BY <2>1, <2>3 DEF Relies, Saving
  <2>5. w \in {"renewal", "skins"} => Resaves(w)'
    BY <1>0, <2>1 DEF Resaves
  <2> QED
    BY <1>8, <2>1, <2>2, <2>4, <2>5
<1>11. ASSUME NEW a \in Accounts, Stores(w, a) PROVE ListedKept'
  <2>1. /\ job[w].pc = "store" /\ job'[w].pc = "store" /\ job'[w].st = st /\ file' = file /\ result' = result
        /\ job'[w].prev = job[w].prev /\ a \in job[w].todo /\ job'[w].todo = job[w].todo \ {a}
        /\ keyring' = [keyring EXCEPT ![a] = Persisted(st.tok[a], @)]
    BY <1>11 DEF Stores
  <2>2. a \in In(st) /\ \A b \in In(st) \ job[w].todo : keyring[b] # 0
    BY <1>0, <2>1 DEF Relies
  <2>3. Grows /\ keyring'[a] # 0
    <3>1. st.tok[a] \in Int /\ st.tok[a] # 0 /\ (st.tok[a] >= 0 \/ (st.tok[a] = Unread /\ keyring[a] # 0))
      BY <1>3, <2>2 DEF In, Absent, Backed, Job, AnyState
    <3>2. keyring[a] \in Int /\ keyring[a] >= 0
      BY <1>0 DEF Keyed
    <3>3. PICK x : x = Persisted(st.tok[a], keyring[a])
      OBVIOUS
    <3>4. x \in Int /\ x > 0
      BY <3>1, <3>2, <3>3, PersistedSo
    <3>5. keyring' = [keyring EXCEPT ![a] = x]
      BY <2>1, <3>3
    <3> QED
      BY <1>0, <3>4, <3>5, StoringGrows
  <2>4. Grows
    BY <2>3
  <2>5. Backed(job[w].st)'
    BY <1>3, <2>1, <2>4 DEF Backed, Grows
  <2>6. \A b \in In(st) \ (job[w].todo \ {a}) : keyring'[b] # 0
    <3>1. ASSUME NEW b \in In(st) \ (job[w].todo \ {a}) PROVE keyring'[b] # 0
      <4>1. CASE b = a
        BY <2>3, <4>1
      <4>2. CASE b # a
        <5>1. b \in Accounts /\ keyring[b] # 0
          BY <1>3, <2>2, <3>1, <4>2
        <5> QED
          BY <2>4, <5>1 DEF Grows
      <4> QED
        BY <4>1, <4>2
    <3> QED
      BY <3>1
  <2>7. Relies(w)'
    BY <1>0, <2>1, <2>5, <2>6 DEF Relies
  <2>8. w \in {"renewal", "skins"} => Resaves(w)'
    BY <1>0, <2>1 DEF Resaves
  <2> QED
    BY <1>8, <2>1, <2>4, <2>7, <2>8
<1>12. CASE Truncates(w)
  <2>1. /\ job[w].pc = "store" /\ job[w].todo = {} /\ job'[w].pc = "write" /\ job'[w].st = st
        /\ job'[w].todo = job[w].prev \ In(st) /\ keyring' = keyring /\ result' = result
        /\ file' = [whole |-> FALSE, in |-> In(st), active |-> st.active]
    BY <1>12 DEF Truncates
  <2>2. file'.whole = FALSE /\ file'.in = In(st)
    BY <2>1
  <2>3. Grows
    BY <1>0, <2>1, KeyringStays
  <2>4. Keyed'
    BY <1>0, <1>2, <2>1, <2>2 DEF Keyed, Backed
  <2>5. Queued'
    <3>1. job'["saver"].pc = "idle" \/ (Busy("saver") /\ job'["saver"].st = job["saver"].st)
      BY <1>3, <2>1
    <3> QED
      BY <1>0, <1>2, <2>3, <3>1, QueuedKept
  <2>6. Backed(job[w].st)' /\ \A b \in In(st) : keyring[b] # 0
    BY <1>0, <1>3, <2>1 DEF Backed, Relies
  <2>7. Relies(w)'
    BY <2>1, <2>2, <2>6 DEF Relies
  <2>8. w \in {"renewal", "skins"} => Resaves(w)'
    BY <1>0, <2>1 DEF Resaves
  <2> QED
    BY <1>4, <2>4, <2>5, <2>7, <2>8 DEF ListedKept, AllRely
<1>13. ASSUME NEW left, Ends(w, left)
       PROVE  /\ job'[w].pc = "idle" \/ (job'[w].pc = "delete" /\ job'[w].todo = left /\ job'[w].st = st)
              /\ left = {} => job'[w].pc = "idle"
              /\ \A r \in result' : r \in result \/ r.st = st
              /\ w # "renewal" => result' = result
  <2>1. CASE w = "renewal"
    <3>1. CASE left = {}
      <4>1. job'[w].pc = "idle" /\ result' = {[ok |-> TRUE, st |-> st]}
        BY <1>13, <2>1, <3>1 DEF Ends
      <4>2. \A r \in result' : r.st = st
        BY <4>1, OneResult, Zenon
      <4> QED
        BY <2>1, <4>1, <4>2
    <3>2. CASE left # {}
      BY <1>13, <2>1, <3>2 DEF Ends
    <3> QED
      BY <3>1, <3>2
  <2>2. CASE w # "renewal"
    BY <1>13, <2>2 DEF Ends
  <2> QED
    BY <2>1, <2>2
<1>14. CASE Writes(w)
  <2>1. /\ job[w].pc = "write" /\ file'.in = In(st) /\ keyring' = keyring
        /\ Ends(w, job[w].todo)
    BY <1>14 DEF Writes
  <2>2. file.in = In(st) /\ job[w].todo \cap In(st) = {} /\ \A b \in In(st) : keyring[b] # 0
    BY <1>0, <2>1 DEF Relies
  <2>3. Grows
    BY <1>0, <2>1, KeyringStays
  <2>4. Keyed'
    <3>1. \A r \in result' : r.ok => Backed(r.st)'
      <4>1. \A r \in result' : r \in result \/ r.st = st
        BY <1>13, <2>1
      <4> HIDE DEF st
      <4>2. ASSUME NEW r \in result', r.ok PROVE Backed(r.st)
        BY <1>0, <1>3, <4>1, <4>2 DEF Keyed
      <4> QED
        BY <2>1, <4>2 DEF Backed
    <3> QED
      BY <1>0, <1>2, <2>1, <2>2, <3>1 DEF Keyed, Backed
  <2>5. Queued'
    <3>1. job'["saver"].pc = "idle" \/ (Busy("saver") /\ job'["saver"].st = job["saver"].st)
      BY <1>3, <1>13, <2>1
    <3> QED
      BY <1>0, <1>2, <2>3, <3>1, QueuedKept
  <2>6. job'[w].pc = "delete" => Backed(job[w].st)'
    BY <1>3, <1>13, <2>1 DEF Backed
  <2>7. Relies(w)'
    BY <1>13, <2>1, <2>2, <2>6 DEF Relies, Saving
  <2>8. w \in {"renewal", "skins"} => Resaves(w)'
    BY <1>0, <1>13, <2>1 DEF Resaves
  <2> QED
    BY <1>4, <2>4, <2>5, <2>7, <2>8 DEF ListedKept, AllRely
<1>15. ASSUME NEW a \in Accounts, Deletes(w, a) PROVE ListedKept'
  <2>1. /\ job[w].pc = "delete" /\ a \in job[w].todo /\ file' = file
        /\ keyring' = [keyring EXCEPT ![a] = 0] /\ Ends(w, job[w].todo \ {a})
    BY <1>15 DEF Deletes
  <2>2. file.in = In(st) /\ job[w].todo \cap In(st) = {} /\ \A b \in In(st) : keyring[b] # 0
    BY <1>0, <2>1 DEF Relies
  <2>3. w = "saver"
    BY <1>0, <1>2, <2>1 DEF Resaves, Workers
  <2>4. a \notin In(st) /\ \A b \in Accounts \ {a} : keyring'[b] = keyring[b]
    BY <2>1, <2>2
  <2>5. result' = {} /\ mem' = mem
    BY <1>2, <1>6, <1>13, <2>1, <2>3
  <2>6. ASSUME NEW s \in AnyState, Backed(s), Unreads(s) \subseteq In(st)
        PROVE  \A b \in Accounts : s.tok[b] >= 0 \/ (s.tok[b] = Unread /\ keyring'[b] # 0)
    BY <2>4, <2>6 DEF Backed, Unreads
  <2>7. Backed(mem)'
    BY <1>0, <1>6, <2>3, <2>5, <2>6 DEF Keyed, Backed
  <2>8. Keyed'
    <3>1. \A b \in Accounts : keyring'[b] >= 0
      BY <1>0, <2>1, DeletingShrinks
    <3>2. \A b \in file'.in : keyring'[b] # 0
      BY <1>3, <2>1, <2>2, <2>4
    <3> QED
      BY <2>5, <2>7, <3>1, <3>2 DEF Keyed
  <2>9. Queued'
    <3>1. ASSUME NEW r \in queue, r.seq > written PROVE Backed(r.st)'
      <4>1. Unreads(r.st) \subseteq In(st) /\ Backed(r.st) /\ r.st \in AnyState
        <5>1. Unreads(r.st) \subseteq Unreads(st)
          BY <1>0, <1>3, <2>3, <3>1 DEF Queued
        <5>2. Unreads(st) \subseteq In(st)
          BY UnreadsIn
        <5> QED
          BY <1>0, <3>1, <5>1, <5>2 DEF Queued
      <4> QED
        BY <2>6, <4>1 DEF Backed
    <3>2. job'["saver"].pc = "idle" \/ job'["saver"].st = job["saver"].st
      BY <1>13, <2>1, <2>3
    <3> QED
      BY <1>0, <1>2, <1>3, <2>3, <3>1, <3>2 DEF Queued, Busy
  <2>10. job'[w].pc = "delete" => Backed(job[w].st)'
    <3>1. Unreads(st) \subseteq In(st)
      BY UnreadsIn
    <3>2. st \in AnyState
      BY <1>3 DEF Job
    <3>3. job'[w].pc = "delete" => job'[w].st = st
      BY <1>13, <2>1
    <3> QED
      BY <1>3, <2>6, <3>1, <3>2, <3>3 DEF Backed
  <2>11. Relies(w)'
    <3>1. \A b \in In(st) : keyring'[b] # 0
      BY <1>3, <2>2, <2>4
    <3> QED
      <4>1. job'[w].pc = "idle" \/ (job'[w].pc = "delete" /\ job'[w].todo = job[w].todo \ {a} /\ job'[w].st = st)
        BY <1>13, <2>1
      <4>2. CASE job'[w].pc = "idle"
        BY <4>2 DEF Relies, Saving
      <4>3. CASE job'[w].pc = "delete" /\ job'[w].todo = job[w].todo \ {a} /\ job'[w].st = st
        BY <2>1, <2>2, <2>10, <3>1, <4>3 DEF Relies
      <4> QED
        BY <4>1, <4>2, <4>3
  <2> QED
    BY <1>4, <2>3, <2>8, <2>9, <2>11 DEF ListedKept, AllRely
<1> QED
  BY <1>1, <1>9, <1>10, <1>11, <1>12, <1>14, <1>15

\* What a renewal gets are tokens.
LEMMA RefreshMoves ==
    ASSUME Typed, Refresh
    PROVE  /\ job["renewal"].pc = "refresh" /\ \A v \in Workers \ {"renewal"} : job'[v] = job[v]
           /\ UNCHANGED <<session, mem, flow, renewal, queue, next, written, disk, excused>>
           /\ newest' \in [Accounts -> Nat]
           /\ \E tok \in [Accounts -> Int] :
                /\ \A a \in Accounts : \/ newest'[a] = newest[a] /\ tok[a] = job["renewal"].st.tok[a]
                                       \/ newest'[a] = newest[a] + 1 /\ tok[a] = newest'[a] /\ job["renewal"].st.tok[a] > 0
                /\ \/ /\ job'["renewal"].pc = "previous" /\ result' = result
                      /\ job'["renewal"].st.tok = tok /\ job'["renewal"].st.active = job["renewal"].st.active
                      /\ job'["renewal"].st \in AnyState
                   \/ /\ job'["renewal"].pc = "idle" /\ newest' = newest
                      /\ \A r \in result' : r.ok => r.st = job["renewal"].st
<1> USE Facts, Names
<1> DEFINE st == job["renewal"].st
<1>1. job["renewal"] \in Job /\ job["renewal"].pc = "refresh" /\ st \in AnyState
      /\ UNCHANGED <<session, mem, flow, renewal, queue, next, written, disk, excused>>
  BY DEF Refresh, disk, Job
<1>2. PICK ok \in SUBSET {a \in renewal : st.tok[a] > 0} : \E new \in SUBSET ok :
        LET tok == [a \in Accounts |-> IF a \in new THEN newest[a] + 1 ELSE st.tok[a]]
        IN  /\ newest' = [a \in Accounts |-> newest[a] + IF a \in new THEN 1 ELSE 0]
            /\ \/ /\ job' = [job EXCEPT !["renewal"].pc = "previous", !["renewal"].st.tok = tok]
                  /\ UNCHANGED result
               \/ /\ ok = {}
                  /\ job' = [job EXCEPT !["renewal"] = Idle]
                  /\ \E sent \in BOOLEAN : result' = {IF sent THEN [ok |-> TRUE, st |-> st] ELSE None}
  BY DEF Refresh
<1>3. PICK new \in SUBSET ok :
        LET tok == [a \in Accounts |-> IF a \in new THEN newest[a] + 1 ELSE st.tok[a]]
        IN  /\ newest' = [a \in Accounts |-> newest[a] + IF a \in new THEN 1 ELSE 0]
            /\ \/ /\ job' = [job EXCEPT !["renewal"].pc = "previous", !["renewal"].st.tok = tok]
                  /\ UNCHANGED result
               \/ /\ ok = {}
                  /\ job' = [job EXCEPT !["renewal"] = Idle]
                  /\ \E sent \in BOOLEAN : result' = {IF sent THEN [ok |-> TRUE, st |-> st] ELSE None}
  BY <1>2
<1> DEFINE tok == [a \in Accounts |-> IF a \in new THEN newest[a] + 1 ELSE st.tok[a]]
<1>4. newest' = [a \in Accounts |-> newest[a] + IF a \in new THEN 1 ELSE 0]
  BY <1>3
<1>5. st.tok \in [Accounts -> Int] /\ tok \in [Accounts -> Int] /\ newest' \in [Accounts -> Nat]
  BY <1>1, <1>4 DEF AnyState
<1>6. ASSUME NEW a \in Accounts
      PROVE  \/ newest'[a] = newest[a] /\ tok[a] = st.tok[a]
             \/ newest'[a] = newest[a] + 1 /\ tok[a] = newest'[a] /\ st.tok[a] > 0
  <2>1. a \in new => st.tok[a] > 0
    OBVIOUS
  <2>2. newest[a] \in Nat /\ newest'[a] = newest[a] + (IF a \in new THEN 1 ELSE 0)
    BY <1>4
  <2> QED
    BY <2>1, <2>2
<1>7. CASE /\ job' = [job EXCEPT !["renewal"].pc = "previous", !["renewal"].st.tok = tok]
           /\ UNCHANGED result
  <2> HIDE DEF tok
  <2>1. /\ job'["renewal"].pc = "previous" /\ job'["renewal"].st.tok = tok
        /\ job'["renewal"].st.active = st.active /\ job'["renewal"].st \in AnyState
        /\ \A v \in Workers \ {"renewal"} : job'[v] = job[v]
    BY <1>1, <1>5, <1>7 DEF Job, AnyState
  <2> QED
    BY <1>1, <1>5, <1>6, <1>7, <2>1
<1>8. CASE /\ ok = {}
           /\ job' = [job EXCEPT !["renewal"] = Idle]
           /\ \E sent \in BOOLEAN : result' = {IF sent THEN [ok |-> TRUE, st |-> st] ELSE None}
  <2>1. job'["renewal"].pc = "idle" /\ \A v \in Workers \ {"renewal"} : job'[v] = job[v]
    BY <1>8 DEF Idle
  <2>2. newest' = newest
    <3>1. \A a \in Accounts : newest'[a] = newest[a]
      BY <1>4, <1>8
    <3> QED
      BY <1>5, <3>1
  <2>3. \A r \in result' : r.ok => r.st = st
    <3>1. PICK sent \in BOOLEAN : result' = {IF sent THEN [ok |-> TRUE, st |-> st] ELSE None}
      BY <1>8
    <3>2. CASE sent
      BY <3>1, <3>2, OneResult, Zenon
    <3>3. CASE ~sent
      BY <3>1, <3>3 DEF None
    <3> QED
      BY <3>2, <3>3
  <2> HIDE DEF tok
  <2> QED
    BY <1>1, <1>5, <1>6, <2>1, <2>2, <2>3
<1> QED
  BY <1>3, <1>7, <1>8

\* The UI's own steps: memory and the queue, while nobody touches the disk.
LEMMA UiListed ==
    ASSUME Typed, AtWork, AtWork', Numbered, Alone', ListedKept,
           \/ StartSession \/ StartSignIn \/ EndSignIn \/ PollRenewal \/ StartSkins
           \/ \E a \in Accounts : SelectAccount(a) \/ RemoveAccount(a) \/ RefreshAccount(a)
    PROVE  ListedKept'
<1> USE Facts, Names
<1>0. Alone /\ Keyed /\ Queued /\ AllRely
  BY DEF ListedKept
<1>1. UNCHANGED disk /\ result' \subseteq result
  BY DEF StartSession, StartSignIn, EndSignIn, PollRenewal, StartSkins, SelectAccount, RemoveAccount, RefreshAccount, ui
<1>2. file' = file /\ Grows /\ keyring' = keyring
  BY <1>0, <1>1, KeyringStays DEF disk
<1>3. ASSUME NEW w \in Workers, NEW pc, To(w, pc)
      PROVE  job'[w].pc = pc /\ \A v \in Workers \ {w} : job'[v] = job[v]
  BY <1>3 DEF To, Job
<1>4. /\ \A w \in Workers : job'[w] = job[w] \/ job'[w].pc = "file"
      /\ job'["saver"] = job["saver"]
  <2>1. CASE job' = job
    BY <2>1
  <2>2. ASSUME NEW w \in Workers \ {"saver"}, To(w, "file")
        PROVE  (\A v \in Workers : job'[v] = job[v] \/ job'[v].pc = "file") /\ job'["saver"] = job["saver"]
    BY <1>3, <2>2
  <2>3. job' = job \/ \E w \in {"loader", "renewal", "skins"} : To(w, "file")
    BY DEF StartSession, StartSignIn, EndSignIn, PollRenewal, StartSkins, SelectAccount, RemoveAccount,
           RefreshAccount, StartRenewal
  <2> QED
    BY <2>1, <2>2, <2>3 DEF Workers
<1>5. AllRely'
  BY <1>0, <1>2, <1>4, AllRelyKept DEF Untouched
<1>6. Backed(mem)' /\ Unreads(mem') \subseteq Unreads(mem) => Keyed'
  BY <1>0, <1>1, <1>2, KeyedKept
<1>7. UNCHANGED <<queue, written>> /\ Unreads(mem') \subseteq Unreads(mem) => Queued'
  BY <1>0, <1>2, <1>4, QueuedKept DEF Busy
<1>8. Queue(mem') /\ UNCHANGED written /\ Backed(mem)' /\ Unreads(mem') \subseteq Unreads(mem) => Queued'
  BY <1>0, <1>2, <1>4, QueuedAsk
<1>9. ASSUME \A a \in Accounts : mem'.tok[a] >= 0 \/ mem'.tok[a] = mem.tok[a]
      PROVE  Backed(mem)' /\ Unreads(mem') \subseteq Unreads(mem)
  <2>1. Backed(mem)
    BY <1>0 DEF Keyed
  <2>2. Backed(mem)'
    BY <1>2, <1>9, <2>1 DEF Backed
  <2>3. \A a \in Accounts : mem'.tok[a] = Unread => mem.tok[a] = Unread
    BY <1>9, UnreadNumber
  <2> QED
    BY <2>2, <2>3 DEF Unreads
<1>10. ASSUME UNCHANGED <<mem, queue, written>> PROVE ListedKept'
  BY <1>5, <1>6, <1>7, <1>9, <1>10 DEF ListedKept
<1>11. ASSUME \A a \in Accounts : mem'.tok[a] >= 0 \/ mem'.tok[a] = mem.tok[a],
              Queue(mem'), UNCHANGED written
       PROVE  ListedKept'
  BY <1>5, <1>6, <1>8, <1>9, <1>11 DEF ListedKept
<1>12. CASE EndSignIn
  <2>1. CASE UNCHANGED <<mem, queue, next, newest, users, chosen>>
    BY <1>10, <1>12, <2>1 DEF EndSignIn
  <2>2. ASSUME NEW a \in Accounts, newest' = [newest EXCEPT ![a] = @ + 1],
               mem' = [tok |-> [mem.tok EXCEPT ![a] = newest'[a]], active |-> a], Queue(mem')
        PROVE  ListedKept'
    <3>1. newest'[a] >= 0
      BY <2>2
    <3>2. mem'.tok = [mem.tok EXCEPT ![a] = newest'[a]] /\ mem.tok \in [Accounts -> Int]
      BY <2>2 DEF AnyState
    <3>3. \A b \in Accounts : mem'.tok[b] >= 0 \/ mem'.tok[b] = mem.tok[b]
      BY <3>1, <3>2
    <3> QED
      BY <1>11, <1>12, <2>2, <3>3 DEF EndSignIn
  <2> QED
    BY <1>12, <2>1, <2>2 DEF EndSignIn
<1>13. CASE PollRenewal
  <2>1. PICK r \in result : IF r.ok THEN mem' = KeepActive(r.st) ELSE mem' = mem
    BY <1>13 DEF PollRenewal
  <2>2. UNCHANGED <<queue, written>> /\ queue = {} /\ ~Busy("saver")
    BY <1>0, <1>13 DEF PollRenewal, AtWork, Alone
  <2>3. CASE ~r.ok
    BY <1>10, <2>1, <2>2, <2>3
  <2>4. CASE r.ok
    <3>1. mem'.tok = r.st.tok
      BY <2>1, <2>4 DEF KeepActive, AnyState
    <3>2. Backed(r.st)
      BY <1>0, <2>4 DEF Keyed
    <3>3. Backed(mem)'
      BY <1>2, <3>1, <3>2 DEF Backed
    <3>4. Keyed'
      BY <1>0, <1>1, <1>2, <3>3, KeyedKept
    <3>5. Queued'
      BY <1>4, <2>2 DEF Queued, Busy
    <3> QED
      BY <1>5, <3>4, <3>5 DEF ListedKept
  <2> QED
    BY <2>3, <2>4
<1>14. ASSUME NEW a \in Accounts, SelectAccount(a) PROVE ListedKept'
  <2>1. mem' = [mem EXCEPT !.active = a] /\ Queue(mem') /\ UNCHANGED written
    BY <1>14 DEF SelectAccount
  <2>2. mem'.tok = mem.tok
    BY <2>1 DEF AnyState
  <2> QED
    BY <1>11, <2>1, <2>2
<1>15. ASSUME NEW a \in Accounts, RemoveAccount(a) PROVE ListedKept'
  <2>1. PICK b \in ActiveWithout(a) : mem' = [tok |-> [mem.tok EXCEPT ![a] = Absent], active |-> b]
    BY <1>15 DEF RemoveAccount
  <2>2. mem'.tok = [mem.tok EXCEPT ![a] = 0] /\ mem.tok \in [Accounts -> Int]
    BY <2>1 DEF AnyState, Absent
  <2>3. \A c \in Accounts : mem'.tok[c] >= 0 \/ mem'.tok[c] = mem.tok[c]
    BY <2>2
  <2> QED
    BY <1>11, <1>15, <2>3 DEF RemoveAccount
<1> QED
  BY <1>10, <1>12, <1>13, <1>14, <1>15
  DEF StartSession, StartSignIn, StartSkins, RefreshAccount, ui

\* A save begins, or one that was overtaken is dropped.
LEMMA BeginListed ==
    ASSUME Typed, AtWork, AtWork', Numbered, Alone', NEW r \in queue, BeginSave(r), ListedKept
    PROVE  ListedKept'
<1> USE Facts, Names
<1>0. Alone /\ Keyed /\ Queued /\ AllRely
  BY DEF ListedKept
<1>1. /\ ~Busy("saver") /\ queue' = queue \ {r}
      /\ UNCHANGED <<session, mem, flow, renewal, result, next, disk>>
  BY DEF BeginSave
<1>2. file' = file /\ Grows /\ keyring' = keyring
  BY <1>0, <1>1, KeyringStays DEF disk
<1>3. Keyed'
  BY <1>0, <1>1, <1>2, KeyedKept
<1>4. r.seq \in Nat /\ r.seq # written
  BY DEF Numbered
<1>5. CASE Skips(r)
  <2>1. written' = written /\ job' = job
    BY <1>5 DEF BeginSave
  <2>2. AllRely'
    BY <1>0, <1>2, <2>1, AllRelyKept DEF Untouched
  <2>3. Queued'
    BY <1>0, <1>1, <1>2, <2>1 DEF Queued, Backed, Busy
  <2> QED
    BY <1>3, <2>2, <2>3 DEF ListedKept
<1>6. CASE ~Skips(r)
  <2>1. /\ written' = r.seq /\ job' = [job EXCEPT !["saver"].pc = "previous", !["saver"].st = r.st]
    BY <1>6 DEF BeginSave
  <2>2. /\ job'["saver"].pc = "previous" /\ job'["saver"].st = r.st
        /\ \A v \in Workers \ {"saver"} : job'[v] = job[v]
    BY <2>1 DEF Job
  <2>3. r.seq > written
    BY <1>4, <1>6 DEF Skips
  <2>4. Backed(r.st)
    BY <1>0, <2>3 DEF Queued
  <2>5. Relies("saver")'
    BY <1>2, <2>2, <2>4 DEF Relies, Backed
  <2>6. AllRely'
    <3>1. \A v \in Workers \ {"saver"} : Relies(v)'
      BY <1>0, <1>2, <2>2, ReliesKept DEF AllRely, Untouched
    <3>2. Resaves("renewal")' /\ Resaves("skins")'
      BY <1>0, <1>2, <2>2, ResavesKept DEF AllRely, Untouched
    <3> QED
      BY <2>5, <3>1, <3>2 DEF AllRely
  <2>7. Queued'
    <3>1. ASSUME NEW q \in queue', q.seq > written'
          PROVE  /\ Backed(q.st)' /\ Unreads(mem) \subseteq Unreads(q.st)
                 /\ Unreads(q.st) \subseteq Unreads(r.st)
      <4>1. q \in queue /\ q.seq > written /\ written < r.seq /\ r.seq <= q.seq
        BY <1>1, <2>1, <2>3, <3>1
      <4> QED
        BY <1>0, <1>2, <4>1 DEF Queued, Backed
    <3>2. ASSUME NEW p \in queue', NEW q \in queue', written' < p.seq, p.seq <= q.seq
          PROVE  Unreads(q.st) \subseteq Unreads(p.st)
      <4>1. p \in queue /\ q \in queue /\ written < p.seq
        BY <1>1, <2>1, <2>3, <3>2
      <4> QED
        BY <1>0, <3>2, <4>1 DEF Queued
    <3>3. Unreads(mem) \subseteq Unreads(r.st)
      BY <1>0, <2>3 DEF Queued
    <3> QED
      BY <1>1, <2>2, <3>1, <3>2, <3>3 DEF Queued
  <2> QED
    BY <1>3, <2>6, <2>7 DEF ListedKept
<1> QED
  BY <1>5, <1>6

\* A renewal gets tokens.
LEMMA RefreshListed ==
    ASSUME Typed, AtWork, AtWork', Alone', Refresh, ListedKept
    PROVE  ListedKept'
<1> USE Facts, Names
<1>0. Alone /\ Keyed /\ Queued /\ AllRely /\ Relies("renewal") /\ Resaves("renewal")
  BY DEF ListedKept, AllRely
<1>1. /\ job["renewal"].pc = "refresh" /\ \A v \in Workers \ {"renewal"} : job'[v] = job[v]
      /\ UNCHANGED <<session, mem, flow, renewal, queue, next, written, disk, excused>>
  BY RefreshMoves
<1>2. file' = file /\ Grows /\ keyring' = keyring
  BY <1>0, <1>1, KeyringStays DEF disk
<1>3. PICK tok \in [Accounts -> Int] :
        /\ \A a \in Accounts : \/ newest'[a] = newest[a] /\ tok[a] = job["renewal"].st.tok[a]
                               \/ newest'[a] = newest[a] + 1 /\ tok[a] = newest'[a] /\ job["renewal"].st.tok[a] > 0
        /\ \/ /\ job'["renewal"].pc = "previous" /\ result' = result
              /\ job'["renewal"].st.tok = tok
           \/ /\ job'["renewal"].pc = "idle"
              /\ \A r \in result' : r.ok => r.st = job["renewal"].st
  BY RefreshMoves
<1>4. \A v \in Workers \ {"renewal"} : Relies(v)'
  BY <1>0, <1>1, <1>2, ReliesKept DEF AllRely, Untouched
<1>5. Resaves("skins")'
  BY <1>0, <1>1, <1>2, ResavesKept DEF AllRely, Untouched
<1>6. Queued'
  BY <1>0, <1>1, <1>2, QueuedKept DEF Busy
<1>7. Backed(job["renewal"].st) /\ job["renewal"].st.tok \in [Accounts -> Int]
  BY <1>0, <1>1 DEF Relies, Job, AnyState
<1>8. newest' \in [Accounts -> Nat]
  BY RefreshMoves
<1>9. CASE /\ job'["renewal"].pc = "previous" /\ result' = result /\ job'["renewal"].st.tok = tok
  <2>1. \A a \in Accounts : /\ tok[a] >= 0 \/ tok[a] = job["renewal"].st.tok[a]
                            /\ tok[a] # 0 <=> job["renewal"].st.tok[a] # 0
    <3>1. ASSUME NEW a \in Accounts
          PROVE  (tok[a] >= 0 \/ tok[a] = job["renewal"].st.tok[a]) /\ (tok[a] # 0 <=> job["renewal"].st.tok[a] # 0)
      BY <1>3, <1>7, <1>8
    <3> QED
      BY <3>1
  <2>2. Backed(job["renewal"].st)'
    BY <1>2, <1>7, <1>9, <2>1 DEF Backed
  <2>3. In(job'["renewal"].st) = In(job["renewal"].st)
    BY <1>9, <2>1 DEF In, Absent
  <2>4. Relies("renewal")'
    BY <1>9, <2>2 DEF Relies
  <2>5. Resaves("renewal")'
    BY <1>0, <1>1, <1>2, <1>9, <2>3 DEF Resaves
  <2>6. Keyed'
    BY <1>0, <1>1, <1>2, <1>9, KeyedKept
  <2> QED
    BY <1>4, <1>5, <1>6, <2>4, <2>5, <2>6 DEF ListedKept, AllRely
<1>10. CASE /\ job'["renewal"].pc = "idle"
            /\ \A r \in result' : r.ok => r.st = job["renewal"].st
  <2>1. Relies("renewal")' /\ Resaves("renewal")'
    BY <1>10 DEF Relies, Resaves, Saving
  <2>2. \A r \in result' : r.ok => Backed(r.st)'
    BY <1>2, <1>7, <1>10 DEF Backed
  <2>3. Keyed'
    BY <1>0, <1>1, <1>2, <2>2, KeyedKept
  <2> QED
    BY <1>4, <1>5, <1>6, <2>1, <2>3 DEF ListedKept, AllRely
<1> QED
  BY <1>3, <1>9, <1>10

\* Nobody needs no token.
LEMMA NobodyBacked == ASSUME mem' = Nobody PROVE Backed(mem)'
<1>1. \A a \in Accounts : mem'.tok[a] = 0
  BY DEF Nobody, Absent
<1> QED
  BY <1>1 DEF Backed

\* The process ends: the next begins with the disk.
LEMMA EndListed ==
    ASSUME Typed, AtWork, Alone', End, ListedKept, "token deleted" \notin excused'
    PROVE  ListedKept'
<1> USE Facts, Names
<1>0. Keyed
  BY DEF ListedKept
<1>1. /\ mem' = Nobody /\ queue' = {} /\ result' = {} /\ file' = file
      /\ \A w \in Workers : job'[w].pc = "idle"
  BY DEF End, Idle
<1>2. keyring' = keyring
  BY DEF End
<1>3. Backed(mem)'
  BY <1>1, NobodyBacked
<1>4. Keyed'
  BY <1>0, <1>1, <1>2, <1>3 DEF Keyed
<1>5. Queued'
  BY <1>1 DEF Queued, Busy
<1>6. AllRely'
  BY <1>1 DEF AllRely, Relies, Resaves, Saving
<1> QED
  BY <1>4, <1>5, <1>6 DEF ListedKept

\* Every step keeps a token for each account in the file.
LEMMA ListedStep ==
    ASSUME Typed, AtWork, AtWork', Numbered, Next, ListedKept,
           "saves" \notin raced', "token deleted" \notin excused'
    PROVE  ListedKept'
<1>1. Alone'
  BY NobodyBeside
<1>2. ASSUME NEW w \in Workers, LoadFile(w) \/ LoadTokens(w) PROVE ListedKept'
  BY <1>1, <1>2, LoadListed
<1>3. ASSUME NEW w \in Workers, SaveStep(w) PROVE ListedKept'
  BY <1>1, <1>3, SaveListed
<1>4. ASSUME NEW r \in queue, BeginSave(r) PROVE ListedKept'
  BY <1>1, <1>4, BeginListed
<1> QED
  BY <1>1, <1>2, <1>3, <1>4, UiListed, RefreshListed, EndListed DEF Next, Step, SaveStep

\* A token for each account in the file, at first.
LEMMA ListedStart == Init => ListedKept
<1> SUFFICES ASSUME Init PROVE ListedKept
  OBVIOUS
<1>1. \A w \in Workers : job[w].pc = "idle"
  BY DEF Init, Idle
<1>2. Keyed
  BY DEF Init, Keyed, Backed, Nobody, Absent
<1>3. Alone /\ Queued
  BY <1>1, Names DEF Init, Alone, Queued, Busy
<1>4. AllRely
  BY <1>1, Names DEF AllRely, Relies, Resaves, Saving
<1> QED
  BY <1>2, <1>3, <1>4 DEF ListedKept

-----------------------------------------------------------------------------
(* The disk holds what memory does, in the end.                             *)

\* The tokens of st are the newest, or the keyring has the newest of one not read.
Current(st) ==
    \A a \in In(st) : st.tok[a] = newest[a] \/ (st.tok[a] = Unread /\ keyring[a] = newest[a])

\* The file is whole unless it is being written, and the keyring has no token of an account
\* that is not listed, being added, or being removed.
FileFollows ==
    /\ file.whole \/ \E w \in Workers : job[w].pc = "write"
    /\ \A w \in Workers : /\ job[w].pc = "write" => ~job[w].mixed
                          /\ job[w].pc = "store" => job[w].prev = file.in
    /\ \A a \in Accounts : keyring[a] # 0 =>
         \/ a \in file.in
         \/ \E w \in Workers : \/ job[w].pc = "store" /\ a \in In(job[w].st)
                               \/ job[w].pc \in {"write", "delete"} /\ a \in job[w].todo

\* Before and while the accounts are loaded.
Asleep ==
    /\ \A a \in file.in : keyring[a] = newest[a]
    /\ job["loader"].pc = "tokens" => job["loader"].st.active = file.active

\* What a renewal and the skins screen have loaded.
Reloaded(w) ==
    /\ job[w].pc \in {"tokens", "refresh"} \cup Saving => job[w].st.active = file.active
    /\ job[w].pc \in {"refresh"} \cup Saving => Current(job[w].st)

\* The keyring has the newest token, or a renewal is about to store it.
Renewed(a) ==
    \/ keyring[a] = newest[a]
    \/ job["renewal"].pc = "previous"
    \/ job["renewal"].pc = "store" /\ a \in job["renewal"].todo

\* The last save asked for is of what is in memory: it is to come, is being made, or is made.
LastIsMem ==
    /\ \A r \in queue : r.seq = next => r.st = mem
    /\ written = next /\ Busy("saver") => job["saver"].st = mem
    /\ \/ \E r \in queue : r.seq = next
       \/ /\ written = next /\ job["saver"].pc = "previous"
       \/ /\ written = next /\ job["saver"].pc = "store"
          /\ \A a \in In(mem) \ job["saver"].todo : keyring[a] = newest[a]
       \/ /\ written = next /\ file.in = In(mem) /\ file.active = mem.active
          /\ \A a \in In(mem) : Renewed(a)

MemIsCurrent == Current(mem) \/ job["renewal"].pc \in Saving \/ \E r \in result : r.ok

Awake ==
    /\ LastIsMem /\ MemIsCurrent
    /\ Reloaded("renewal") /\ Reloaded("skins")
    /\ \A r \in result : r.ok => Current(r.st) /\ r.st.active = file.active

DiskFollows ==
    /\ FileFollows
    /\ session = "on" => Awake
    /\ session # "on" => Asleep

\* The file, while nobody saves.
LEMMA FileFollowsKept ==
    ASSUME FileFollows, UNCHANGED disk,
           \A w \in Workers : \/ job'[w] = job[w]
                              \/ /\ job[w].pc \notin {"store", "write", "delete"}
                                 /\ job'[w].pc \notin {"store", "write", "delete"}
    PROVE  FileFollows'
<1>1. file' = file /\ keyring' = keyring
  BY DEF disk
<1>2. \A w \in Workers : \/ job'[w] = job[w]
                         \/ /\ job[w].pc # "store" /\ job[w].pc # "write" /\ job[w].pc # "delete"
                            /\ job'[w].pc # "store" /\ job'[w].pc # "write" /\ job'[w].pc # "delete"
  OBVIOUS
<1>3. file'.whole \/ \E w \in Workers : job'[w].pc = "write"
  BY <1>1, <1>2 DEF FileFollows
<1>4. \A w \in Workers : /\ job'[w].pc = "write" => ~job'[w].mixed
                         /\ job'[w].pc = "store" => job'[w].prev = file'.in
  BY <1>1, <1>2 DEF FileFollows
<1>5. ASSUME NEW a \in Accounts, keyring'[a] # 0
      PROVE  \/ a \in file'.in
             \/ \E w \in Workers : \/ job'[w].pc = "store" /\ a \in In(job'[w].st)
                                   \/ job'[w].pc \in {"write", "delete"} /\ a \in job'[w].todo
  <2>1. CASE a \in file.in
    BY <1>1, <2>1
  <2>2. CASE \E w \in Workers : \/ job[w].pc = "store" /\ a \in In(job[w].st)
                                \/ job[w].pc \in {"write", "delete"} /\ a \in job[w].todo
    <3>1. PICK w \in Workers : \/ job[w].pc = "store" /\ a \in In(job[w].st)
                               \/ job[w].pc \in {"write", "delete"} /\ a \in job[w].todo
      BY <2>2
    <3>2. job'[w] = job[w]
      BY <1>2, <3>1
    <3> QED
      BY <3>1, <3>2
  <2> QED
    BY <1>1, <1>5, <2>1, <2>2 DEF FileFollows
<1> QED
  BY <1>3, <1>4, <1>5 DEF FileFollows

\* Who saves alone keeps it so.
LEMMA FileFollowsSave ==
    ASSUME Typed, NEW w \in Workers, SaveStep(w), FileFollows, Relies(w), excused' = {},
           \A v \in Workers \ {w} : job[v].pc = "idle" /\ job'[v].pc = "idle"
    PROVE  FileFollows'
<1> USE Facts
<1> DEFINE st == job[w].st
           owed(a) == \/ a \in file.in
                      \/ job[w].pc = "store" /\ a \in In(st)
                      \/ job[w].pc \in {"write", "delete"} /\ a \in job[w].todo
           owing(a) == \/ a \in file'.in
                       \/ job'[w].pc = "store" /\ a \in In(job'[w].st)
                       \/ job'[w].pc \in {"write", "delete"} /\ a \in job'[w].todo
<1>1. ASSUME NEW a \in Accounts, keyring[a] # 0 PROVE owed(a)
  BY <1>1 DEF FileFollows
<1>2. file.whole \/ job[w].pc = "write"
  BY DEF FileFollows
<1>3. (job[w].pc = "write" => ~job[w].mixed) /\ (job[w].pc = "store" => job[w].prev = file.in)
  BY DEF FileFollows
<1>4. ASSUME file'.whole \/ job'[w].pc = "write", job'[w].pc = "write" => ~job'[w].mixed,
             job'[w].pc = "store" => job'[w].prev = file'.in,
             \A a \in Accounts : keyring'[a] # 0 => owing(a)
      PROVE  FileFollows'
  BY <1>4 DEF FileFollows
<1>5. CASE Reads(w)
  <2>1. /\ job[w].pc = "previous" /\ job'[w].pc = "store" /\ file' = file /\ keyring' = keyring
        /\ job'[w].prev = (IF file.whole THEN file.in ELSE {})
    BY <1>5 DEF Reads, disk
  <2> QED
    BY <1>1, <1>2, <1>4, <2>1
<1>6. ASSUME NEW a \in Accounts, Stores(w, a) PROVE FileFollows'
  <2>1. /\ job[w].pc = "store" /\ job'[w].pc = "store" /\ job'[w].st = st /\ file' = file
        /\ job'[w].prev = job[w].prev /\ a \in job[w].todo
        /\ keyring' = [keyring EXCEPT ![a] = Persisted(st.tok[a], @)]
    BY <1>6 DEF Stores
  <2>2. a \in In(st)
    BY <2>1 DEF Relies
  <2>3. ASSUME NEW b \in Accounts, keyring'[b] # 0 PROVE owing(b)
    <3>1. CASE b = a
      BY <2>1, <2>2, <3>1
    <3>2. CASE b # a
      <4>1. keyring[b] # 0
        BY <2>1, <2>3, <3>2
      <4> QED
        BY <1>1, <2>1, <4>1
    <3> QED
      BY <3>1, <3>2
  <2> QED
    BY <1>2, <1>3, <1>4, <2>1, <2>3
<1>7. CASE Truncates(w)
  <2>1. /\ job[w].pc = "store" /\ job'[w].pc = "write" /\ job'[w].st = st
        /\ job'[w].todo = job[w].prev \ In(st) /\ keyring' = keyring
        /\ job'[w].mixed = \E v \in Workers \ {w} : job[v].pc = "write"
        /\ file'.in = In(st)
    BY <1>7 DEF Truncates
  <2>2. ~job'[w].mixed
    BY <2>1
  <2>3. ASSUME NEW b \in Accounts, keyring'[b] # 0 PROVE owing(b)
    BY <1>1, <1>3, <2>1, <2>3
  <2> QED
    BY <1>4, <2>1, <2>2, <2>3
<1>8. ASSUME NEW left, Ends(w, left)
      PROVE  /\ job'[w].pc = "idle" \/ (job'[w].pc = "delete" /\ job'[w].todo = left)
             /\ left # {} => job'[w].pc = "delete"
  BY <1>8 DEF Ends
<1>9. CASE Writes(w)
  <2>1. /\ job[w].pc = "write" /\ file'.in = In(st) /\ keyring' = keyring
        /\ Ends(w, job[w].todo) /\ file'.whole
    BY <1>3, <1>9 DEF Writes
  <2>2. file.in = In(st)
    BY <2>1 DEF Relies
  <2>3. ASSUME NEW b \in Accounts, keyring'[b] # 0 PROVE owing(b)
    <3>1. b \in In(st) \/ b \in job[w].todo
      BY <1>1, <2>1, <2>2, <2>3
    <3>2. b \in job[w].todo => job'[w].pc = "delete" /\ job'[w].todo = job[w].todo
      BY <1>8, <2>1
    <3> QED
      BY <2>1, <3>1, <3>2
  <2>4. job'[w].pc = "idle" \/ job'[w].pc = "delete"
    BY <1>8, <2>1
  <2> QED
    BY <1>4, <2>1, <2>3, <2>4
<1>10. ASSUME NEW a \in Accounts, Deletes(w, a) PROVE FileFollows'
  <2>1. /\ job[w].pc = "delete" /\ a \in job[w].todo /\ file' = file
        /\ keyring' = [keyring EXCEPT ![a] = 0] /\ Ends(w, job[w].todo \ {a})
    BY <1>10 DEF Deletes
  <2>2. ASSUME NEW b \in Accounts, keyring'[b] # 0 PROVE owing(b)
    <3>1. b # a /\ keyring[b] # 0
      BY <2>1, <2>2
    <3>2. b \in file.in \/ b \in job[w].todo \ {a}
      BY <1>1, <2>1, <3>1
    <3>3. b \in job[w].todo \ {a} => job'[w].pc = "delete" /\ job'[w].todo = job[w].todo \ {a}
      BY <1>8, <2>1
    <3> QED
      BY <2>1, <3>2, <3>3
  <2>3. job'[w].pc = "idle" \/ job'[w].pc = "delete"
    BY <1>8, <2>1
  <2> QED
    BY <1>2, <1>4, <2>1, <2>2, <2>3
<1>11. ~Fails(w)
  BY DEF Fails
<1> QED
  BY <1>5, <1>6, <1>7, <1>9, <1>10, <1>11, SaverMoves

\* While the accounts are loaded to be saved again, what was asked for is on disk.
LEMMA Settled ==
    ASSUME AtWork, Alone, LastIsMem, renewal # {} \/ Busy("renewal") \/ Busy("skins")
    PROVE  /\ queue = {} /\ job["saver"].pc = "idle" /\ written = next
           /\ file.in = In(mem) /\ file.active = mem.active
           /\ \A a \in In(mem) : Renewed(a)
<1>1. queue = {} /\ job["saver"].pc = "idle"
  BY DEF Alone, Busy
<1> QED
  BY <1>1 DEF LastIsMem

\* What is stored of tokens that are current is the newest.
LEMMA StoresNewest ==
    ASSUME Typed, NEW st \in AnyState, NEW a \in In(st), Current(st),
           keyring' = [keyring EXCEPT ![a] = Persisted(st.tok[a], @)]
    PROVE  /\ keyring'[a] = newest[a]
           /\ \A b \in Accounts : b # a => keyring'[b] = keyring[b]
           /\ \A b \in Accounts : keyring[b] = newest[b] => keyring'[b] = newest[b]
<1> USE Facts
<1>1. a \in Accounts /\ st.tok[a] \in Int /\ st.tok[a] # 0 /\ newest[a] \in Nat /\ keyring[a] \in Int
  BY DEF In, Absent, AnyState
<1>2. keyring'[a] = Persisted(st.tok[a], keyring[a])
  BY <1>1
<1>3. CASE st.tok[a] = newest[a]
  <2>1. st.tok[a] > 0
    BY <1>1, <1>3
  <2> QED
    BY <1>1, <1>2, <1>3, <2>1 DEF Persisted
<1>4. CASE st.tok[a] = Unread /\ keyring[a] = newest[a]
  <2>1. ~(st.tok[a] > 0)
    BY <1>4, UnreadNumber
  <2>2. keyring'[a] = keyring[a]
    BY <1>2, <1>4, <2>1 DEF Persisted
  <2> QED
    BY <1>1, <1>4, <2>2
<1> QED
  BY <1>3, <1>4 DEF Current

\* Tokens stay current where the newest tokens stay, and what the keyring has of them.
LEMMA CurrentStays ==
    ASSUME NEW st, Current(st), newest' = newest,
           \A a \in Accounts : keyring[a] = newest[a] => keyring'[a] = newest[a]
    PROVE  \A a \in In(st) : st.tok[a] = newest'[a] \/ (st.tok[a] = Unread /\ keyring'[a] = newest'[a])
BY DEF Current, In

\* A background save.
LEMMA SaverAwake ==
    ASSUME Typed, AtWork, AtWork', SaveStep("saver"), ListedKept, Alone', excused' = {}, Awake,
           \A v \in Workers \ {"saver"} : job[v].pc = "idle" /\ job'[v].pc = "idle"
    PROVE  Awake'
<1> USE Facts, Names
<1> DEFINE st == job["saver"].st
<1>1. /\ job["saver"].pc \in Saving /\ Busy("saver")
      /\ UNCHANGED <<session, mem, flow, renewal, queue, next, written>>
  BY SaveEffect DEF Busy, Saving
<1>2. renewal = {} /\ result = {} /\ result' = {}
  BY <1>1 DEF ListedKept, Alone, AtWork
<1>3. /\ Relies("saver") /\ Unreads(mem) \subseteq Unreads(st) /\ st \in AnyState
      /\ job["saver"] \in Job
  BY <1>1 DEF ListedKept, AllRely, Queued, Job
<1>4. job["renewal"].pc = "idle" /\ job'["renewal"].pc = "idle" /\ job'["skins"].pc = "idle"
  OBVIOUS
<1>5. Current(mem) /\ LastIsMem
  BY <1>2, <1>4 DEF Awake, MemIsCurrent, Saving
<1>6. /\ Reloaded("renewal")' /\ Reloaded("skins")'
      /\ \A r \in result' : r.ok => Current(r.st)' /\ r.st.active = file'.active
  BY <1>2, <1>4 DEF Reloaded, Saving
<1>7. ASSUME newest' = newest, LastIsMem',
             \A a \in Accounts : mem.tok[a] = Unread => keyring'[a] = keyring[a]
      PROVE  Awake'
  <2>1. Current(mem)'
    BY <1>1, <1>5, <1>7 DEF Current, In
  <2> QED
    BY <1>6, <1>7, <2>1 DEF Awake, MemIsCurrent
<1>8. written = next => st = mem
  BY <1>1, <1>5 DEF LastIsMem
<1>9. ASSUME job'["saver"].pc = "idle" \/ job'["saver"].st = st,
             \/ \E r \in queue : r.seq = next
             \/ /\ written = next /\ job'["saver"].pc = "store"
                /\ \A a \in In(mem) \ job'["saver"].todo : keyring'[a] = newest'[a]
             \/ /\ written = next /\ file'.in = In(mem) /\ file'.active = mem.active
                /\ \A a \in In(mem) : keyring'[a] = newest'[a]
      PROVE  LastIsMem'
  <2>1. \A r \in queue' : r.seq = next' => r.st = mem'
    BY <1>1, <1>5 DEF LastIsMem
  <2>2. written' = next' /\ Busy("saver")' => job'["saver"].st = mem'
    BY <1>1, <1>8, <1>9 DEF Busy
  <2> QED
    BY <1>1, <1>9, <2>1, <2>2 DEF LastIsMem, Renewed
<1>10. ASSUME NEW a \in In(mem) PROVE Renewed(a) => keyring[a] = newest[a]
  BY <1>4 DEF Renewed
<1>11. \/ \E r \in queue : r.seq = next
       \/ written = next /\ job["saver"].pc = "previous"
       \/ /\ written = next /\ job["saver"].pc = "store"
          /\ \A a \in In(mem) \ job["saver"].todo : keyring[a] = newest[a]
       \/ /\ written = next /\ file.in = In(mem) /\ file.active = mem.active
          /\ \A a \in In(mem) : keyring[a] = newest[a]
  BY <1>5, <1>10 DEF LastIsMem
<1>12. CASE Reads("saver")
  <2>1. /\ job'["saver"].pc = "store" /\ job'["saver"].st = st /\ job["saver"].pc = "previous"
        /\ job'["saver"].todo = In(st) /\ file' = file /\ keyring' = keyring /\ newest' = newest
    BY <1>12 DEF Reads, disk
  <2>2. LastIsMem'
    BY <1>8, <1>9, <1>11, <2>1
  <2> QED
    BY <1>7, <2>1, <2>2
<1>13. ASSUME NEW a \in Accounts, Stores("saver", a) PROVE Awake'
  <2>1. /\ job["saver"].pc = "store" /\ job'["saver"].pc = "store" /\ job'["saver"].st = st
        /\ file' = file /\ newest' = newest /\ a \in job["saver"].todo
        /\ job'["saver"].todo = job["saver"].todo \ {a}
        /\ keyring' = [keyring EXCEPT ![a] = Persisted(st.tok[a], @)]
    BY <1>13 DEF Stores
  <2>2. a \in In(st)
    BY <1>3, <2>1 DEF Relies
  <2>3. \A b \in Accounts : b # a => keyring'[b] = keyring[b]
    BY <2>1
  <2>4. ASSUME mem.tok[a] = Unread PROVE keyring'[a] = keyring[a]
    <3>1. st.tok[a] = Unread
      BY <1>3, <2>4 DEF Unreads
    <3>2. Persisted(st.tok[a], keyring[a]) = keyring[a]
      BY <3>1, UnreadNumber DEF Persisted
    <3> QED
      BY <2>1, <3>2
  <2>5. CASE written = next
    <3>1. /\ keyring'[a] = newest[a]
          /\ \A b \in Accounts : keyring[b] = newest[b] => keyring'[b] = newest[b]
      BY <1>3, <1>5, <1>8, <2>1, <2>2, <2>5, StoresNewest
    <3>2. In(mem) \subseteq Accounts
      BY DEF In
    <3>3. LastIsMem'
      <4>1. CASE \E r \in queue : r.seq = next
        BY <1>9, <2>1, <4>1
      <4>2. CASE \A b \in In(mem) \ job["saver"].todo : keyring[b] = newest[b]
        <5>1. \A b \in In(mem) \ job'["saver"].todo : keyring'[b] = newest'[b]
          BY <2>1, <3>1, <3>2, <4>2
        <5> QED
          BY <1>9, <2>1, <2>5, <5>1
      <4>3. CASE file.in = In(mem) /\ file.active = mem.active /\ \A b \in In(mem) : keyring[b] = newest[b]
        <5>1. \A b \in In(mem) : keyring'[b] = newest'[b]
          BY <2>1, <3>1, <3>2, <4>3
        <5> QED
          BY <1>9, <2>1, <2>5, <4>3, <5>1
      <4> QED
        BY <1>11, <2>1, <4>1, <4>2, <4>3
    <3> QED
      BY <1>7, <2>1, <2>3, <2>4, <3>3
  <2>6. CASE written # next
    <3>1. LastIsMem'
      BY <1>9, <1>11, <2>1, <2>6
    <3> QED
      BY <1>7, <2>1, <2>3, <2>4, <3>1
  <2> QED
    BY <2>5, <2>6
<1>14. CASE Truncates("saver")
  <2>1. /\ job["saver"].pc = "store" /\ job["saver"].todo = {} /\ job'["saver"].st = st
        /\ keyring' = keyring /\ newest' = newest
        /\ file'.in = In(st) /\ file'.active = st.active
    BY <1>14 DEF Truncates
  <2>2. LastIsMem'
    BY <1>8, <1>9, <1>11, <2>1
  <2> QED
    BY <1>7, <2>1, <2>2
<1>15. ASSUME NEW left, Ends("saver", left)
       PROVE  job'["saver"].pc = "idle" \/ job'["saver"].st = st
  BY <1>15 DEF Ends
<1>16. CASE Writes("saver")
  <2>1. /\ job["saver"].pc = "write" /\ file'.in = In(st) /\ file'.active = st.active
        /\ keyring' = keyring /\ newest' = newest /\ Ends("saver", job["saver"].todo)
    BY <1>16 DEF Writes
  <2>2. LastIsMem'
    BY <1>8, <1>9, <1>11, <1>15, <2>1
  <2> QED
    BY <1>7, <2>1, <2>2
<1>17. ASSUME NEW a \in Accounts, Deletes("saver", a) PROVE Awake'
  <2>1. /\ job["saver"].pc = "delete" /\ file' = file /\ newest' = newest /\ a \in job["saver"].todo
        /\ keyring' = [keyring EXCEPT ![a] = 0] /\ Ends("saver", job["saver"].todo \ {a})
    BY <1>17 DEF Deletes
  <2>2. a \notin In(st)
    BY <1>3, <2>1 DEF Relies
  <2>3. \A b \in Accounts : b # a => keyring'[b] = keyring[b]
    BY <2>1
  <2>4. mem.tok[a] # Unread
    <3>1. Unreads(st) \subseteq In(st)
      BY UnreadsIn
    <3> QED
      BY <1>3, <2>2, <3>1 DEF Unreads
  <2>5. LastIsMem'
    <3>1. written = next => \A b \in In(mem) : keyring'[b] = keyring[b]
      BY <1>8, <2>2, <2>3 DEF In
    <3> QED
      BY <1>9, <1>11, <1>15, <2>1, <3>1
  <2> QED
    BY <1>7, <2>1, <2>3, <2>4, <2>5
<1>18. ~Fails("saver")
  BY DEF Fails
<1> QED
  BY <1>12, <1>13, <1>14, <1>16, <1>17, <1>18, SaverMoves

\* The save of a renewal or of the skins screen.
LEMMA ResaveAwake ==
    ASSUME Typed, AtWork, AtWork', NEW w \in {"renewal", "skins"}, SaveStep(w), ListedKept, Alone',
           excused' = {}, Awake, NobodyInTheWay,
           \A v \in Workers \ {w} : job[v].pc = "idle" /\ job'[v].pc = "idle"
    PROVE  Awake'
<1> USE Facts, Names
<1> DEFINE st == job[w].st
<1>1. /\ job[w].pc \in Saving /\ Busy(w) /\ w # "saver" /\ w \in Workers
      /\ UNCHANGED <<session, mem, flow, renewal, queue, next, written>>
  BY SaveEffect DEF Busy, Saving
<1>2. /\ queue = {} /\ written = next /\ file.in = In(mem) /\ file.active = mem.active
      /\ \A a \in In(mem) : Renewed(a)
  BY <1>1, Settled DEF ListedKept, Awake
<1>3. /\ Relies(w) /\ Resaves(w) /\ job[w] \in Job /\ st \in AnyState
      /\ Current(st) /\ st.active = file.active /\ In(st) = In(mem) /\ In(st) \subseteq Accounts
  BY <1>1 DEF ListedKept, AllRely, Job, Awake, Reloaded, NobodyInTheWay, Loaded, In
<1>4. /\ job'["saver"].pc = "idle"
      /\ w = "skins" => job["renewal"].pc = "idle" /\ job'["renewal"].pc = "idle"
      /\ \A v \in {"renewal", "skins"} : v # w => job'[v].pc = "idle"
  BY <1>1
<1>5. w = "skins" => result = {}
  BY <1>1 DEF ListedKept, Alone, AtWork
<1>6. w = "renewal" => result = {}
  BY <1>1 DEF AtWork
<1>7. w = "skins" => Current(mem)
  BY <1>4, <1>5 DEF Awake, MemIsCurrent, Saving
<1>8. ASSUME \A a \in In(mem) : Renewed(a)', file'.in = In(mem), file'.active = mem.active
      PROVE  LastIsMem'
  <2>1. queue' = {} /\ written' = next' /\ job'["saver"].pc = "idle"
    BY <1>1, <1>2, <1>4
  <2> QED
    BY <1>1, <1>8, <2>1 DEF LastIsMem, Busy
<1>9. ASSUME newest' = newest, \A a \in Accounts : keyring[a] = newest[a] => keyring'[a] = newest[a],
             \A a \in In(mem) : Renewed(a)', file'.in = In(mem), file'.active = mem.active,
             \/ job'[w].pc \in Saving /\ job'[w].st = st /\ result' = {}
             \/ /\ job'[w].pc = "idle"
                /\ result' = (IF w = "renewal" THEN {[ok |-> TRUE, st |-> st]} ELSE {})
      PROVE  Awake'
  <2>1. /\ Current(st) => \A a \in In(st) : st.tok[a] = newest'[a] \/ (st.tok[a] = Unread /\ keyring'[a] = newest'[a])
        /\ Current(mem) => \A a \in In(mem) : mem.tok[a] = newest'[a] \/ (mem.tok[a] = Unread /\ keyring'[a] = newest'[a])
    BY <1>9, CurrentStays
  <2>2. LastIsMem'
    BY <1>8, <1>9
  <2>3. \A r \in result' : r.st = st
    <3>1. CASE w = "renewal" /\ job'[w].pc = "idle"
      <4>1. result' = {[ok |-> TRUE, st |-> st]}
        BY <1>9, <3>1 DEF Saving
      <4> QED
        BY <4>1, OneResult, Zenon
    <3>2. CASE ~(w = "renewal" /\ job'[w].pc = "idle")
      BY <1>9, <3>2
    <3> QED
      BY <3>1, <3>2
  <2>4. \A r \in result' : r.ok => Current(r.st)' /\ r.st.active = file'.active
    <3>1. ASSUME NEW r \in result' PROVE Current(r.st)' /\ r.st.active = file'.active
      BY <1>2, <1>3, <1>9, <2>1, <2>3 DEF Current
    <3> QED
      BY <3>1
  <2>5. job'[w].pc \in Saving => Reloaded(w)'
    <3>1. job'[w].pc \in Saving => job'[w].st = st
      BY <1>9 DEF Saving
    <3> QED
      BY <1>2, <1>3, <1>9, <2>1, <3>1 DEF Reloaded, Current
  <2>6. job'[w].pc = "idle" => Reloaded(w)'
    BY DEF Reloaded, Saving
  <2>7. Reloaded("renewal")' /\ Reloaded("skins")'
    BY <1>4, <1>9, <2>5, <2>6 DEF Reloaded, Saving
  <2>8. MemIsCurrent'
    <3>1. CASE w = "skins"
      BY <1>1, <1>7, <2>1, <3>1 DEF MemIsCurrent, Current
    <3>2. CASE w = "renewal" /\ job'[w].pc \in Saving
      BY <3>2 DEF MemIsCurrent
    <3>3. CASE w = "renewal" /\ job'[w].pc \notin Saving
      <4>1. result' = {[ok |-> TRUE, st |-> st]}
        BY <1>9, <3>3
      <4>2. [ok |-> TRUE, st |-> st] \in result' /\ [ok |-> TRUE, st |-> st].ok
        BY <4>1
      <4> QED
        BY <4>2 DEF MemIsCurrent
    <3> QED
      BY <3>1, <3>2, <3>3
  <2> QED
    BY <2>2, <2>4, <2>7, <2>8 DEF Awake
<1>10. result = {}
  BY <1>5, <1>6
<1>11. CASE Reads(w)
  <2>1. /\ job'[w].pc = "store" /\ job'[w].st = st /\ job[w].pc = "previous" /\ result' = {}
        /\ job'[w].todo = In(st) /\ file' = file /\ keyring' = keyring /\ newest' = newest
    BY <1>10, <1>11 DEF Reads, disk
  <2>2. \A a \in In(mem) : Renewed(a)'
    <3>1. CASE w = "renewal"
      BY <1>3, <2>1, <3>1 DEF Renewed
    <3>2. CASE w = "skins"
      BY <1>2, <1>4, <2>1, <3>2 DEF Renewed
    <3> QED
      BY <3>1, <3>2
  <2> QED
    BY <1>2, <1>9, <2>1, <2>2 DEF Saving
<1>12. ASSUME NEW a \in Accounts, Stores(w, a) PROVE Awake'
  <2>1. /\ job[w].pc = "store" /\ job'[w].pc = "store" /\ job'[w].st = st /\ result' = {}
        /\ file' = file /\ newest' = newest /\ a \in job[w].todo
        /\ job'[w].todo = job[w].todo \ {a}
        /\ keyring' = [keyring EXCEPT ![a] = Persisted(st.tok[a], @)]
    BY <1>10, <1>12 DEF Stores
  <2>2. a \in In(st)
    BY <1>3, <2>1 DEF Relies
  <2>3. /\ keyring'[a] = newest[a]
        /\ \A b \in Accounts : keyring[b] = newest[b] => keyring'[b] = newest[b]
    BY <1>3, <2>1, <2>2, StoresNewest
  <2>4. ASSUME NEW b \in In(mem) PROVE Renewed(b)'
    <3>1. b \in Accounts /\ Renewed(b)
      BY <1>2, <1>3
    <3>2. CASE b = a
      BY <2>1, <2>3, <3>2 DEF Renewed
    <3>3. CASE keyring[b] = newest[b]
      BY <2>1, <2>3, <3>1, <3>3 DEF Renewed
    <3>4. CASE b # a /\ keyring[b] # newest[b]
      <4>1. w = "renewal"
        BY <1>4, <3>1, <3>4 DEF Renewed
      <4>2. b \in job["renewal"].todo
        BY <2>1, <3>1, <3>4, <4>1 DEF Renewed
      <4> QED
        BY <2>1, <3>4, <4>1, <4>2 DEF Renewed
    <3> QED
      BY <3>2, <3>3, <3>4
  <2> QED
    BY <1>2, <1>9, <2>1, <2>3, <2>4 DEF Saving
<1>13. ASSUME job[w].pc \in {"store", "write"}, job[w].todo = {} PROVE \A a \in In(mem) : keyring[a] = newest[a]
  BY <1>2, <1>4, <1>13 DEF Renewed
<1>14. CASE Truncates(w)
  <2>1. /\ job[w].pc = "store" /\ job[w].todo = {} /\ job'[w].st = st /\ job'[w].pc = "write" /\ result' = {}
        /\ keyring' = keyring /\ newest' = newest
        /\ file'.in = In(st) /\ file'.active = st.active
    BY <1>10, <1>14 DEF Truncates
  <2>2. \A a \in In(mem) : Renewed(a)'
    BY <1>13, <2>1 DEF Renewed
  <2> QED
    BY <1>2, <1>3, <1>9, <2>1, <2>2 DEF Saving
<1>15. CASE Writes(w)
  <2>1. /\ job[w].pc = "write" /\ file'.in = In(st) /\ file'.active = st.active
        /\ keyring' = keyring /\ newest' = newest /\ Ends(w, job[w].todo)
    BY <1>15 DEF Writes
  <2>2. job[w].todo = {}
    BY <1>3, <2>1 DEF Resaves
  <2>3. /\ job'[w].pc = "idle"
        /\ result' = (IF w = "renewal" THEN {[ok |-> TRUE, st |-> st]} ELSE {})
    BY <1>10, <2>1, <2>2 DEF Ends
  <2>4. \A a \in In(mem) : Renewed(a)'
    BY <1>13, <2>1, <2>2 DEF Renewed
  <2> QED
    BY <1>2, <1>3, <1>9, <2>1, <2>3, <2>4
<1>16. \A a \in Accounts : ~Deletes(w, a)
  BY <1>3 DEF Resaves, Deletes
<1>17. ~Fails(w)
  BY DEF Fails
<1> QED
  BY <1>1, <1>11, <1>12, <1>14, <1>15, <1>16, <1>17, SaverMoves

\* The steps of the UI that ask for no save.
LEMMA QuietAwake ==
    ASSUME Typed, Alone, Awake, UNCHANGED <<file, keyring, newest, mem, queue, next, written, result>>,
           job'["saver"] = job["saver"],
           \A w \in {"renewal", "skins"} :
             job'[w] = job[w] \/ (job[w].pc = "idle" /\ job'[w].pc \in {"idle", "file"})
    PROVE  Awake'
<1>1. ASSUME NEW w \in {"renewal", "skins"} PROVE Reloaded(w)'
  <2>1. CASE job'[w] = job[w]
    BY <2>1 DEF Awake, Reloaded, Current
  <2>2. CASE job'[w].pc \in {"idle", "file"}
    BY <2>2 DEF Reloaded, Saving
  <2> QED
    BY <2>1, <2>2
<1>2. ASSUME NEW a \in In(mem), Renewed(a) PROVE Renewed(a)'
  BY <1>2 DEF Renewed
<1>3. LastIsMem'
  <2>1. /\ \A r \in queue' : r.seq = next' => r.st = mem'
        /\ written' = next' /\ Busy("saver")' => job'["saver"].st = mem'
    BY DEF Awake, LastIsMem, Busy
  <2> QED
    BY <1>2, <2>1 DEF Awake, LastIsMem
<1>4. MemIsCurrent'
  BY DEF Awake, MemIsCurrent, Current, Saving
<1>5. \A r \in result' : r.ok => Current(r.st)' /\ r.st.active = file'.active
  BY DEF Awake, Current
<1> QED
  BY <1>1, <1>3, <1>4, <1>5 DEF Awake

\* A save is asked for, of tokens that are current.
LEMMA AskAwake ==
    ASSUME Typed, AtWork', Numbered, Alone', Queue(mem'), written' = written, Current(mem)'
    PROVE  Awake'
<1> USE Facts
<1>1. queue' = queue \cup {[seq |-> next + 1, st |-> mem']} /\ next' = next + 1
  BY DEF Queue
<1>2. \E r \in queue' : r.seq = next'
  <2>1. [seq |-> next + 1, st |-> mem'] \in queue' /\ [seq |-> next + 1, st |-> mem'].seq = next'
    BY <1>1
  <2> QED
    BY <2>1
<1>3. \A r \in queue' : r.seq = next' => r.st = mem'
  <2>1. \A r \in queue : r.seq # next + 1
    BY DEF Numbered
  <2> QED
    BY <1>1, <2>1
<1>4. written' # next'
  BY <1>1 DEF Numbered
<1>5. renewal' = {} /\ ~Busy("renewal")' /\ ~Busy("skins")' /\ result' = {}
  BY <1>2 DEF Alone, AtWork
<1>6. Reloaded("renewal")' /\ Reloaded("skins")'
  BY <1>5 DEF Busy, Reloaded, Saving
<1> QED
  BY <1>2, <1>3, <1>4, <1>5, <1>6 DEF Awake, LastIsMem, MemIsCurrent

\* The UI.
LEMMA UiAwake ==
    ASSUME Typed, AtWork, AtWork', Numbered, Alone, Alone', Awake, NobodyInTheWay, session = "on",
           \/ StartSignIn \/ EndSignIn \/ PollRenewal \/ StartSkins
           \/ \E a \in Accounts : SelectAccount(a) \/ RemoveAccount(a) \/ RefreshAccount(a)
    PROVE  Awake'
<1> USE Facts, Names
<1>1. file' = file /\ keyring' = keyring
  BY DEF StartSignIn, EndSignIn, PollRenewal, StartSkins, SelectAccount, RemoveAccount, RefreshAccount, ui, disk
<1>2. ASSUME Queue(mem'), result' = result, \/ job' = job \/ job'["renewal"].pc = "file"
      PROVE  Current(mem)
  <2>1. queue' # {}
    BY <1>2 DEF Queue
  <2>2. ~Busy("renewal")' /\ renewal' = {} /\ result' = {}
    BY <2>1 DEF Alone, AtWork
  <2>3. job'["renewal"].pc = "idle"
    BY <2>2 DEF Busy
  <2>4. job["renewal"].pc = "idle" /\ result = {}
    BY <1>2, <2>2, <2>3
  <2> QED
    BY <2>4 DEF Awake, MemIsCurrent, Saving
<1>3. CASE StartSignIn
  BY <1>1, <1>3, QuietAwake DEF StartSignIn, disk
<1>4. CASE EndSignIn
  <2>1. CASE UNCHANGED <<mem, queue, next, newest, users, chosen>>
    BY <1>1, <1>4, <2>1, QuietAwake DEF EndSignIn
  <2>2. ASSUME NEW a \in Accounts, newest' = [newest EXCEPT ![a] = @ + 1],
               mem' = [tok |-> [mem.tok EXCEPT ![a] = newest'[a]], active |-> a], Queue(mem')
        PROVE  Awake'
    <3>1. Current(mem)
      BY <1>2, <1>4, <2>2 DEF EndSignIn
    <3>2. mem'.tok = [mem.tok EXCEPT ![a] = newest'[a]] /\ mem.tok \in [Accounts -> Int]
      BY <2>2 DEF AnyState
    <3>3. \A b \in Accounts : b # a => newest'[b] = newest[b] /\ mem'.tok[b] = mem.tok[b]
      BY <2>2, <3>2
    <3>4. mem'.tok[a] = newest'[a]
      BY <3>2
    <3>5. Current(mem)'
      BY <1>1, <3>1, <3>3, <3>4 DEF Current, In
    <3> QED
      BY <1>4, <2>2, <3>5, AskAwake DEF EndSignIn
  <2> QED
    BY <1>4, <2>1, <2>2 DEF EndSignIn
<1>5. CASE PollRenewal
  <2>1. /\ renewal # {} /\ ~Busy("renewal") /\ UNCHANGED <<queue, next, written, job, newest>>
        /\ result' = {}
    BY <1>5 DEF PollRenewal, AtWork
  <2>2. /\ queue = {} /\ job["saver"].pc = "idle" /\ written = next
        /\ file.in = In(mem) /\ file.active = mem.active
        /\ \A a \in In(mem) : Renewed(a)
    BY <2>1, Settled DEF Awake
  <2>3. job["renewal"].pc = "idle" /\ job["skins"].pc = "idle"
    BY <2>1 DEF Alone, Busy
  <2>4. \A a \in In(mem) : keyring[a] = newest[a]
    BY <2>2, <2>3 DEF Renewed
  <2>5. Reloaded("renewal")' /\ Reloaded("skins")'
    BY <2>1, <2>3 DEF Reloaded, Saving
  <2>6. ASSUME Current(mem)', In(mem') = In(mem), mem'.active = mem.active PROVE Awake'
    <3>1. LastIsMem'
      BY <1>1, <2>1, <2>2, <2>4, <2>6 DEF LastIsMem, Renewed, Busy
    <3> QED
      BY <2>1, <2>5, <2>6, <3>1 DEF Awake, MemIsCurrent
  <2>7. CASE \E r \in result : r.ok
    <3>1. PICK r \in result : r.ok
      BY <2>7
    <3>2. mem' = KeepActive(r.st)
      BY <1>5, <3>1 DEF PollRenewal
    <3>3. Current(r.st) /\ r.st.active = file.active /\ In(r.st) = In(mem) /\ r.st \in AnyState
      BY <3>1 DEF Awake, NobodyInTheWay
    <3>4. mem'.tok = r.st.tok /\ mem'.active = mem.active
      BY <2>2, <3>2, <3>3 DEF KeepActive, AnyState
    <3>5. In(mem') = In(r.st)
      BY <3>4 DEF In
    <3>6. Current(mem)'
      BY <1>1, <2>1, <3>3, <3>4 DEF Current, In
    <3> QED
      BY <2>6, <3>3, <3>4, <3>5, <3>6
  <2>8. CASE ~\E r \in result : r.ok
    <3>1. mem' = mem
      BY <1>5, <2>8 DEF PollRenewal
    <3>2. Current(mem)
      BY <2>3, <2>8 DEF Awake, MemIsCurrent, Saving
    <3>3. Current(mem)'
      BY <1>1, <2>1, <3>1, <3>2 DEF Current
    <3> QED
      BY <2>6, <3>1, <3>3
  <2> QED
    BY <2>7, <2>8
<1>6. ASSUME NEW w \in {"renewal", "skins"}, To(w, "file")
      PROVE  job'[w].pc = "file" /\ \A v \in Workers \ {w} : job'[v] = job[v]
  BY <1>6 DEF To, Job
<1>7. CASE StartSkins
  <2>1. /\ job["skins"].pc = "idle" /\ job'["skins"].pc = "file"
        /\ \A v \in Workers \ {"skins"} : job'[v] = job[v]
    BY <1>6, <1>7 DEF StartSkins, Busy
  <2> QED
    BY <1>1, <1>7, <2>1, QuietAwake DEF StartSkins, ui
<1>8. ASSUME NEW a \in Accounts, RefreshAccount(a) PROVE Awake'
  <2>1. /\ job["renewal"].pc = "idle" /\ job'["renewal"].pc = "file"
        /\ \A v \in Workers \ {"renewal"} : job'[v] = job[v]
    BY <1>6, <1>8 DEF RefreshAccount, StartRenewal, AtWork, Busy
  <2> QED
    BY <1>1, <1>8, <2>1, QuietAwake DEF RefreshAccount, disk
<1>9. ASSUME newest' = newest, Current(mem), \A a \in Accounts : mem'.tok[a] = mem.tok[a] \/ mem'.tok[a] = Absent
      PROVE  Current(mem)'
  BY <1>1, <1>9 DEF Current, In
<1>10. ASSUME NEW a \in Accounts, SelectAccount(a) PROVE Awake'
  <2>1. /\ mem' = [mem EXCEPT !.active = a] /\ Queue(mem') /\ written' = written /\ newest' = newest
        /\ result' = result /\ (job' = job \/ job'["renewal"].pc = "file")
    BY <1>6, <1>10 DEF SelectAccount, StartRenewal
  <2>2. Current(mem)
    BY <1>2, <2>1
  <2>3. mem'.tok = mem.tok
    BY <2>1 DEF AnyState
  <2>4. Current(mem)'
    BY <1>9, <2>1, <2>2, <2>3
  <2> QED
    BY <2>1, <2>4, AskAwake
<1>11. ASSUME NEW a \in Accounts, RemoveAccount(a) PROVE Awake'
  <2>1. Queue(mem') /\ written' = written /\ newest' = newest /\ result' = result /\ job' = job
    BY <1>11 DEF RemoveAccount
  <2>2. PICK b \in ActiveWithout(a) : mem' = [tok |-> [mem.tok EXCEPT ![a] = Absent], active |-> b]
    BY <1>11 DEF RemoveAccount
  <2>3. mem'.tok = [mem.tok EXCEPT ![a] = Absent] /\ mem.tok \in [Accounts -> Int]
    BY <2>2 DEF AnyState
  <2>4. \A c \in Accounts : mem'.tok[c] = mem.tok[c] \/ mem'.tok[c] = Absent
    BY <2>3
  <2>5. Current(mem)
    BY <1>2, <2>1
  <2>6. Current(mem)'
    BY <1>9, <2>1, <2>4, <2>5
  <2> QED
    BY <2>1, <2>6, AskAwake
<1> QED
  BY <1>3, <1>4, <1>5, <1>7, <1>8, <1>10, <1>11

\* A renewal gets new tokens, which it will store.
LEMMA RefreshAwake ==
    ASSUME Typed, AtWork, AtWork', Alone, Alone', Refresh, Awake
    PROVE  Awake'
<1> USE Facts, Names
<1> DEFINE st == job["renewal"].st
<1>1. /\ job["renewal"].pc = "refresh" /\ \A v \in Workers \ {"renewal"} : job'[v] = job[v]
      /\ UNCHANGED <<session, mem, flow, renewal, queue, next, written, disk, excused>>
  BY RefreshMoves
<1>2. /\ queue = {} /\ job["saver"].pc = "idle" /\ written = next
      /\ file.in = In(mem) /\ file.active = mem.active
      /\ \A a \in In(mem) : Renewed(a)
  BY <1>1, Settled DEF Awake, Busy
<1>3. /\ \A a \in In(mem) : keyring[a] = newest[a]
      /\ result = {} /\ job["skins"].pc = "idle" /\ Current(st) /\ st.active = file.active
      /\ st.tok \in [Accounts -> Int]
  BY <1>1, <1>2 DEF Renewed, AtWork, Alone, Busy, Awake, Reloaded, Job, AnyState
<1>4. Reloaded("skins")' /\ file' = file /\ keyring' = keyring
  BY <1>1, <1>3 DEF Reloaded, Saving, disk
<1>5. PICK tok \in [Accounts -> Int] :
        /\ \A a \in Accounts : \/ newest'[a] = newest[a] /\ tok[a] = st.tok[a]
                               \/ newest'[a] = newest[a] + 1 /\ tok[a] = newest'[a] /\ st.tok[a] > 0
        /\ \/ /\ job'["renewal"].pc = "previous" /\ result' = result
              /\ job'["renewal"].st.tok = tok /\ job'["renewal"].st.active = st.active
           \/ /\ job'["renewal"].pc = "idle" /\ newest' = newest
              /\ \A r \in result' : r.ok => r.st = st
  BY RefreshMoves
<1>6. ASSUME \A a \in In(mem) : Renewed(a)' PROVE LastIsMem'
  BY <1>1, <1>2, <1>4, <1>6 DEF LastIsMem, Busy
<1>7. CASE /\ job'["renewal"].pc = "previous" /\ result' = result
           /\ job'["renewal"].st.tok = tok /\ job'["renewal"].st.active = st.active
  <2>1. \A a \in Accounts : \/ newest'[a] = newest[a] /\ tok[a] = st.tok[a]
                            \/ tok[a] = newest'[a]
    BY <1>5
  <2>2. ASSUME NEW a \in In(job'["renewal"].st)
        PROVE  tok[a] = newest'[a] \/ (tok[a] = Unread /\ keyring'[a] = newest'[a])
    <3>1. a \in Accounts /\ tok[a] # Absent
      BY <1>7, <2>2 DEF In
    <3>2. CASE newest'[a] = newest[a] /\ tok[a] = st.tok[a]
      <4>1. a \in In(st)
        BY <3>1, <3>2 DEF In
      <4> QED
        BY <1>3, <1>4, <3>2, <4>1 DEF Current
    <3> QED
      BY <2>1, <3>1, <3>2
  <2>3. Reloaded("renewal")'
    BY <1>3, <1>4, <1>7, <2>2 DEF Reloaded, Current
  <2>4. LastIsMem'
    BY <1>6, <1>7 DEF Renewed
  <2>5. MemIsCurrent'
    BY <1>7 DEF MemIsCurrent, Saving
  <2> QED
    BY <1>3, <1>4, <1>7, <2>3, <2>4, <2>5 DEF Awake
<1>8. CASE /\ job'["renewal"].pc = "idle" /\ newest' = newest
           /\ \A r \in result' : r.ok => r.st = st
  <2>1. Current(mem)
    BY <1>1, <1>3 DEF Awake, MemIsCurrent, Saving
  <2>2. MemIsCurrent'
    BY <1>1, <1>4, <1>8, <2>1 DEF MemIsCurrent, Current
  <2>3. LastIsMem'
    BY <1>1, <1>3, <1>4, <1>6, <1>8 DEF Renewed
  <2>4. Reloaded("renewal")'
    BY <1>8 DEF Reloaded, Saving
  <2>5. ASSUME NEW r \in result', r.ok PROVE Current(r.st)' /\ r.st.active = file'.active
    BY <1>3, <1>4, <1>8, <2>5 DEF Current
  <2> QED
    BY <1>4, <2>2, <2>3, <2>4, <2>5 DEF Awake
<1> QED
  BY <1>5, <1>7, <1>8

\* A save begins, or one that was overtaken is dropped: never the last.
LEMMA BeginAwake ==
    ASSUME Typed, AtWork, AtWork', Numbered, Alone, Awake, NEW r \in queue, BeginSave(r)
    PROVE  Awake'
<1> USE Facts, Names
<1>1. /\ ~Busy("saver") /\ queue' = queue \ {r}
      /\ UNCHANGED <<session, mem, flow, renewal, result, next, file, keyring, newest>>
  BY DEF BeginSave, disk
<1>2. job["renewal"].pc = "idle" /\ job["skins"].pc = "idle" /\ result = {}
  BY DEF Alone, AtWork, Busy
<1>3. r.seq \in Nat /\ r.seq <= next /\ r.seq # written /\ written <= next
  BY DEF Numbered
<1>4. \A v \in Workers \ {"saver"} : job'[v] = job[v]
  BY DEF BeginSave
<1>5. Reloaded("renewal")' /\ Reloaded("skins")' /\ MemIsCurrent'
  <2>1. Current(mem)
    BY <1>2 DEF Awake, MemIsCurrent, Saving
  <2> QED
    BY <1>1, <1>2, <1>4, <2>1 DEF Reloaded, MemIsCurrent, Current, Saving
<1>6. \A q \in queue' : q.seq = next' => q.st = mem'
  BY <1>1 DEF Awake, LastIsMem
<1>7. LastIsMem'
  <2>1. CASE Skips(r)
    <3>1. written' = written /\ job' = job /\ r.seq # next
      BY <1>3, <2>1 DEF BeginSave, Skips
    <3>2. ASSUME NEW q \in queue, q.seq = next PROVE q \in queue'
      BY <1>1, <3>1, <3>2
    <3>3. \A a \in Accounts : Renewed(a) => Renewed(a)'
      BY <1>1, <3>1 DEF Renewed
    <3>4. In(mem) \subseteq Accounts
      BY DEF In
    <3> QED
      BY <1>1, <1>6, <3>1, <3>2, <3>3, <3>4 DEF Awake, LastIsMem, Busy
  <2>2. CASE ~Skips(r)
    <3>1. /\ written' = r.seq /\ written < r.seq
          /\ job'["saver"].pc = "previous" /\ job'["saver"].st = r.st
      BY <1>3, <2>2 DEF BeginSave, Skips, Job
    <3>2. written # next
      BY <1>3, <3>1
    <3>3. PICK q \in queue : q.seq = next
      BY <3>2 DEF Awake, LastIsMem
    <3>4. CASE r.seq = next
      BY <1>1, <1>6, <3>1, <3>4 DEF Awake, LastIsMem
    <3>5. CASE r.seq # next
      BY <1>1, <1>6, <3>1, <3>3, <3>5 DEF LastIsMem
    <3> QED
      BY <3>4, <3>5
  <2> QED
    BY <2>1, <2>2
<1> QED
  BY <1>1, <1>2, <1>5, <1>7 DEF Awake

\* The renewal and the skins screen load what is current.
LEMMA ReloadAwake ==
    ASSUME Typed, AtWork, AtWork', ListedKept, Awake, NEW w \in {"renewal", "skins"},
           LoadFile(w) \/ LoadTokens(w)
    PROVE  Awake'
<1> USE Facts, Names
<1>1. /\ w # "saver" /\ w # "loader" /\ job[w].pc \in {"file", "tokens"} /\ Busy(w)
      /\ UNCHANGED <<flow, queue, next, written, file, keyring, newest>>
      /\ \A v \in Workers \ {w} : job'[v] = job[v]
      /\ Opens(w) \/ Misses(w) \/ \E st \in AnyState : Finds(w, st)
  BY LoaderMoves DEF Busy, disk
<1>2. /\ queue = {} /\ job["saver"].pc = "idle" /\ written = next
      /\ file.in = In(mem) /\ file.active = mem.active
      /\ \A a \in In(mem) : Renewed(a)
  BY <1>1, Settled DEF ListedKept, Awake
<1>3. job["renewal"].pc \notin Saving /\ result = {} /\ \A v \in {"renewal", "skins"} : v # w => job[v].pc = "idle"
  BY <1>1 DEF ListedKept, Alone, AtWork, Busy, Saving
<1>4. Current(mem) /\ \A a \in In(mem) : keyring[a] = newest[a]
  BY <1>2, <1>3 DEF Awake, MemIsCurrent, Renewed, Saving
<1>5. ASSUME mem' = mem PROVE LastIsMem'
  BY <1>1, <1>2, <1>4, <1>5 DEF LastIsMem, Renewed, Busy
<1>6. ASSUME mem' = mem, Reloaded(w)', \A r \in result' : ~r.ok PROVE Awake'
  <2>1. Reloaded("renewal")' /\ Reloaded("skins")'
    BY <1>1, <1>3, <1>6 DEF Reloaded, Saving
  <2> QED
    BY <1>1, <1>4, <1>5, <1>6, <2>1 DEF Awake, MemIsCurrent, Current
<1>7. CASE Misses(w)
  <2>1. None.ok = FALSE
    BY DEF None
  <2>2. mem' = mem /\ job'[w].pc = "idle" /\ \A r \in result' : ~r.ok
    BY <1>3, <1>7, <2>1 DEF Misses
  <2> QED
    BY <1>6, <2>2 DEF Reloaded, Saving
<1>8. CASE Opens(w)
  <2>1. mem' = mem /\ job'[w].pc = "tokens" /\ job'[w].st.active = file.active /\ result' = result
    BY <1>8 DEF Opens
  <2>2. Reloaded(w)'
    BY <1>1, <2>1 DEF Reloaded, Saving
  <2> QED
    BY <1>3, <1>6, <2>1, <2>2
<1>9. ASSUME NEW st \in AnyState, Finds(w, st) PROVE Awake'
  <2>1. /\ mem' = mem /\ result' = result /\ job'[w].st = st /\ st.active = job[w].st.active
        /\ job[w].pc = "tokens"
    BY <1>1, <1>9 DEF Finds
  <2>2. job[w].prev = file.in /\ file.whole /\ job[w].st.active = file.active
    BY <2>1 DEF ListedKept, AllRely, Relies, Awake, Reloaded
  <2>3. \A a \in file.in : keyring[a] # 0 /\ keyring[a] = newest[a]
    BY <1>2, <1>4, <2>2 DEF ListedKept, Keyed
  <2>4. ASSUME NEW a \in In(st) PROVE st.tok[a] = newest[a] \/ (st.tok[a] = Unread /\ keyring[a] = newest[a])
    <3>1. a \in file.in
      BY <1>9, <2>2, <2>4 DEF Finds, In
    <3> QED
      BY <1>9, <2>2, <2>3, <3>1 DEF Finds
  <2>5. Reloaded(w)'
    BY <1>1, <2>1, <2>2, <2>4 DEF Reloaded, Current
  <2> QED
    BY <1>3, <1>6, <2>1, <2>5
<1> QED
  BY <1>1, <1>7, <1>8, <1>9

\* The session begins with what is on disk.
LEMMA LoaderFollows ==
    ASSUME Typed, AtWork, AtWork', ListedKept, Asleep, LoadFile("loader") \/ LoadTokens("loader"), excused' = {}
    PROVE  (session' = "on" => Awake') /\ (session' # "on" => Asleep')
<1> USE Facts, Names
<1>1. /\ job["loader"].pc \in {"file", "tokens"} /\ session = "loading"
      /\ UNCHANGED <<flow, queue, next, written, file, keyring, newest>>
      /\ \A v \in Workers \ {"loader"} : job'[v] = job[v] \/ (v = "renewal" /\ job'[v].pc \in {"idle", "file"})
      /\ Opens("loader") \/ Misses("loader") \/ \E st \in AnyState : Finds("loader", st)
  BY LoaderMoves DEF AtWork, Busy, disk
<1>2. /\ queue = {} /\ next = 0 /\ written = 0 /\ result = {}
      /\ job["saver"].pc = "idle" /\ job["skins"].pc = "idle" /\ job["renewal"].pc = "idle"
  BY <1>1 DEF AtWork, Busy
<1>3. ~Misses("loader")
  BY DEF Misses
<1>4. CASE Opens("loader")
  BY <1>1, <1>4 DEF Opens, Asleep
<1>5. ASSUME NEW st \in AnyState, Finds("loader", st) PROVE session' = "on" /\ Awake'
  <2>1. /\ mem' = st /\ session' = "on" /\ result' = {} /\ st.active = job["loader"].st.active
        /\ job["loader"].pc = "tokens"
    BY <1>2, <1>5 DEF Finds
  <2>2. /\ job["loader"].prev = file.in /\ file.whole /\ job["loader"].st.active = file.active
        /\ file.in \subseteq Accounts
    BY <2>1 DEF ListedKept, AllRely, Relies, Asleep
  <2>3. \A a \in file.in : keyring[a] # 0 /\ keyring[a] = newest[a]
    BY <2>2 DEF ListedKept, Keyed, Asleep
  <2>4. \A a \in file.in : st.tok[a] = newest[a] \/ st.tok[a] = Unread
    BY <1>5, <2>2, <2>3 DEF Finds
  <2>5. In(st) = file.in
    <3>1. \A a \in file.in : st.tok[a] # Absent
      BY <2>3, <2>4, UnreadNumber DEF Absent
    <3>2. \A a \in Accounts \ file.in : st.tok[a] = Absent
      BY <1>5, <2>2 DEF Finds
    <3> QED
      BY <2>2, <3>1, <3>2 DEF In
  <2>6. Current(mem)'
    BY <1>1, <2>1, <2>3, <2>4, <2>5 DEF Current
  <2>7. job'["saver"].pc = "idle" /\ job'["skins"].pc = "idle" /\ job'["renewal"].pc \in {"idle", "file"}
    BY <1>1, <1>2
  <2>8. LastIsMem'
    BY <1>1, <1>2, <2>1, <2>2, <2>3, <2>5, <2>7 DEF LastIsMem, Renewed, Busy
  <2>9. Reloaded("renewal")' /\ Reloaded("skins")'
    BY <2>7 DEF Reloaded, Saving
  <2> QED
    BY <2>1, <2>6, <2>8, <2>9 DEF Awake, MemIsCurrent
<1> QED
  BY <1>1, <1>3, <1>4, <1>5

\* Every step keeps the last save to come, where nothing raced or failed.
LEMMA FollowsStep ==
    ASSUME Typed, AtWork, AtWork', Numbered, Next, ListedKept, ListedKept', AccountsHold,
           excused' = {}, DiskFollows
    PROVE  DiskFollows'
<1> USE Facts, Names
<1>0. /\ Alone /\ Alone' /\ FileFollows /\ (session = "on" => Awake /\ NobodyInTheWay)
      /\ (session # "on" => Asleep)
  BY DEF ListedKept, DiskFollows, AccountsHold
<1>1. ASSUME NEW w \in Workers, SaveStep(w) PROVE DiskFollows'
  <2>1. w # "loader" /\ Busy(w) /\ session = "on" /\ session' = "on"
    BY <1>1, SaveEffect DEF AtWork, Busy, Saving
  <2>2. \A v \in Workers \ {w} : job[v].pc = "idle"
    BY <1>0, <2>1, OneBusy DEF Busy
  <2>3. \A v \in Workers \ {w} : job[v].pc = "idle" /\ job'[v].pc = "idle"
    BY <1>1, <2>2, SaverMoves DEF Untouched
  <2>4. FileFollows'
    BY <1>0, <1>1, <2>3, FileFollowsSave DEF ListedKept, AllRely
  <2>5. CASE w = "saver"
    BY <1>0, <1>1, <2>1, <2>3, <2>4, <2>5, SaverAwake DEF DiskFollows
  <2>6. CASE w # "saver"
    <3>1. w \in {"renewal", "skins"}
      BY <2>1, <2>6 DEF Workers
    <3> QED
      BY <1>0, <1>1, <2>1, <2>3, <2>4, <3>1, ResaveAwake DEF DiskFollows
  <2> QED
    BY <2>5, <2>6
<1>2. ASSUME NEW w \in Workers, LoadFile(w) \/ LoadTokens(w) PROVE DiskFollows'
  <2>1. /\ w \in {"loader", "renewal", "skins"} /\ job[w].pc \in {"file", "tokens"}
        /\ UNCHANGED disk
        /\ \A v \in Workers \ {w} : job'[v] = job[v] \/ (v = "renewal" /\ job'[v].pc \in {"idle", "file"})
        /\ w # "loader" => \A v \in Workers \ {w} : job'[v] = job[v]
        /\ job'[w].pc \in {"idle", "tokens", "refresh", "previous"}
    BY <1>2, LoaderMoves DEF Opens, Misses, Finds
  <2>2. w = "loader" => session = "loading" /\ job["renewal"].pc = "idle"
    BY <2>1 DEF AtWork, Busy
  <2>3. FileFollows'
    <3>1. ASSUME NEW v \in Workers
          PROVE  \/ job'[v] = job[v]
                 \/ /\ job[v].pc \notin {"store", "write", "delete"}
                    /\ job'[v].pc \notin {"store", "write", "delete"}
      <4>1. CASE v = w
        BY <2>1, <4>1
      <4>2. CASE v # w
        BY <2>1, <2>2, <4>2
      <4> QED
        BY <4>1, <4>2
    <3> QED
      BY <1>0, <2>1, <3>1, FileFollowsKept
  <2>4. CASE w = "loader"
    BY <1>0, <1>2, <2>2, <2>3, <2>4, LoaderFollows DEF DiskFollows
  <2>5. CASE w # "loader"
    <3>1. session = "on" /\ session' = session
      BY <1>2, <2>1, <2>5, LoadEffect DEF AtWork, Busy
    <3> QED
      BY <1>0, <1>2, <2>1, <2>3, <2>5, <3>1, ReloadAwake DEF DiskFollows
  <2> QED
    BY <2>4, <2>5
<1>3. ASSUME NEW w \in Workers \ {"saver"}, To(w, "file"), job[w].pc \notin {"store", "write", "delete"}, UNCHANGED disk
      PROVE  FileFollows'
  <2>1. job'[w].pc = "file" /\ \A v \in Workers \ {w} : job'[v] = job[v]
    BY <1>3 DEF To, Job
  <2> QED
    BY <1>0, <1>3, <2>1, FileFollowsKept
<1>4. ASSUME UNCHANGED <<disk, job>> PROVE FileFollows'
  BY <1>0, <1>4, FileFollowsKept
<1>5. CASE StartSession
  <2>1. FileFollows'
    BY <1>3, <1>5 DEF StartSession, AtWork
  <2>2. Asleep' /\ session' # "on"
    <3>1. job'["loader"].pc = "file" /\ UNCHANGED <<file, keyring, newest>> /\ session # "on" /\ session' = "loading"
      BY <1>5 DEF StartSession, To, Job, disk
    <3> QED
      BY <1>0, <3>1 DEF Asleep
  <2> QED
    BY <2>1, <2>2 DEF DiskFollows
<1>6. ASSUME NEW a \in Accounts, StartRenewal(Accounts) \/ StartRenewal({a}), renewal = {}, UNCHANGED disk
      PROVE  FileFollows'
  <2>1. job["renewal"].pc = "idle"
    BY <1>6 DEF AtWork, Busy
  <2> QED
    BY <1>3, <1>6, <2>1 DEF StartRenewal
<1>7. ASSUME \/ StartSignIn \/ EndSignIn \/ PollRenewal \/ StartSkins
             \/ \E a \in Accounts : SelectAccount(a) \/ RemoveAccount(a) \/ RefreshAccount(a)
      PROVE  DiskFollows'
  <2>1. session = "on" /\ session' = "on"
    BY <1>7 DEF StartSignIn, EndSignIn, PollRenewal, StartSkins, SelectAccount, RemoveAccount, RefreshAccount,
                AtWork, Busy, ui
  <2>2. Awake'
    BY <1>0, <1>7, <2>1, UiAwake
  <2>3. FileFollows'
    <3>1. CASE StartSkins
      <4>1. job["skins"].pc = "idle" /\ To("skins", "file") /\ UNCHANGED disk
        BY <3>1 DEF StartSkins, Busy
      <4> QED
        BY <1>3, <4>1
    <3>2. CASE StartSignIn \/ EndSignIn \/ PollRenewal
      BY <1>4, <3>2 DEF StartSignIn, EndSignIn, PollRenewal
    <3>3. ASSUME NEW a \in Accounts, SelectAccount(a) PROVE FileFollows'
      BY <1>4, <1>6, <3>3 DEF SelectAccount
    <3>4. ASSUME NEW a \in Accounts, RemoveAccount(a) PROVE FileFollows'
      BY <1>4, <3>4 DEF RemoveAccount
    <3>5. ASSUME NEW a \in Accounts, RefreshAccount(a) PROVE FileFollows'
      BY <1>6, <3>5 DEF RefreshAccount
    <3> QED
      BY <1>7, <3>1, <3>2, <3>3, <3>4, <3>5
  <2> QED
    BY <2>1, <2>2, <2>3 DEF DiskFollows
<1>8. CASE Refresh
  <2>1. /\ job["renewal"].pc = "refresh" /\ \A v \in Workers \ {"renewal"} : job'[v] = job[v]
        /\ UNCHANGED <<session, disk>> /\ job'["renewal"].pc \in {"idle", "previous"}
    BY <1>8, RefreshMoves
  <2>2. session = "on" /\ session' = "on"
    BY <2>1 DEF AtWork, Busy
  <2>3. FileFollows'
    BY <1>0, <2>1, FileFollowsKept
  <2> QED
    BY <1>0, <1>8, <2>2, <2>3, RefreshAwake DEF DiskFollows
<1>9. ASSUME NEW r \in queue, BeginSave(r) PROVE DiskFollows'
  <2>1. session = "on" /\ session' = "on" /\ job["saver"].pc = "idle" /\ UNCHANGED disk
    BY <1>9 DEF BeginSave, AtWork, Busy
  <2>2. \/ job' = job
        \/ job'["saver"].pc = "previous" /\ \A v \in Workers \ {"saver"} : job'[v] = job[v]
    BY <1>9 DEF BeginSave, Job
  <2>3. FileFollows'
    BY <1>0, <2>1, <2>2, FileFollowsKept
  <2> QED
    BY <1>0, <1>9, <2>1, <2>3, BeginAwake DEF DiskFollows
<1>10. CASE End
  <2>1. /\ session # "off" /\ session' = "off" /\ UNCHANGED <<file, keyring, newest>>
        /\ queue = {} /\ \A w \in Workers : job[w].pc = "idle" /\ job'[w].pc = "idle"
    BY <1>10 DEF End, Busy, Idle
  <2>2. session = "on"
    BY <2>1 DEF AtWork, Busy
  <2>3. FileFollows'
    BY <1>0, <2>1, FileFollowsKept DEF disk
  <2>4. Asleep'
    BY <1>0, <2>1, <2>2 DEF Asleep, Awake, LastIsMem, Renewed
  <2> QED
    BY <2>1, <2>3, <2>4 DEF DiskFollows
<1> QED
  BY <1>1, <1>2, <1>5, <1>7, <1>8, <1>9, <1>10 DEF Next, Step, SaveStep

\* Nothing is to come at first.
LEMMA FollowsStart == Init => DiskFollows
<1> SUFFICES ASSUME Init PROVE DiskFollows
  OBVIOUS
<1>1. \A w \in Workers : job[w].pc = "idle"
  BY DEF Init, Idle
<1> QED
  BY <1>1, Names DEF Init, DiskFollows, FileFollows, Asleep

\* What the disk has of the accounts, as far as no saver has undone the other's work and
\* nothing has failed.
DiskInv ==
    /\ IInv
    /\ "saves" \notin raced /\ "token deleted" \notin excused => ListedKept
    /\ raced = {} /\ excused = {} => DiskFollows

\* Every step keeps both layers, each as long as it is promised.
LEMMA DiskStep == DiskInv /\ [Next]_vars => DiskInv'
<1>1. ASSUME DiskInv, Next PROVE DiskInv'
  <2>1. IInv /\ IInv'
    BY <1>1, StepIInv DEF DiskInv
  <2>2. Typed /\ AtWork /\ AtWork' /\ Numbered
    BY <2>1 DEF IInv
  <2>3. excused \subseteq excused' /\ raced \subseteq raced'
    BY <1>1, <2>2, ExcusedGrows DEF Next
  <2>4. ASSUME "saves" \notin raced', "token deleted" \notin excused' PROVE ListedKept /\ ListedKept'
    <3>1. ListedKept
      BY <1>1, <2>3, <2>4 DEF DiskInv
    <3> QED
      BY <1>1, <2>2, <2>4, <3>1, ListedStep
  <2>5. ASSUME raced' = {}, excused' = {} PROVE DiskFollows'
    <3>1. DiskFollows /\ AccountsHold
      BY <1>1, <2>1, <2>3, <2>5 DEF DiskInv, IInv
    <3> QED
      BY <1>1, <2>2, <2>4, <2>5, <3>1, FollowsStep
  <2> QED
    BY <2>1, <2>4, <2>5 DEF DiskInv
<1>2. ASSUME DiskInv, UNCHANGED vars PROVE DiskInv'
  <2>1. IInv'
    BY <1>2, StepIInv DEF DiskInv
  <2>2. ListedKept => ListedKept'
    BY <1>2 DEF ListedKept, Alone, Keyed, Queued, AllRely, Relies, Resaves, Backed, Busy, vars
  <2>3. DiskFollows => DiskFollows'
    BY <1>2 DEF DiskFollows, FileFollows, Awake, Asleep, LastIsMem, MemIsCurrent, Reloaded, Renewed, Current, Busy, vars
  <2> QED
    BY <1>2, <2>1, <2>2, <2>3 DEF DiskInv, vars
<1> QED
  BY <1>1, <1>2

\* The two layers are what the runs check.
LEMMA DiskProperties == DiskInv => DiskIsRight
<1> SUFFICES ASSUME DiskInv PROVE DiskIsRight
  OBVIOUS
<1>0. Typed
  BY DEF DiskInv, IInv
<1> USE <1>0, Facts, Names
<1>1. ListedHasToken
  BY DEF DiskInv, ListedKept, Keyed, ListedHasToken
<1>2. ASSUME session = "on", excused = {}, raced = {}, queue = {}, renewal = {}, \A w \in Workers : ~Busy(w)
      PROVE  /\ file.whole /\ file.in = In(mem) /\ file.active = mem.active
             /\ \A a \in Accounts : keyring[a] = IF a \in In(mem) THEN newest[a] ELSE 0
  <2>1. FileFollows /\ LastIsMem
    BY <1>2 DEF DiskInv, DiskFollows, Awake
  <2>2. \A w \in Workers : job[w].pc = "idle"
    BY <1>2 DEF Busy
  <2>3. /\ file.in = In(mem) /\ file.active = mem.active /\ \A a \in In(mem) : keyring[a] = newest[a]
    BY <1>2, <2>1, <2>2 DEF LastIsMem, Renewed
  <2>4. file.whole /\ \A a \in Accounts : keyring[a] # 0 => a \in file.in
    BY <2>1, <2>2 DEF FileFollows
  <2> QED
    BY <2>3, <2>4
<1> QED
  BY <1>1, <1>2 DEF DiskIsRight, DiskIsMemory

\* With nothing in flight the file lists the accounts in memory and the keyring holds the
\* newest token of each, and of no other account, unless a save failed or savers raced; and
\* an account in the file has a token, wherever a save fails or the process ends, unless
\* savers raced or a storing was cut (cache::save_cached_accounts and the background saves).
THEOREM DiskIsTrue == Spec => []DiskIsRight
<1>1. Init => DiskInv
  BY InitIInv, ListedStart, FollowsStart DEF DiskInv
<1> QED
  BY <1>1, DiskStep, DiskProperties, PTL DEF Spec
-----------------------------------------------------------------------------
(* Where refresh tokens are kept (TokenStore).                              *)

TokensTyped ==
    /\ entry \in [Accounts -> Int]
    /\ legacy \in [Accounts -> Nat] /\ tokens \in [Accounts -> Nat] /\ latest \in [Accounts -> Nat]
    /\ issued \in Nat
    /\ doubt = [a \in Accounts |-> doubt[a]]

TokenInv == TokensTyped /\ T!TokensFollow

\* What deleting an entry may leave of it.
LEMMA DeletedEntry ==
    ASSUME NEW value, NEW d \in T!Deleted(value)
    PROVE  d.ok \in BOOLEAN /\ d.left \in {0, value} /\ (up /\ d.ok => d.left = 0)
<1>1. \/ up /\ d = [left |-> 0, ok |-> TRUE]
      \/ ~up /\ d = [left |-> value, ok |-> TRUE]
      \/ d = [left |-> value, ok |-> FALSE]
  BY DEF T!Deleted
<1>2. CASE up /\ d = [left |-> 0, ok |-> TRUE]
  BY <1>2
<1>3. CASE ~up /\ d = [left |-> value, ok |-> TRUE]
  BY <1>3
<1>4. CASE d = [left |-> value, ok |-> FALSE]
  BY <1>4
<1> QED
  BY <1>1, <1>2, <1>3, <1>4

\* What storing a token in the keyring may leave there: the token, alone or beside the legacy
\* one; or, when it fails, the legacy one and no other token than these.
LEMMA StoredInKeyring ==
    ASSUME NEW a \in Accounts, NEW token \in Nat \ {0}, NEW k \in T!KeyringStored(a, token),
           TokensTyped
    PROVE  /\ k.ok \in BOOLEAN
           /\ k.ok => k.entry = token /\ k.legacy \in {0, legacy[a]}
           /\ ~k.ok => k.entry \in {0, token, entry[a]} /\ k.legacy = legacy[a]
<1>1. \/ \E d \in T!Deleted(legacy[a]) : k = [entry |-> token, legacy |-> d.left, ok |-> TRUE]
      \/ \E e \in T!BadlyWritten(token) : k = [entry |-> e, legacy |-> legacy[a], ok |-> FALSE]
      \/ k = [entry |-> entry[a], legacy |-> legacy[a], ok |-> FALSE]
  BY DEF T!KeyringStored
<1>2. CASE \E d \in T!Deleted(legacy[a]) : k = [entry |-> token, legacy |-> d.left, ok |-> TRUE]
  BY <1>2, DeletedEntry
<1>3. CASE \E e \in T!BadlyWritten(token) : k = [entry |-> e, legacy |-> legacy[a], ok |-> FALSE]
  BY <1>3 DEF T!BadlyWritten
<1>4. CASE k = [entry |-> entry[a], legacy |-> legacy[a], ok |-> FALSE]
  BY <1>4
<1> QED
  BY <1>1, <1>2, <1>3, <1>4

\* Asking the keyring for a token leaves what would be found there.
LEMMA LoadedFromKeyring ==
    ASSUME NEW a \in Accounts, NEW k \in T!KeyringLoaded(a), TokensTyped
    PROVE  /\ k.entry \in Int /\ k.legacy \in Nat
           /\ (IF k.entry > 0 THEN k.entry ELSE k.legacy)
                = (IF entry[a] > 0 THEN entry[a] ELSE legacy[a])
           /\ k.got = "present" => entry[a] > 0 \/ legacy[a] > 0
<1>1. CASE ~up \/ entry[a] > 0
  BY <1>1 DEF T!KeyringLoaded, TokensTyped
<1>2. CASE up /\ ~(entry[a] > 0) /\ legacy[a] = 0
  BY <1>2 DEF T!KeyringLoaded, T!LegacyLoaded, TokensTyped
<1>3. CASE up /\ ~(entry[a] > 0) /\ legacy[a] > 0
  <2>1. k \in T!LegacyLoaded(a)
    BY <1>3 DEF T!KeyringLoaded
  <2>2. PICK s \in T!KeyringStored(a, legacy[a]) : k.entry = s.entry /\ k.legacy = s.legacy
    BY <1>3, <2>1 DEF T!LegacyLoaded, TokensTyped
  <2>3. legacy[a] \in Nat \ {0} /\ entry[a] \in Int
    BY <1>3 DEF TokensTyped
  <2>4. /\ s.ok \in BOOLEAN
        /\ s.ok => s.entry = legacy[a] /\ s.legacy \in {0, legacy[a]}
        /\ ~s.ok => s.entry \in {0, legacy[a], entry[a]} /\ s.legacy = legacy[a]
    BY <2>3, StoredInKeyring
  <2> QED
    BY <1>3, <2>2, <2>3, <2>4
<1> QED
  BY <1>1, <1>2, <1>3 DEF TokensTyped

\* A step that touches one account's tokens keeps the others' found.
Touched(a) ==
    \A b \in Accounts \ {a} :
        /\ entry'[b] = entry[b] /\ legacy'[b] = legacy[b] /\ tokens'[b] = tokens[b]
        /\ latest'[b] = latest[b] /\ doubt'[b] = doubt[b]

LEMMA OthersFollow ==
    ASSUME TokenInv, NEW a \in Accounts, Touched(a), doubt'[a] = {} => (T!Found(a))' = latest'[a]
    PROVE  T!TokensFollow'
<1> SUFFICES ASSUME NEW b \in Accounts, doubt'[b] = {} PROVE (T!Found(b))' = latest'[b]
  BY DEF T!TokensFollow
<1>1. CASE b # a
  <2>1. (T!Found(b))' = T!Found(b)
    BY <1>1 DEF Touched, T!Found, T!FromFile
  <2> QED
    BY <1>1, <2>1 DEF Touched, TokenInv, T!TokensFollow
<1> QED
  BY <1>1

LEMMA StoreSecureKeeps ==
    ASSUME TokenInv, NEW a \in Accounts, T!StoreToken(a), T!StoreSecure(a, issued')
    PROVE  TokenInv'
<1>1. issued' \in Nat \ {0} /\ latest' = [latest EXCEPT ![a] = issued']
  BY DEF T!StoreToken, TokenInv, TokensTyped
<1>2. PICK k \in T!KeyringStored(a, issued'), removed \in BOOLEAN :
         /\ T!Keyring(a, k)
         /\ tokens' = IF k.ok THEN T!TakenBack(a, removed) ELSE tokens
         /\ T!Why(a, IF ~k.ok THEN {"failed"}
                   ELSE IF tokens[a] # 0 /\ ~removed THEN {"kept in the file"} ELSE {})
  BY DEF T!StoreSecure
<1>3. /\ k.ok \in BOOLEAN
      /\ k.ok => k.entry = issued' /\ k.legacy \in {0, legacy[a]}
      /\ ~k.ok => k.entry \in {0, issued', entry[a]} /\ k.legacy = legacy[a]
  BY <1>1, StoredInKeyring DEF TokenInv
<1>4. TokensTyped'
  <2>1. tokens' \in {tokens, [tokens EXCEPT ![a] = 0]}
    BY <1>2 DEF T!TakenBack
  <2>2. k.entry \in Int /\ k.legacy \in Nat
    BY <1>1, <1>3 DEF TokenInv, TokensTyped
  <2>3. \E r : doubt' = [doubt EXCEPT ![a] = r]
    BY <1>2 DEF T!Why
  <2>4. T!Keyring(a, k)
    BY <1>2
  <2> QED
    BY <1>1, <2>1, <2>2, <2>3, <2>4 DEF TokenInv, TokensTyped, T!Keyring
<1>5. Touched(a)
  BY <1>1, <1>2 DEF TokenInv, TokensTyped, Touched, T!Keyring, T!Why, T!TakenBack
<1>6. ASSUME doubt'[a] = {} PROVE (T!Found(a))' = latest'[a]
  <2>1. k.ok /\ tokens'[a] = 0 /\ entry'[a] = issued'
    BY <1>1, <1>2, <1>3, <1>6 DEF TokenInv, TokensTyped, T!Keyring, T!Why, T!TakenBack
  <2> QED
    BY <1>1, <2>1 DEF TokenInv, TokensTyped, T!Found, T!FromFile
<1> QED
  BY <1>4, <1>5, <1>6, OthersFollow DEF TokenInv

LEMMA StoreInsecureKeeps ==
    ASSUME TokenInv, NEW a \in Accounts, T!StoreToken(a), T!StoreInsecure(a, issued')
    PROVE  TokenInv'
<1>0. UNCHANGED <<entry, legacy>>
  BY DEF T!StoreInsecure
<1>1. issued' \in Nat \ {0} /\ latest' = [latest EXCEPT ![a] = issued'] /\ UNCHANGED <<entry, legacy>>
  BY <1>0 DEF T!StoreToken, TokenInv, TokensTyped
<1>2. CASE tokens' = [tokens EXCEPT ![a] = issued'] /\ T!Why(a, {})
  <2>1. TokensTyped' /\ Touched(a) /\ tokens'[a] = issued' /\ latest'[a] = issued'
    BY <1>1, <1>2 DEF TokenInv, TokensTyped, Touched, T!Why
  <2> QED
    BY <1>1, <2>1, OthersFollow DEF TokenInv, T!Found, T!FromFile
<1>3. CASE /\ tokens' = [T!NoTokens EXCEPT ![a] = issued']
           /\ doubt' = [b \in Accounts |-> IF b = a THEN {}
                          ELSE doubt[b] \cup IF tokens[b] = 0 THEN {} ELSE {"file unread"}]
  <2>1. TokensTyped'
    BY <1>1, <1>3 DEF TokenInv, TokensTyped, T!NoTokens
  <2>2. ASSUME NEW b \in Accounts, doubt'[b] = {} PROVE (T!Found(b))' = latest'[b]
    <3>1. CASE b = a
      BY <1>1, <1>3, <3>1 DEF TokenInv, TokensTyped, T!NoTokens, T!Found, T!FromFile
    <3>2. CASE b # a
      <4>1. tokens[b] = 0 /\ tokens'[b] = 0 /\ doubt[b] = {} /\ latest'[b] = latest[b]
        BY <1>1, <1>3, <2>2, <3>2 DEF TokenInv, TokensTyped, T!NoTokens
      <4> QED
        BY <1>1, <4>1 DEF TokenInv, T!TokensFollow, T!Found, T!FromFile
    <3> QED
      BY <3>1, <3>2
  <2> QED
    BY <2>1, <2>2 DEF TokenInv, T!TokensFollow
<1>4. CASE UNCHANGED tokens /\ T!Why(a, {"failed"})
  <2>1. TokensTyped' /\ Touched(a) /\ doubt'[a] # {}
    BY <1>1, <1>4 DEF TokenInv, TokensTyped, Touched, T!Why
  <2> QED
    BY <2>1, OthersFollow DEF TokenInv
<1> QED
  BY <1>2, <1>3, <1>4 DEF T!StoreInsecure

LEMMA LoadFromFileKeeps ==
    ASSUME TokenInv, NEW a \in Accounts, T!LoadToken(a), T!LoadFromFile(a)
    PROVE  TokenInv'
<1>1. UNCHANGED <<issued, latest>> /\ tokens[a] # 0
  BY DEF T!LoadToken, T!LoadFromFile, T!FromFile
<1>2. CASE UNCHANGED <<entry, legacy, tokens, doubt>>
  BY <1>1, <1>2 DEF TokenInv, TokensTyped, T!TokensFollow, T!Found, T!FromFile
<1>3. CASE \E k \in T!KeyringStored(a, tokens[a]), removed \in BOOLEAN :
             /\ T!Keyring(a, k)
             /\ tokens' = IF k.ok THEN T!TakenBack(a, removed) ELSE tokens
             /\ T!Why(a, doubt[a] \cup IF k.ok /\ ~removed THEN {"kept in the file"} ELSE {})
  <2>1. PICK k \in T!KeyringStored(a, tokens[a]), removed \in BOOLEAN :
             /\ T!Keyring(a, k)
             /\ tokens' = IF k.ok THEN T!TakenBack(a, removed) ELSE tokens
             /\ T!Why(a, doubt[a] \cup IF k.ok /\ ~removed THEN {"kept in the file"} ELSE {})
    BY <1>3
  <2>2. tokens[a] \in Nat \ {0}
    BY <1>1 DEF TokenInv, TokensTyped
  <2>3. /\ k.ok \in BOOLEAN
        /\ k.ok => k.entry = tokens[a] /\ k.legacy \in {0, legacy[a]}
        /\ ~k.ok => k.entry \in {0, tokens[a], entry[a]} /\ k.legacy = legacy[a]
    BY <2>2, StoredInKeyring DEF TokenInv
  <2>4. TokensTyped'
    <3>1. tokens' \in {tokens, [tokens EXCEPT ![a] = 0]}
      BY <2>1 DEF T!TakenBack
    <3>2. k.entry \in Int /\ k.legacy \in Nat
      BY <2>2, <2>3 DEF TokenInv, TokensTyped
    <3>3. \E r : doubt' = [doubt EXCEPT ![a] = r]
      BY <2>1 DEF T!Why
    <3>4. T!Keyring(a, k)
      BY <2>1
    <3> QED
      BY <1>1, <3>1, <3>2, <3>3, <3>4 DEF TokenInv, TokensTyped, T!Keyring
  <2>5. Touched(a)
    BY <1>1, <2>1 DEF TokenInv, TokensTyped, Touched, T!Keyring, T!Why, T!TakenBack
  <2>6. ASSUME doubt'[a] = {} PROVE (T!Found(a))' = latest'[a]
    <3>1. doubt[a] = {} /\ (k.ok => removed)
      BY <2>1, <2>3, <2>6 DEF TokenInv, TokensTyped, T!Why
    <3>2. tokens[a] = latest[a]
      BY <1>1, <3>1 DEF TokenInv, T!TokensFollow, T!Found, T!FromFile
    <3>3. CASE k.ok
      <4>1. tokens'[a] = 0 /\ entry'[a] = tokens[a]
        BY <2>1, <2>3, <3>1, <3>3 DEF TokenInv, TokensTyped, T!Keyring, T!TakenBack
      <4> QED
        BY <1>1, <2>2, <3>2, <4>1 DEF T!Found, T!FromFile
    <3>4. CASE ~k.ok
      BY <1>1, <2>1, <3>2, <3>4 DEF T!Found, T!FromFile
    <3> QED
      BY <2>3, <3>3, <3>4
  <2> QED
    BY <2>4, <2>5, <2>6, OthersFollow DEF TokenInv
<1> QED
  BY <1>2, <1>3 DEF T!LoadFromFile

LEMMA LoadFromKeyringKeeps ==
    ASSUME TokenInv, NEW a \in Accounts, T!LoadToken(a), T!LoadFromKeyring(a)
    PROVE  TokenInv'
<1>1. UNCHANGED <<issued, latest, doubt>> /\ tokens[a] = 0
  BY DEF T!LoadToken, T!LoadFromKeyring, T!FromFile
<1> DEFINE token == IF entry[a] > 0 THEN entry[a] ELSE legacy[a]
<1>2. PICK k \in T!KeyringLoaded(a), copied \in BOOLEAN :
         /\ T!Keyring(a, k)
         /\ tokens' = IF insecure /\ k.got = "present" /\ copied
                      THEN [tokens EXCEPT ![a] = token] ELSE tokens
  BY DEF T!LoadFromKeyring
<1>3. /\ k.entry \in Int /\ k.legacy \in Nat
      /\ (IF k.entry > 0 THEN k.entry ELSE k.legacy) = token
      /\ k.got = "present" => token \in Nat \ {0}
  <2>1. entry[a] \in Int /\ legacy[a] \in Nat
    BY DEF TokenInv, TokensTyped
  <2> QED
    BY <2>1, LoadedFromKeyring DEF TokenInv
<1>4. TokensTyped'
  BY <1>1, <1>2, <1>3 DEF TokenInv, TokensTyped, T!Keyring
<1>5. Touched(a)
  BY <1>1, <1>2 DEF TokenInv, TokensTyped, Touched, T!Keyring
<1>6. (T!Found(a))' = T!Found(a)
  <2>1. entry'[a] = k.entry /\ legacy'[a] = k.legacy /\ tokens'[a] \in {0, token}
    BY <1>1, <1>2 DEF TokenInv, TokensTyped, T!Keyring
  <2>2. T!Found(a) = token
    BY <1>1 DEF T!Found, T!FromFile
  <2> HIDE DEF token
  <2> QED
    BY <1>3, <2>1, <2>2 DEF T!Found, T!FromFile
<1> QED
  BY <1>1, <1>4, <1>5, <1>6, OthersFollow DEF TokenInv, T!TokensFollow

LEMMA DeleteKeeps ==
    ASSUME TokenInv, NEW a \in Accounts, T!DeleteToken(a)
    PROVE  TokenInv'
<1>1. latest' = [latest EXCEPT ![a] = 0] /\ UNCHANGED issued
  BY DEF T!DeleteToken
<1>2. CASE T!Why(a, {"not deleted"}) /\ UNCHANGED <<entry, legacy, tokens>>
  <2>1. TokensTyped' /\ Touched(a) /\ doubt'[a] # {}
    BY <1>1, <1>2 DEF TokenInv, TokensTyped, Touched, T!Why
  <2> QED
    BY <2>1, OthersFollow DEF TokenInv
<1>3. CASE \E e \in T!Deleted(entry[a]), l \in T!Deleted(legacy[a]) :
            /\ tokens' = [tokens EXCEPT ![a] = 0]
            /\ entry' = [entry EXCEPT ![a] = e.left]
            /\ legacy' = IF ~e.ok THEN legacy ELSE [legacy EXCEPT ![a] = l.left]
            /\ T!Why(a, IF up /\ e.ok /\ l.ok THEN {} ELSE {"not deleted"})
  <2>1. PICK e \in T!Deleted(entry[a]), l \in T!Deleted(legacy[a]) :
            /\ tokens' = [tokens EXCEPT ![a] = 0]
            /\ entry' = [entry EXCEPT ![a] = e.left]
            /\ legacy' = IF ~e.ok THEN legacy ELSE [legacy EXCEPT ![a] = l.left]
            /\ T!Why(a, IF up /\ e.ok /\ l.ok THEN {} ELSE {"not deleted"})
    BY <1>3
  <2>2. /\ e.ok \in BOOLEAN /\ e.left \in {0, entry[a]} /\ (up /\ e.ok => e.left = 0)
        /\ l.ok \in BOOLEAN /\ l.left \in {0, legacy[a]} /\ (up /\ l.ok => l.left = 0)
    BY DeletedEntry
  <2>3. TokensTyped' /\ Touched(a)
    <3>1. legacy' \in {legacy, [legacy EXCEPT ![a] = l.left]}
      BY <2>1
    <3>2. e.left \in Int /\ l.left \in Nat
      BY <2>2 DEF TokenInv, TokensTyped
    <3>3. TokensTyped'
      BY <1>1, <2>1, <3>1, <3>2 DEF TokenInv, TokensTyped, T!Why
    <3> QED
      BY <1>1, <2>1, <3>1, <3>3 DEF TokenInv, TokensTyped, Touched, T!Why
  <2>4. ASSUME doubt'[a] = {} PROVE (T!Found(a))' = latest'[a]
    <3>1. tokens'[a] = 0 /\ entry'[a] = 0 /\ legacy'[a] = 0 /\ latest'[a] = 0
      BY <1>1, <2>1, <2>2, <2>4 DEF TokenInv, TokensTyped, T!Why
    <3> QED
      BY <3>1 DEF T!Found, T!FromFile
  <2> QED
    BY <2>3, <2>4, OthersFollow DEF TokenInv
<1>4. \/ \E left \in T!Forgotten(a), e \in T!Deleted(entry[a]), l \in T!Deleted(legacy[a]) :
            /\ tokens' = IF left.file THEN tokens ELSE [tokens EXCEPT ![a] = 0]
            /\ entry' = IF left.keyring THEN entry ELSE [entry EXCEPT ![a] = e.left]
            /\ legacy' = IF left.keyring \/ ~e.ok THEN legacy ELSE [legacy EXCEPT ![a] = l.left]
            /\ T!Why(a, IF up /\ e.ok /\ l.ok THEN {} ELSE {"not deleted"})
      \/ T!Why(a, {"not deleted"}) /\ UNCHANGED <<entry, legacy, tokens>>
  BY DEF T!DeleteToken
<1>5. ASSUME NEW left \in T!Forgotten(a) PROVE left = [file |-> FALSE, keyring |-> FALSE]
  BY DEF T!Forgotten
<1>6. ASSUME NEW left \in T!Forgotten(a) PROVE ~left.file /\ ~left.keyring
  BY <1>5
<1> QED
  BY <1>2, <1>3, <1>4, <1>6

LEMMA CorruptKeeps ==
    ASSUME TokenInv, NEW a \in Accounts, T!EntryCorrupts(a)
    PROVE  TokenInv'
<1>1. TokensTyped' /\ Touched(a) /\ doubt'[a] # {}
  BY DEF T!EntryCorrupts, T!Corrupt, TokenInv, TokensTyped, Touched, T!Why
<1> QED
  BY <1>1, OthersFollow DEF TokenInv

LEMMA TokenInit == T!StoreInit => TokenInv
BY DEF T!StoreInit, T!NoTokens, TokenInv, TokensTyped, T!TokensFollow, T!Found, T!FromFile

LEMMA TokenStep == TokenInv /\ [T!StoreNext]_storeVars => TokenInv'
<1> SUFFICES ASSUME TokenInv, [T!StoreNext]_storeVars PROVE TokenInv'
  OBVIOUS
<1>1. CASE UNCHANGED <<entry, legacy, tokens, issued, latest, doubt>>
  BY <1>1 DEF TokenInv, TokensTyped, T!TokensFollow, T!Found, T!FromFile
<1>2. ASSUME NEW a \in Accounts, T!StoreToken(a) PROVE TokenInv'
  BY <1>2, StoreSecureKeeps, StoreInsecureKeeps DEF T!StoreToken
<1>3. ASSUME NEW a \in Accounts, T!LoadToken(a) PROVE TokenInv'
  BY <1>3, LoadFromFileKeeps, LoadFromKeyringKeeps DEF T!LoadToken
<1>4. ASSUME NEW a \in Accounts, T!DeleteToken(a) \/ T!EntryCorrupts(a) PROVE TokenInv'
  BY <1>4, DeleteKeeps, CorruptKeeps
<1>5. CASE T!SetInsecure \/ T!KeyringGoes
  BY <1>1, <1>5 DEF T!SetInsecure, T!KeyringGoes
<1>6. CASE UNCHANGED storeVars
  BY <1>1, <1>6 DEF storeVars
<1> QED
  BY <1>2, <1>3, <1>4, <1>5, <1>6 DEF T!StoreNext
-----------------------------------------------------------------------------
(* How an account signs in (SignIn).                                        *)

Words == {"progress", "code", "completed", "failed"}

\* The places of a worker from the moment it has a code or token of its own.
Sure == {"exchange", "xbox", "xboxagain", "xsts", "minecraft", "legacy", "profile", "finish", "done"}
Pcs == {"window", "closed", "listen", "request", "poll", "ended"} \cup Sure

SignInWorker ==
    [kind : {"none", "webview", "browser", "device"}, pc : Pcs, profile : Nat, window : Nat,
     reloaded : BOOLEAN, slot : {"none", "redirect", "cancelled", "blank"}, reached : BOOLEAN,
     shown : BOOLEAN, overtaken : BOOLEAN, own : BOOLEAN, renewable : BOOLEAN]

SignInTyped ==
    /\ started \in 0..MaxSignIns
    /\ interactive \in 0..started /\ device \in 0..started
    /\ worker \in [S!SignIns -> SignInWorker]
    /\ events \in [S!SignIns -> Seq(Words)]
    /\ adopted \in SUBSET (1..started)

Has(sent, event) == \E k \in DOMAIN sent : sent[k] = event

\* What a worker has sent is what has become of it, and what it has is its own.
Honest(i) ==
    /\ Has(events[i], "completed") => worker[i].pc = "done"
    /\ Has(events[i], "failed") => worker[i].pc = "ended"
    /\ worker[i].pc \in Sure => worker[i].own
    /\ worker[i].pc = "done" => S!Acceptable(worker[i])
    /\ worker[i].pc \in {"window", "closed"} /\ worker[i].reached /\ ~worker[i].overtaken
         => worker[i].slot = "redirect"
    /\ worker[i].pc = "window" => ~worker[i].overtaken

\* A worker that has not ended was given up, or is listened to; and once it is done, its
\* account was taken or waits in the channel.
Followed(i) ==
    /\ i > started => worker[i].pc = "ended" /\ events[i] = <<>>
    /\ worker[i].pc # "ended" => i \in adopted \cup dropped \cup {interactive, device}
    /\ worker[i].pc = "done" /\ i \notin adopted \cup dropped => Has(events[i], "completed")
    /\ i \in adopted => worker[i].pc = "done"

SignInInv ==
    /\ SignInTyped /\ S!OneFlow
    /\ \A i \in S!SignIns : Honest(i) /\ Followed(i)

LEMMA SignInProperties == SignInInv => S!SignInIsSound
<1> SUFFICES ASSUME SignInInv PROVE S!SignInIsSound
  OBVIOUS
<1>1. S!TakenIsOwn
  <2> SUFFICES ASSUME NEW i \in adopted
               PROVE  worker[i].own /\ (worker[i].kind # "device" => worker[i].renewable)
    BY DEF S!TakenIsOwn
  <2>1. i \in S!SignIns
    BY MCAccountsAssumption DEF SignInInv, SignInTyped, S!SignIns
  <2>2. Honest(i) /\ Followed(i)
    BY <2>1 DEF SignInInv
  <2> QED
    BY <2>2 DEF Honest, Followed, S!Acceptable, Sure
<1>2. S!NothingLost
  BY DEF SignInInv, Followed, S!NothingLost, S!At, S!Holds, Has
<1>3. S!RedirectWins
  BY DEF SignInInv, Honest, S!RedirectWins, S!At
<1> QED
  BY <1>1, <1>2, <1>3 DEF S!SignInIsSound, SignInInv

LEMMA SignInStart == S!SignInInit => SignInInv
<1> SUFFICES ASSUME S!SignInInit PROVE SignInInv
  OBVIOUS
<1>1. S!NoWorker \in SignInWorker
  BY DEF S!NoWorker, SignInWorker, Pcs
<1>2. SignInTyped /\ S!OneFlow
  BY <1>1, MCAccountsAssumption DEF S!SignInInit, SignInTyped, S!OneFlow, S!SignIns
<1>3. ASSUME NEW i \in S!SignIns PROVE Honest(i) /\ Followed(i)
  <2>1. worker[i] = S!NoWorker /\ events[i] = <<>>
    BY DEF S!SignInInit
  <2>2. ~Has(events[i], "completed") /\ ~Has(events[i], "failed")
    BY <2>1 DEF Has
  <2>3. worker[i].pc = "ended"
    BY <2>1 DEF S!NoWorker
  <2>4. adopted = {}
    BY DEF S!SignInInit
  <2> QED
    BY <2>1, <2>2, <2>3, <2>4 DEF Honest, Followed, Sure
<1> QED
  BY <1>2, <1>3 DEF SignInInv

\* What has been sent after one word more.
LEMMA SentOne ==
    ASSUME NEW s \in Seq(Words), NEW e \in Words
    PROVE  /\ Append(s, e) \in Seq(Words)
           /\ \A x : Has(Append(s, e), x) <=> Has(s, x) \/ x = e
<1> DEFINE t == Append(s, e)
<1>1. /\ t \in Seq(Words) /\ Len(t) = Len(s) + 1 /\ t[Len(t)] = e
      /\ \A k \in 1..Len(s) : t[k] = s[k]
  OBVIOUS
<1>2. /\ Len(s) \in Nat /\ DOMAIN s = 1..Len(s) /\ DOMAIN t = 1..Len(t)
  OBVIOUS
<1> HIDE DEF t
<1>3. ASSUME NEW x, Has(t, x) PROVE Has(s, x) \/ x = e
  <2>1. PICK k \in 1..Len(t) : t[k] = x
    BY <1>2, <1>3 DEF Has
  <2>2. CASE k = Len(t)
    BY <1>1, <2>1, <2>2
  <2>3. CASE k # Len(t)
    <3>1. k \in 1..Len(s)
      BY <1>1, <1>2, <2>1, <2>3
    <3> QED
      BY <1>1, <1>2, <2>1, <3>1 DEF Has
  <2> QED
    BY <2>2, <2>3
<1>4. ASSUME NEW x, Has(s, x) PROVE Has(t, x)
  <2>1. PICK k \in 1..Len(s) : s[k] = x
    BY <1>2, <1>4 DEF Has
  <2>2. k \in 1..Len(t) /\ t[k] = x
    BY <1>1, <1>2, <2>1
  <2> QED
    BY <1>2, <2>2 DEF Has
<1>5. Has(t, e)
  <2>1. Len(t) \in 1..Len(t)
    BY <1>1, <1>2
  <2> QED
    BY <1>1, <1>2, <2>1 DEF Has
<1> QED
  BY <1>1, <1>3, <1>4, <1>5 DEF t

LEMMA SentTwo ==
    ASSUME NEW s \in Seq(Words), NEW e \in Words, NEW f \in Words
    PROVE  /\ s \o <<e, f>> \in Seq(Words)
           /\ \A x : Has(s \o <<e, f>>, x) <=> Has(s, x) \/ x = e \/ x = f
<1>1. s \o <<e, f>> = Append(Append(s, e), f)
  OBVIOUS
<1>2. Append(s, e) \in Seq(Words) /\ \A x : Has(Append(s, e), x) <=> Has(s, x) \/ x = e
  BY SentOne
<1>3. /\ Append(Append(s, e), f) \in Seq(Words)
      /\ \A x : Has(Append(Append(s, e), f), x) <=> Has(Append(s, e), x) \/ x = f
  BY <1>2, SentOne
<1> QED
  BY <1>1, <1>2, <1>3

-----------------------------------------------------------------------------
(* A worker's step: one worker at work goes on, and tells what it comes to. *)

Goes(i) ==
    /\ worker[i].pc \notin {"ended", "done"}
    /\ worker' \in [S!SignIns -> SignInWorker]
    /\ \A j \in S!SignIns \ {i} : worker'[j] = worker[j]

Tells(i) ==
    /\ events' \in [S!SignIns -> Seq(Words)]
    /\ \A j \in S!SignIns \ {i} : events'[j] = events[j]
    /\ Has(events'[i], "completed") <=> worker'[i].pc = "done"
    /\ Has(events'[i], "failed") => worker'[i].pc = "ended"

Works(i) ==
    /\ Goes(i) /\ Tells(i) /\ Honest(i)'
    /\ UNCHANGED <<started, interactive, device, adopted, dropped>>

LEMMA WorksKeeps ==
    ASSUME SignInInv, NEW i \in S!SignIns, Works(i)
    PROVE  SignInInv'
<1>1. SignInTyped' /\ S!OneFlow'
  BY DEF SignInInv, SignInTyped, S!OneFlow, Works, Goes, Tells
<1>2. ASSUME NEW j \in S!SignIns, j # i PROVE Honest(j)' /\ Followed(j)'
  <2>1. worker'[j] = worker[j] /\ events'[j] = events[j]
    BY <1>2 DEF Works, Goes, Tells
  <2>2. Honest(j) /\ Followed(j)
    BY DEF SignInInv
  <2> QED
    BY <2>1, <2>2 DEF Honest, Followed, Works, S!Acceptable
<1>3. Honest(i)' /\ Followed(i)'
  <2>1. Followed(i) /\ worker[i].pc \notin {"ended", "done"}
    BY DEF SignInInv, Works, Goes
  <2>2. i <= started /\ i \notin adopted /\ i \in dropped \cup {interactive, device}
    BY <2>1 DEF Followed, SignInInv, SignInTyped, S!SignIns
  <2> QED
    BY <2>2 DEF Works, Tells, Followed, SignInInv, SignInTyped, S!SignIns
<1> QED
  BY <1>1, <1>2, <1>3 DEF SignInInv

\* Going to a place changes nothing else of a worker.
LEMMA GoGoes ==
    ASSUME SignInInv, NEW i \in S!SignIns, NEW p \in Pcs, worker[i].pc \notin {"ended", "done"},
           S!Go(i, p)
    PROVE  Goes(i) /\ worker'[i] = [worker[i] EXCEPT !.pc = p]
<1>1. worker \in [S!SignIns -> SignInWorker]
  BY DEF SignInInv, SignInTyped
<1>2. worker[i] \in SignInWorker /\ [worker[i] EXCEPT !.pc = p] \in SignInWorker
  BY <1>1 DEF SignInWorker
<1> HIDE DEF SignInWorker
<1> QED
  BY <1>1, <1>2 DEF S!Go, Goes

\* While a worker is at work it has not said that it is over.
LEMMA NotOver ==
    ASSUME SignInInv, NEW i \in S!SignIns, worker[i].pc \notin {"ended", "done"}
    PROVE  /\ events \in [S!SignIns -> Seq(Words)] /\ events[i] \in Seq(Words)
           /\ ~Has(events[i], "completed") /\ ~Has(events[i], "failed")
BY DEF SignInInv, SignInTyped, Honest

LEMMA SilentTells ==
    ASSUME SignInInv, NEW i \in S!SignIns, Goes(i), worker'[i].pc # "done", UNCHANGED events
    PROVE  Tells(i)
BY NotOver DEF Goes, Tells

LEMMA SendTells ==
    ASSUME SignInInv, NEW i \in S!SignIns, Goes(i), NEW e \in Words, S!Send(i, e),
           e = "completed" <=> worker'[i].pc = "done", e = "failed" => worker'[i].pc = "ended"
    PROVE  Tells(i)
<1>1. /\ events \in [S!SignIns -> Seq(Words)] /\ events[i] \in Seq(Words)
      /\ ~Has(events[i], "completed") /\ ~Has(events[i], "failed")
  BY NotOver DEF Goes
<1>2. /\ events' = [events EXCEPT ![i] = Append(events[i], e)]
      /\ Append(events[i], e) \in Seq(Words)
      /\ \A x : Has(Append(events[i], e), x) <=> Has(events[i], x) \/ x = e
  BY <1>1, SentOne DEF S!Send
<1> QED
  BY <1>1, <1>2 DEF Tells

LEMMA EndWorks ==
    ASSUME SignInInv, NEW i \in S!SignIns, worker[i].pc \notin {"ended", "done"}, S!End(i, "failed"),
           UNCHANGED <<started, interactive, device, adopted, dropped>>
    PROVE  Works(i)
<1>1. Goes(i) /\ worker'[i] = [worker[i] EXCEPT !.pc = "ended"]
  BY GoGoes DEF S!End, Pcs
<1>2. worker[i] \in SignInWorker
  BY DEF SignInInv, SignInTyped
<1>3. worker'[i].pc = "ended"
  BY <1>1, <1>2 DEF SignInWorker
<1>4. Tells(i)
  BY <1>1, <1>3, SendTells DEF S!End, Words
<1>5. Honest(i)'
  BY <1>3, <1>4 DEF Honest, Tells, Sure
<1> QED
  BY <1>1, <1>4, <1>5 DEF Works

\* From one sure place to another, or to a place where nothing is asked of a worker.
LEMMA GoHonest ==
    ASSUME SignInInv, NEW i \in S!SignIns, NEW p \in Pcs, Goes(i), Tells(i),
           worker'[i] = [worker[i] EXCEPT !.pc = p],
           p \in Sure => worker[i].own, p = "done" => S!Acceptable(worker[i]),
           p \notin {"window", "closed"}
    PROVE  Honest(i)'
<1>1. worker[i] \in SignInWorker
  BY DEF SignInInv, SignInTyped
<1>2. worker'[i].pc = p /\ worker'[i].own = worker[i].own /\ worker'[i].kind = worker[i].kind
      /\ worker'[i].renewable = worker[i].renewable
  BY <1>1 DEF SignInWorker
<1> QED
  BY <1>2 DEF Honest, Tells, S!Acceptable

LEMMA GoWorks ==
    ASSUME SignInInv, NEW i \in S!SignIns, NEW p \in Pcs \ {"window", "closed", "done"}, S!Go(i, p),
           worker[i].pc \notin {"ended", "done"}, p \in Sure => worker[i].own,
           UNCHANGED events \/ (\E e \in Words \ {"completed", "failed"} : S!Send(i, e)),
           UNCHANGED <<started, interactive, device, adopted, dropped>>
    PROVE  Works(i)
<1>1. Goes(i) /\ worker'[i] = [worker[i] EXCEPT !.pc = p]
  BY GoGoes
<1>2. worker[i] \in SignInWorker
  BY DEF SignInInv, SignInTyped
<1>3. worker'[i].pc = p
  BY <1>1, <1>2 DEF SignInWorker
<1>4. Tells(i)
  BY <1>1, <1>3, SilentTells, SendTells
<1>5. Honest(i)'
  BY <1>1, <1>4, GoHonest
<1> QED
  BY <1>1, <1>4, <1>5 DEF Works

\* A worker that only changes in other respects than its place, or opens a window afresh.
LEMMA StaysHonest ==
    ASSUME SignInInv, NEW i \in S!SignIns, NEW w \in SignInWorker, worker' = [worker EXCEPT ![i] = w],
           worker[i].pc \notin {"ended", "done"}, w.pc \notin {"ended", "done"},
           w.pc \in Sure => w.own,
           w.pc \in {"window", "closed"} /\ w.reached /\ ~w.overtaken => w.slot = "redirect",
           w.pc = "window" => ~w.overtaken,
           UNCHANGED <<events, started, interactive, device, adopted, dropped>>
    PROVE  Works(i)
<1>1. Goes(i) /\ worker'[i] = w
  BY DEF SignInInv, SignInTyped, Goes
<1>2. Tells(i)
  BY <1>1, SilentTells
<1>3. Honest(i)'
  BY <1>1, <1>2 DEF Honest, Tells
<1> QED
  BY <1>1, <1>2, <1>3 DEF Works

-----------------------------------------------------------------------------
(* The steps of the workers.                                                *)

LEMMA WindowWorks ==
    ASSUME SignInInv, NEW i \in S!SignIns,
           S!Redirected(i) \/ S!PageShows(i) \/ S!BlankTimeout(i) \/ S!CloseWindow(i)
    PROVE  Works(i)
<1>1. worker[i] \in SignInWorker /\ worker[i].pc = "window" /\ Honest(i)
      /\ UNCHANGED <<events, started, interactive, device, adopted, dropped>>
  BY DEF SignInInv, SignInTyped, S!Redirected, S!PageShows, S!BlankTimeout, S!CloseWindow, S!At, S!Same
<1>2. worker \in [S!SignIns -> SignInWorker]
  BY DEF SignInInv, SignInTyped
<1> DEFINE Suits(w) ==
      /\ w \in SignInWorker /\ worker' = [worker EXCEPT ![i] = w] /\ w.pc \in {"window", "closed"}
      /\ w.reached /\ ~w.overtaken => w.slot = "redirect"
      /\ w.pc = "window" => ~w.overtaken
<1>3. ASSUME NEW w, Suits(w) PROVE Works(i)
  BY <1>1, <1>3, StaysHonest DEF Sure
<1>4. CASE S!Redirected(i)
  <2>1. PICK own \in BOOLEAN :
          worker' = [worker EXCEPT ![i].slot = "redirect", ![i].own = own, ![i].reached = TRUE]
    BY <1>4 DEF S!Redirected
  <2> DEFINE w == [[[worker[i] EXCEPT !.slot = "redirect"] EXCEPT !.own = own] EXCEPT !.reached = TRUE]
  <2>2. w \in SignInWorker
    BY <1>1 DEF SignInWorker
  <2>3. w.pc = "window" /\ w.slot = "redirect" /\ w.overtaken = worker[i].overtaken
    BY <1>1 DEF SignInWorker
  <2>4. ~worker[i].overtaken
    BY <1>1 DEF Honest
  <2>5. worker' = [worker EXCEPT ![i] = w]
    BY <1>2, <2>1
  <2> HIDE DEF w
  <2>6. Suits(w)
    BY <2>2, <2>3, <2>4, <2>5
  <2> QED
    BY <1>3, <2>6
<1>5. CASE S!PageShows(i)
  <2>1. worker' = [worker EXCEPT ![i].shown = TRUE]
    BY <1>5 DEF S!PageShows
  <2>2. Suits([worker[i] EXCEPT !.shown = TRUE])
    BY <1>1, <1>2, <2>1 DEF SignInWorker, Honest
  <2> QED
    BY <1>3, <2>2
<1>6. CASE S!BlankTimeout(i)
  <2>1. CASE worker' = [worker EXCEPT ![i] = [@ EXCEPT !.reloaded = TRUE]]
    <3>1. Suits([worker[i] EXCEPT !.reloaded = TRUE])
      BY <1>1, <1>2, <2>1 DEF SignInWorker, Honest
    <3> QED
      BY <1>3, <3>1
  <2>2. CASE worker' = [worker EXCEPT ![i] =
               [@ EXCEPT !.slot = "blank", !.pc = "closed", !.overtaken = worker[i].slot = "redirect"]]
    <3> DEFINE w == [worker[i] EXCEPT !.slot = "blank", !.pc = "closed",
                                      !.overtaken = worker[i].slot = "redirect"]
    <3>1. w.overtaken = (worker[i].slot = "redirect") /\ w.reached = worker[i].reached /\ w.pc = "closed"
      BY <1>1 DEF SignInWorker
    <3>2. w \in SignInWorker
      BY <1>1 DEF SignInWorker, Pcs
    <3>3. w.reached => w.overtaken
      BY <1>1, <3>1 DEF Honest
    <3>4. worker' = [worker EXCEPT ![i] = w]
      BY <1>2, <2>2
    <3>5. Suits(w)
      BY <3>1, <3>2, <3>3, <3>4
    <3> QED
      BY <1>3, <3>5
  <2> QED
    BY <1>6, <2>1, <2>2 DEF S!BlankTimeout
<1>7. CASE S!CloseWindow(i)
  <2>1. CASE worker' = [worker EXCEPT ![i].slot = S!KeptOnClose(@), ![i].pc = "closed"]
    <3> DEFINE w == [[worker[i] EXCEPT !.slot = S!KeptOnClose(@)] EXCEPT !.pc = "closed"]
    <3>1. Suits(w)
      BY <1>1, <1>2, <2>1 DEF SignInWorker, Honest, Pcs, S!KeptOnClose
    <3> QED
      BY <1>3, <3>1
  <2>2. CASE worker[i].slot = "redirect" /\ S!Go(i, "closed")
    <3>1. Suits([worker[i] EXCEPT !.pc = "closed"])
      BY <1>1, <1>2, <2>2 DEF SignInWorker, Pcs, S!Go
    <3> QED
      BY <1>3, <3>1
  <2> QED
    BY <1>7, <2>1, <2>2 DEF S!CloseWindow
<1> QED
  BY <1>4, <1>5, <1>6, <1>7

LEMMA NextWindowWorks ==
    ASSUME SignInInv, NEW i \in S!SignIns, S!NextWindow(i) \/ S!NextHelper(i)
    PROVE  Works(i)
<1>1. /\ worker \in [S!SignIns -> SignInWorker] /\ worker[i] \in SignInWorker /\ worker[i].pc = "closed"
      /\ UNCHANGED <<started, interactive, device, adopted, dropped>>
  BY DEF SignInInv, SignInTyped, S!NextWindow, S!NextHelper, S!At, S!Same
<1>2. S!Fresh(worker[i]) \in SignInWorker
  BY <1>1 DEF S!Fresh, SignInWorker, Pcs
<1>3. S!Fresh(worker[i]).pc = "window" /\ ~S!Fresh(worker[i]).reached
      /\ ~S!Fresh(worker[i]).overtaken
  BY <1>1 DEF S!Fresh, SignInWorker
<1>4. ASSUME NEW w \in SignInWorker, w.pc = "window", ~w.reached, ~w.overtaken, worker' = [worker EXCEPT ![i] = w],
             UNCHANGED events
      PROVE  Works(i)
  BY <1>1, <1>4, StaysHonest DEF Sure
<1>5. CASE S!NextWindow(i)
  <2> DEFINE w == [S!Fresh(worker[i]) EXCEPT !.window = 2]
  <2>1. w \in SignInWorker /\ w.pc = "window" /\ ~w.reached /\ ~w.overtaken
    BY <1>2, <1>3 DEF SignInWorker
  <2>2. worker' = [worker EXCEPT ![i] = w] /\ UNCHANGED events
    BY <1>1, <1>5 DEF S!NextWindow
  <2> QED
    BY <1>4, <2>1, <2>2
<1>6. CASE /\ worker' = [worker EXCEPT ![i] = [S!Fresh(worker[i]) EXCEPT !.window = 1, !.profile = @ + 1]]
           /\ UNCHANGED events
  <2> DEFINE f == S!Fresh(worker[i])
             w == [f EXCEPT !.window = 1, !.profile = @ + 1]
  <2>1. worker' = [worker EXCEPT ![i] = w]
    BY <1>1, <1>6
  <2>2. f \in SignInWorker /\ f.pc = "window" /\ ~f.reached /\ ~f.overtaken
    BY <1>2, <1>3
  <2> HIDE DEF f
  <2>3. w = [[f EXCEPT !.window = 1] EXCEPT !.profile = f.profile + 1]
    BY <2>2 DEF SignInWorker
  <2>4. w.pc = "window" /\ ~w.reached /\ ~w.overtaken
    BY <2>2, <2>3 DEF SignInWorker
  <2>5. w \in SignInWorker
    <3>1. [f EXCEPT !.window = 1] \in SignInWorker /\ f.profile \in Nat
      BY <2>2 DEF SignInWorker
    <3> DEFINE g == [f EXCEPT !.window = 1]
    <3>4. g \in SignInWorker
      BY <3>1
    <3>2. w = [g EXCEPT !.profile = f.profile + 1]
      BY <2>3
    <3> HIDE DEF g
    <3>3. ASSUME NEW n \in Nat PROVE [g EXCEPT !.profile = n] \in SignInWorker
      BY <3>4 DEF SignInWorker
    <3> QED
      BY <3>1, <3>2, <3>3
  <2> HIDE DEF w
  <2> QED
    BY <1>4, <1>6, <2>1, <2>4, <2>5
<1>7. CASE S!End(i, "failed")
  BY <1>1, <1>7, EndWorks
<1> QED
  BY <1>5, <1>6, <1>7 DEF S!NextHelper

LEMMA WindowEndWorks ==
    ASSUME SignInInv, NEW i \in S!SignIns, S!WindowDone(i) \/ S!HelperFails(i) \/ S!ListenFails(i)
    PROVE  Works(i)
<1>1. /\ worker[i].pc \in {"window", "closed", "listen"}
      /\ UNCHANGED <<started, interactive, device, adopted, dropped>>
  BY DEF S!WindowDone, S!HelperFails, S!ListenFails, S!At, S!Same
<1>2. CASE S!End(i, "failed")
  BY <1>1, <1>2, EndWorks
<1>3. CASE worker[i].own /\ S!Go(i, "exchange") /\ S!Send(i, "progress")
  BY <1>1, <1>3, GoWorks DEF Pcs, Sure, Words
<1> QED
  BY <1>2, <1>3 DEF S!WindowDone, S!HelperFails, S!ListenFails

LEMMA CallbackWorks ==
    ASSUME SignInInv, NEW i \in S!SignIns, S!Callback(i)
    PROVE  Works(i)
<1>1. /\ worker \in [S!SignIns -> SignInWorker] /\ worker[i] \in SignInWorker /\ worker[i].pc = "listen"
      /\ UNCHANGED <<started, interactive, device, adopted, dropped>>
  BY DEF SignInInv, SignInTyped, S!Callback, S!At, S!Same
<1>2. PICK own \in BOOLEAN :
         /\ worker' = [worker EXCEPT ![i].own = own, ![i].pc = IF own THEN "exchange" ELSE "ended"]
         /\ events' = [events EXCEPT ![i] = @ \o IF own THEN <<"progress">> ELSE <<"progress", "failed">>]
  BY DEF S!Callback, S!Matches
<1> DEFINE w == [[worker[i] EXCEPT !.own = own] EXCEPT !.pc = IF own THEN "exchange" ELSE "ended"]
<1>3. w \in SignInWorker /\ w.own = own /\ w.pc = IF own THEN "exchange" ELSE "ended"
  BY <1>1 DEF SignInWorker, Pcs, Sure
<1>4. worker' = [worker EXCEPT ![i] = w]
  BY <1>1, <1>2
<1> HIDE DEF w
<1>5. Goes(i) /\ worker'[i] = w
  BY <1>1, <1>3, <1>4 DEF Goes
<1>6. /\ events \in [S!SignIns -> Seq(Words)] /\ events[i] \in Seq(Words)
      /\ ~Has(events[i], "completed") /\ ~Has(events[i], "failed")
  BY <1>1, NotOver
<1>7. CASE own
  <2>1. events[i] \o <<"progress">> = Append(events[i], "progress")
    BY <1>6
  <2>2. S!Send(i, "progress")
    BY <1>2, <1>6, <1>7, <2>1 DEF S!Send
  <2>3. Tells(i)
    BY <1>3, <1>5, <1>7, <2>2, SendTells DEF Words
  <2> QED
    BY <1>1, <1>3, <1>5, <1>7, <2>3 DEF Works, Tells, Honest
<1>8. CASE ~own
  <2> DEFINE told == events[i] \o <<"progress", "failed">>
  <2>1. told \in Seq(Words) /\ ~Has(told, "completed") /\ events' = [events EXCEPT ![i] = told]
    <3>1. \A x : Has(told, x) <=> Has(events[i], x) \/ x = "progress" \/ x = "failed"
      BY <1>6, SentTwo DEF Words
    <3>2. told \in Seq(Words)
      BY <1>6, SentTwo DEF Words
    <3> QED
      BY <1>2, <1>6, <1>8, <3>1, <3>2
  <2> HIDE DEF told
  <2>2. Tells(i)
    BY <1>3, <1>5, <1>6, <1>8, <2>1 DEF Tells
  <2> QED
    BY <1>1, <1>3, <1>5, <1>8, <2>2 DEF Works, Tells, Honest, Sure
<1> QED
  BY <1>7, <1>8

LEMMA CodeWorks ==
    ASSUME SignInInv, NEW i \in S!SignIns, S!RequestCode(i) \/ S!PollToken(i)
    PROVE  Works(i)
<1>1. /\ worker \in [S!SignIns -> SignInWorker] /\ worker[i] \in SignInWorker
      /\ worker[i].pc \in {"request", "poll"} /\ Honest(i)
      /\ UNCHANGED <<started, interactive, device, adopted, dropped>>
  BY DEF SignInInv, SignInTyped, S!RequestCode, S!PollToken, S!At, S!Same
<1>2. CASE S!End(i, "failed")
  BY <1>1, <1>2, EndWorks
<1>3. CASE S!Go(i, "poll") /\ S!Send(i, "code")
  BY <1>1, <1>3, GoWorks DEF Pcs, Sure, Words
<1>4. CASE S!Send(i, "progress") /\ UNCHANGED worker
  <2>1. Goes(i) /\ worker'[i] = worker[i]
    BY <1>1, <1>4 DEF Goes
  <2>2. Tells(i)
    BY <1>1, <1>4, <2>1, SendTells DEF Words
  <2> QED
    BY <1>1, <2>1, <2>2 DEF Works, Tells, Honest, Sure
<1>5. CASE /\ \E renewable \in BOOLEAN :
                worker' = [worker EXCEPT ![i].pc = "xbox", ![i].own = TRUE, ![i].renewable = renewable]
           /\ UNCHANGED events
  <2>1. PICK renewable \in BOOLEAN :
          worker' = [worker EXCEPT ![i].pc = "xbox", ![i].own = TRUE, ![i].renewable = renewable]
    BY <1>5
  <2> DEFINE w == [[[worker[i] EXCEPT !.pc = "xbox"] EXCEPT !.own = TRUE] EXCEPT !.renewable = renewable]
  <2>2. w \in SignInWorker /\ w.pc = "xbox" /\ w.own
    BY <1>1 DEF SignInWorker, Pcs, Sure
  <2>3. worker' = [worker EXCEPT ![i] = w]
    BY <1>1, <2>1
  <2> HIDE DEF w
  <2> QED
    BY <1>1, <1>5, <2>2, <2>3, StaysHonest
<1> QED
  BY <1>2, <1>3, <1>4, <1>5 DEF S!RequestCode, S!PollToken

LEMMA ServiceWorks ==
    ASSUME SignInInv, NEW i \in S!SignIns, S!Exchange(i) \/ S!AskService(i) \/ S!Finish(i)
    PROVE  Works(i)
<1>1. /\ worker \in [S!SignIns -> SignInWorker] /\ worker[i] \in SignInWorker /\ Honest(i)
      /\ UNCHANGED <<started, interactive, device, adopted, dropped>>
  BY DEF SignInInv, SignInTyped, S!Exchange, S!AskService, S!Finish, S!Same
<1>2. DOMAIN S!After = {"xbox", "xboxagain", "xsts", "minecraft", "legacy", "profile"}
      /\ DOMAIN S!Otherwise = {"xbox", "minecraft"}
  BY DEF S!After, S!Otherwise
<1>3. worker[i].pc \in Sure /\ worker[i].pc \notin {"ended", "done"} /\ worker[i].own
  BY <1>1, <1>2 DEF S!Exchange, S!AskService, S!Finish, S!At, Honest, Sure
<1>4. CASE S!End(i, "failed")
  BY <1>1, <1>3, <1>4, EndWorks
<1>5. ASSUME NEW p \in Sure \ {"done"}, S!Go(i, p), UNCHANGED events PROVE Works(i)
  <2>1. p \in Pcs \ {"window", "closed", "done"}
    BY DEF Pcs, Sure
  <2> QED
    BY <1>1, <1>3, <1>5, <2>1, GoWorks
<1>6. CASE S!Exchange(i) /\ ~S!End(i, "failed")
  <2>1. PICK renewable \in BOOLEAN :
          worker' = [worker EXCEPT ![i].pc = "xbox", ![i].renewable = renewable]
    BY <1>6 DEF S!Exchange
  <2> DEFINE w == [[worker[i] EXCEPT !.pc = "xbox"] EXCEPT !.renewable = renewable]
  <2>2. w \in SignInWorker /\ w.pc = "xbox" /\ w.own
    BY <1>1, <1>3 DEF SignInWorker, Pcs, Sure
  <2>3. worker' = [worker EXCEPT ![i] = w] /\ UNCHANGED events
    BY <1>1, <1>6, <2>1 DEF S!Exchange
  <2> HIDE DEF w
  <2> QED
    BY <1>1, <1>3, <2>2, <2>3, StaysHonest
<1>7. CASE S!AskService(i) /\ ~S!End(i, "failed")
  <2>1. CASE worker[i].pc \in DOMAIN S!After /\ S!Go(i, S!After[worker[i].pc]) /\ UNCHANGED events
    <3>1. S!After[worker[i].pc] \in Sure \ {"done"}
      BY <1>2, <2>1 DEF S!After, Sure
    <3> QED
      BY <1>5, <2>1, <3>1
  <2>2. CASE worker[i].pc \in DOMAIN S!Otherwise /\ S!Go(i, S!Otherwise[worker[i].pc]) /\ UNCHANGED events
    <3>1. S!Otherwise[worker[i].pc] \in Sure \ {"done"}
      BY <1>2, <2>2 DEF S!Otherwise, Sure
    <3> QED
      BY <1>5, <2>2, <3>1
  <2> QED
    BY <1>7, <2>1, <2>2 DEF S!AskService
<1>8. CASE S!Acceptable(worker[i]) /\ S!Go(i, "done") /\ S!Send(i, "completed")
  <2>1. Goes(i) /\ worker'[i] = [worker[i] EXCEPT !.pc = "done"]
    BY <1>3, <1>8, GoGoes DEF Pcs, Sure
  <2>2. worker'[i].pc = "done"
    BY <1>1, <2>1 DEF SignInWorker
  <2>3. Tells(i)
    BY <1>8, <2>1, <2>2, SendTells DEF Words
  <2>4. Honest(i)'
    BY <1>3, <1>8, <2>1, <2>3, GoHonest DEF Pcs, Sure
  <2> QED
    BY <1>1, <2>1, <2>3, <2>4 DEF Works
<1> QED
  BY <1>4, <1>6, <1>7, <1>8 DEF S!Finish

LEMMA StrayKeeps ==
    ASSUME SignInInv, NEW i \in S!SignIns, S!Stray(i)
    PROVE  SignInInv'
<1>1. UNCHANGED <<started, interactive, device, events, worker, adopted, dropped>>
  BY DEF S!Stray, S!uiFlows
<1>2. SignInTyped' /\ S!OneFlow'
  BY <1>1 DEF SignInInv, SignInTyped, S!OneFlow
<1>3. ASSUME NEW j \in S!SignIns PROVE Honest(j)' /\ Followed(j)'
  BY <1>1 DEF SignInInv, Honest, Followed, S!Acceptable
<1> QED
  BY <1>2, <1>3 DEF SignInInv

-----------------------------------------------------------------------------
(* The steps of the UI.                                                     *)

\* A worker that is left alone while its channel is left alone, or emptied.
LEMMA LeftHonest ==
    ASSUME SignInInv, NEW i \in S!SignIns, worker'[i] = worker[i], events'[i] \in {events[i], <<>>}
    PROVE  Honest(i)'
<1>1. Honest(i) /\ ~Has(<<>>, "completed") /\ ~Has(<<>>, "failed")
  BY DEF SignInInv, Has
<1> QED
  BY <1>1 DEF Honest, S!Acceptable

LEMMA UiKeeps ==
    ASSUME SignInInv, S!CancelDevice \/ S!CodeExpires \/ S!PollInteractive
    PROVE  SignInInv'
<1>1. S!SignIns = 1..MaxSignIns /\ MaxSignIns \in Nat
  BY MCAccountsAssumption DEF S!SignIns
<1>2. SignInTyped /\ UNCHANGED <<started, worker>>
  BY DEF SignInInv, S!CancelDevice, S!CodeExpires, S!PollInteractive
<1>3. CASE S!CancelDevice \/ S!CodeExpires
  <2>1. /\ UNCHANGED <<interactive, events, adopted>>
        /\ \/ device' = 0 /\ dropped' = dropped \cup {device}
           \/ UNCHANGED <<device, dropped>>
    BY <1>3 DEF S!CancelDevice, S!CodeExpires
  <2>2. SignInTyped' /\ S!OneFlow'
    BY <1>1, <1>2, <2>1 DEF SignInInv, SignInTyped, S!OneFlow
  <2>3. ASSUME NEW i \in S!SignIns PROVE Honest(i)' /\ Followed(i)'
    <3>1. Followed(i) /\ i # 0
      BY <1>1 DEF SignInInv
    <3> QED
      BY <1>2, <2>1, <3>1, LeftHonest DEF Followed
  <2> QED
    BY <2>2, <2>3 DEF SignInInv
<1>4. CASE S!PollInteractive
  <2>1. interactive \in S!SignIns /\ interactive \in 1..started
    BY <1>1, <1>2, <1>4 DEF SignInTyped, S!PollInteractive
  <2>2. /\ events' = [events EXCEPT ![interactive] = <<>>]
        /\ adopted' = IF Has(events[interactive], "completed") THEN adopted \cup {interactive} ELSE adopted
        /\ interactive' = IF \/ Has(events[interactive], "completed")
                             \/ Has(events[interactive], "failed") THEN 0 ELSE interactive
        /\ UNCHANGED <<device, dropped>>
    BY <1>4 DEF S!PollInteractive, S!Holds, S!Over, Has
  <2>3. SignInTyped' /\ S!OneFlow'
    <3>1. <<>> \in Seq(Words)
      OBVIOUS
    <3> QED
      BY <1>1, <1>2, <2>1, <2>2, <3>1 DEF SignInInv, SignInTyped, S!OneFlow
  <2>4. ASSUME NEW i \in S!SignIns PROVE Honest(i)' /\ Followed(i)'
    <3>1. Followed(i) /\ Honest(i) /\ Honest(i)'
      BY <1>2, <2>1, <2>2, LeftHonest DEF SignInInv, SignInTyped
    <3>2. CASE i # interactive
      BY <1>2, <2>1, <2>2, <3>1, <3>2 DEF Followed, SignInTyped
    <3>3. CASE i = interactive
      BY <1>2, <2>1, <2>2, <3>1, <3>3 DEF Followed, Honest, SignInTyped
    <3> QED
      BY <3>1, <3>2, <3>3
  <2> QED
    BY <2>3, <2>4 DEF SignInInv
<1> QED
  BY <1>3, <1>4

\* The place a sign-in starts from, and the worker that starts there.
LEMMA NewIs ==
    ASSUME SignInInv, NEW kind \in {"webview", "browser", "device"},
           NEW pc \in {"window", "listen", "request"}, S!NewWorker(kind, pc)
    PROVE  LET n == started + 1 IN
           /\ n \in S!SignIns /\ started' = n /\ events[n] = <<>> /\ n \notin adopted
           /\ worker' \in [S!SignIns -> SignInWorker]
           /\ worker'[n].pc = pc /\ ~worker'[n].overtaken /\ ~worker'[n].reached
           /\ \A j \in S!SignIns \ {n} : worker'[j] = worker[j]
<1> DEFINE n == started + 1
           w == [[S!NoWorker EXCEPT !.kind = kind] EXCEPT !.pc = pc]
<1>1. S!SignIns = 1..MaxSignIns /\ MaxSignIns \in Nat
  BY MCAccountsAssumption DEF S!SignIns
<1>2. n \in S!SignIns /\ n > started /\ started' = n /\ n \notin adopted
  BY <1>1 DEF S!NewWorker, SignInInv, SignInTyped
<1>3. events[n] = <<>>
  BY <1>2 DEF SignInInv, Followed
<1>4. w \in SignInWorker /\ w.pc = pc /\ ~w.overtaken /\ ~w.reached
  BY DEF S!NoWorker, SignInWorker, Pcs
<1>5. worker' = [worker EXCEPT ![n] = w]
  BY <1>2 DEF S!NewWorker
<1>6. worker \in [S!SignIns -> SignInWorker]
  BY DEF SignInInv, SignInTyped
<1> HIDE DEF w, n
<1> QED
  BY <1>2, <1>3, <1>4, <1>5, <1>6 DEF n

\* The flow that a new worker's events go to is the only one that changes, and the workers
\* of the flow before it were given up, are over, or taken.
LEMMA NewKeeps ==
    ASSUME SignInInv, NEW kind \in {"webview", "browser", "device"},
           NEW pc \in {"window", "listen", "request"}, S!NewWorker(kind, pc),
           \/ interactive' = 0 /\ device' = started + 1
           \/ interactive' = started + 1 /\ device' = 0,
           adopted' \in SUBSET (1..started), adopted \subseteq adopted', dropped \ {0} \subseteq dropped',
           events' \in [S!SignIns -> Seq(Words)],
           \A j \in S!SignIns : events'[j] \in {events[j], <<>>},
           \A j \in S!SignIns : j \in {interactive, device} \/ j \in adopted' \ adopted =>
              \/ j \in dropped' /\ j \notin adopted' \ adopted
              \/ worker[j].pc = "ended" /\ j \notin adopted' \ adopted
              \/ worker[j].pc = "done" /\ j \in adopted',
           \A j \in S!SignIns \ {interactive, device} : events'[j] = events[j]
    PROVE  SignInInv'
<1>1. S!SignIns = 1..MaxSignIns /\ MaxSignIns \in Nat /\ SignInTyped
  BY MCAccountsAssumption DEF S!SignIns, SignInInv
<1> PICK n \in S!SignIns : n = started + 1
  BY NewIs
<1>2. /\ n \in S!SignIns /\ started' = n /\ events[n] = <<>> /\ n \notin adopted
      /\ worker' \in [S!SignIns -> SignInWorker]
      /\ worker'[n].pc = pc /\ ~worker'[n].overtaken /\ ~worker'[n].reached
      /\ \A j \in S!SignIns \ {n} : worker'[j] = worker[j]
  BY NewIs
<1>3. started \in Nat /\ started < n /\ 1..started \subseteq 1..n /\ n \notin adopted'
  BY <1>1 DEF SignInTyped
<1>4. SignInTyped' /\ S!OneFlow'
  <2>1. started' \in 0..MaxSignIns /\ interactive' \in 0..started' /\ device' \in 0..started'
    BY <1>1, <1>2, <1>3
  <2>2. adopted' \in SUBSET (1..started')
    BY <1>2, <1>3
  <2> QED
    BY <1>2, <2>1, <2>2 DEF SignInTyped, S!OneFlow
<1>5. ASSUME NEW i \in S!SignIns, i # n PROVE Honest(i)' /\ Followed(i)'
  <2>1. Honest(i)' /\ Followed(i) /\ worker'[i] = worker[i]
    BY <1>2, <1>5, LeftHonest DEF SignInInv
  <2>2. i > started' => i > started
    BY <1>1, <1>2, <1>3
  <2>3. i > started => i \notin {interactive, device} /\ i \notin adopted'
    BY <1>1, <1>3 DEF SignInTyped
  <2>4. i # 0
    BY <1>1
  <2>5. i > started' => worker'[i].pc = "ended" /\ events'[i] = <<>>
    BY <2>1, <2>2 DEF Followed
  <2>6. worker'[i].pc # "ended" => i \in adopted' \cup dropped' \cup {interactive', device'}
    BY <2>1, <2>4 DEF Followed
  <2>7. worker'[i].pc = "done" /\ i \notin adopted' \cup dropped' => Has(events'[i], "completed")
    BY <2>1, <2>4 DEF Followed
  <2>8. i \in adopted' => worker'[i].pc = "done"
    <3>1. i \in adopted => worker[i].pc = "done"
      BY <2>1 DEF Followed
    <3>2. i \in adopted' \ adopted => worker[i].pc = "done"
      OBVIOUS
    <3> QED
      BY <2>1, <3>1, <3>2
  <2> QED
    BY <2>1, <2>5, <2>6, <2>7, <2>8 DEF Followed
<1>6. Honest(n)' /\ Followed(n)'
  <2>1. events'[n] = <<>> /\ ~Has(<<>>, "completed") /\ ~Has(<<>>, "failed")
    BY <1>2 DEF Has
  <2>2. n \in {interactive', device'} /\ ~(n > started')
    BY <1>1, <1>2, <1>3
  <2>3. worker'[n].pc \notin Sure \cup {"ended", "closed"}
    BY <1>2 DEF Sure
  <2>4. Honest(n)'
    BY <1>2, <2>1, <2>3 DEF Honest, Sure
  <2>5. Followed(n)'
    BY <1>2, <1>3, <2>1, <2>2, <2>3 DEF Followed, Sure
  <2> QED
    BY <2>4, <2>5
<1>7. \A i \in S!SignIns : Honest(i)' /\ Followed(i)'
  BY <1>5, <1>6
<1> QED
  BY <1>4, <1>7 DEF SignInInv

LEMMA StartKeeps ==
    ASSUME SignInInv, NEW kind \in {"webview", "browser", "device"}, S!Start(kind)
    PROVE  SignInInv'
<1> DEFINE pc == CASE kind = "webview" -> "window" [] kind = "browser" -> "listen" [] OTHER -> "request"
<1>1. pc \in {"window", "listen", "request"} /\ S!NewWorker(kind, pc)
  BY DEF S!Start
<1>2. interactive = 0 /\ (kind = "device" => device = 0) /\ UNCHANGED <<events, adopted>>
      /\ events \in [S!SignIns -> Seq(Words)] /\ adopted \in SUBSET (1..started) /\ 0 \notin S!SignIns
  BY DEF S!Start, SignInInv, SignInTyped, S!SignIns
<1>3. started' = started + 1
  BY DEF S!Start, S!NewWorker
<1> HIDE DEF pc
<1>4. CASE kind = "device"
  <2>1. device' = started + 1 /\ interactive' = 0 /\ dropped' = dropped
    BY <1>2, <1>3, <1>4 DEF S!Start
  <2> QED
    BY <1>1, <1>2, <1>4, <2>1, NewKeeps
<1>5. CASE kind # "device"
  <2>1. interactive' = started + 1 /\ device' = 0 /\ dropped' = (dropped \cup {device}) \ {0}
    BY <1>3, <1>5 DEF S!Start
  <2>2. dropped \ {0} \subseteq dropped' /\ \A j \in S!SignIns : j \in {interactive, device} => j \in dropped'
    BY <1>2, <1>5, <2>1
  <2> QED
    BY <1>1, <1>2, <2>1, <2>2, NewKeeps
<1> QED
  BY <1>4, <1>5

LEMMA PollDeviceKeeps ==
    ASSUME SignInInv, S!RestartExpired \/ S!PollDevice
    PROVE  SignInInv'
<1>1. /\ S!SignIns = 1..MaxSignIns /\ MaxSignIns \in Nat /\ SignInTyped /\ 0 \notin S!SignIns
      /\ events \in [S!SignIns -> Seq(Words)] /\ <<>> \in Seq(Words) /\ adopted \in SUBSET (1..started)
      /\ 1..started \subseteq S!SignIns
  BY MCAccountsAssumption DEF S!SignIns, SignInInv, SignInTyped
<1>2. device \in 1..started /\ interactive = 0
  BY <1>1 DEF SignInInv, SignInTyped, S!OneFlow, S!RestartExpired, S!PollDevice
<1>3. CASE S!RestartExpired
  <2>1. /\ S!NewWorker("device", "request") /\ device' = started + 1 /\ interactive' = 0
        /\ dropped' = dropped \cup {device} /\ UNCHANGED <<events, adopted>>
    BY <1>2, <1>3 DEF S!RestartExpired, S!Restart, S!NewWorker
  <2>2. \A j \in S!SignIns : j \in {interactive, device} => j \in dropped'
    BY <1>1, <1>2, <2>1
  <2> QED
    BY <1>1, <1>2, <2>1, <2>2, NewKeeps
<1>4. CASE S!PollDevice
  <2> DEFINE done == Has(events[device], "completed")
             over == done \/ Has(events[device], "failed")
  <2>1. /\ events' = [events EXCEPT ![device] = <<>>] /\ UNCHANGED <<interactive, dropped>>
        /\ adopted' = IF done THEN adopted \cup {device} ELSE adopted
    BY <1>4 DEF S!PollDevice, S!Taken, S!Holds, Has
  <2>2. \/ ~over /\ UNCHANGED <<started, device, worker>>
        \/ over /\ device' = 0 /\ UNCHANGED <<started, worker>>
        \/ over /\ S!NewWorker("device", "request") /\ device' = started + 1
    BY <1>4 DEF S!PollDevice, S!Holds, S!Over, Has, S!Restart, S!NewWorker
  <2>3. Honest(device) /\ Followed(device) /\ device \in S!SignIns
    BY <1>1, <1>2 DEF SignInInv
  <2>4. done => worker[device].pc = "done"
    BY <2>3 DEF Honest
  <2>5. over /\ ~done => worker[device].pc = "ended"
    BY <2>3 DEF Honest
  <2>6. /\ adopted' \in SUBSET (1..started) /\ adopted \subseteq adopted'
        /\ events' \in [S!SignIns -> Seq(Words)]
        /\ events'[device] = <<>> /\ \A j \in S!SignIns \ {device} : events'[j] = events[j]
    BY <1>1, <1>2, <2>1, <2>3
  <2>7. done => device \in adopted'
    BY <2>1
  <2>8. ~done => adopted' = adopted
    BY <2>1
  <2>9. adopted' \subseteq adopted \cup {device}
    BY <2>1
  <2> HIDE DEF done, over
  <2>10. CASE UNCHANGED <<started, worker>> /\ device' \in {0, device} /\ (device' = 0 <=> over)
    <3>1. SignInTyped' /\ S!OneFlow'
      BY <1>1, <1>2, <2>1, <2>6, <2>10 DEF SignInTyped, S!OneFlow
    <3>2. ASSUME NEW i \in S!SignIns PROVE Honest(i)' /\ Followed(i)'
      <4>1. Honest(i)' /\ Followed(i)
        BY <2>6, <2>10, LeftHonest DEF SignInInv
      <4>2. CASE i # device
        BY <1>1, <1>2, <2>1, <2>6, <2>9, <2>10, <4>1, <4>2 DEF Followed
      <4>3. CASE i = device /\ done
        BY <1>1, <1>2, <2>4, <2>7, <2>10, <4>3, <4>1 DEF Followed, SignInTyped
      <4>4. CASE i = device /\ ~done
        BY <1>1, <1>2, <2>1, <2>5, <2>8, <2>10, <4>4, <4>1, <2>3 DEF Followed, SignInTyped, over, done
      <4> QED
        BY <4>2, <4>3, <4>4
    <3> QED
      BY <3>1, <3>2 DEF SignInInv
  <2>11. CASE over /\ S!NewWorker("device", "request") /\ device' = started + 1
    <3>1. \A j \in S!SignIns : events'[j] \in {events[j], <<>>}
      BY <2>6
    <3>2. ASSUME NEW j \in S!SignIns, j \in {interactive, device} \/ j \in adopted' \ adopted
          PROVE  \/ worker[j].pc = "ended" /\ j \notin adopted' \ adopted
                 \/ worker[j].pc = "done" /\ j \in adopted'
      <4>1. j = device
        BY <1>1, <1>2, <2>9, <3>2
      <4> QED
        BY <2>4, <2>5, <2>7, <2>8, <2>11, <4>1
    <3> QED
      BY <1>2, <2>1, <2>6, <2>11, <3>1, <3>2, NewKeeps
  <2>12. \/ UNCHANGED <<started, worker>> /\ device' \in {0, device} /\ (device' = 0 <=> over)
         \/ over /\ S!NewWorker("device", "request") /\ device' = started + 1
    BY <1>2, <2>2 DEF over
  <2> QED
    BY <2>10, <2>11, <2>12
<1> QED
  BY <1>3, <1>4

LEMMA SignInStep == SignInInv /\ [S!SignInNext]_S!signInVars => SignInInv'
<1> SUFFICES ASSUME SignInInv, [S!SignInNext]_S!signInVars PROVE SignInInv'
  OBVIOUS
<1>1. CASE UNCHANGED S!signInVars
  <2>1. UNCHANGED <<started, interactive, device, events, worker, adopted, dropped>>
    BY <1>1 DEF S!signInVars
  <2>2. SignInTyped' /\ S!OneFlow'
    BY <2>1 DEF SignInInv, SignInTyped, S!OneFlow
  <2>3. ASSUME NEW i \in S!SignIns PROVE Honest(i)' /\ Followed(i)'
    BY <2>1 DEF SignInInv, Honest, Followed, S!Acceptable
  <2> QED
    BY <2>2, <2>3 DEF SignInInv
<1>2. CASE S!CancelDevice \/ S!CodeExpires \/ S!PollInteractive
  BY <1>2, UiKeeps
<1>3. CASE S!RestartExpired \/ S!PollDevice
  BY <1>3, PollDeviceKeeps
<1>4. ASSUME NEW kind \in {"webview", "browser", "device"}, S!Start(kind) PROVE SignInInv'
  BY <1>4, StartKeeps
<1>5. ASSUME NEW i \in S!SignIns,
             \/ S!Redirected(i) \/ S!PageShows(i) \/ S!BlankTimeout(i) \/ S!CloseWindow(i)
             \/ S!NextWindow(i) \/ S!NextHelper(i) \/ S!WindowDone(i) \/ S!HelperFails(i)
      PROVE  SignInInv'
  BY <1>5, WindowWorks, NextWindowWorks, WindowEndWorks, WorksKeeps
<1>6. ASSUME NEW i \in S!SignIns, S!Callback(i) \/ S!ListenFails(i) \/ S!RequestCode(i) \/ S!PollToken(i)
      PROVE  SignInInv'
  BY <1>6, CallbackWorks, WindowEndWorks, CodeWorks, WorksKeeps
<1>7. ASSUME NEW i \in S!SignIns, S!Exchange(i) \/ S!AskService(i) \/ S!Finish(i) PROVE SignInInv'
  BY <1>7, ServiceWorks, WorksKeeps
<1>8. ASSUME NEW i \in S!SignIns, S!Stray(i) PROVE SignInInv'
  BY <1>8, StrayKeeps
<1> QED
  BY <1>1, <1>2, <1>3, <1>4, <1>5, <1>6, <1>7, <1>8 DEF S!SignInNext
-----------------------------------------------------------------------------
\* A step of the run is one of the tokens', or leaves them alone; and so for the sign-ins.
LEMMA KeepMoves ==
    [MCNext]_<<vars, storeVars, signInVars, settingsVars, formVars, skinVars, part>>
    => [T!StoreNext]_storeVars /\ [S!SignInNext]_S!signInVars
BY DEF MCNext, storeVars, signInVars, S!signInVars

\* In every behaviour of the run: the token stored last is found again through every change
\* of the setting and of the keyring (auth/token_store.rs), an account is taken only from an
\* answer to its own sign-in, and one that a sign-in gave is taken unless it was given up
\* (auth_state.rs, sign_in_workers.rs), for any number of accounts, tokens and sign-ins.
THEOREM TokensAndSignIns == MCSpec => []SignInsAreKept
<1>1. MCInit => TokenInv /\ SignInInv
  BY TokenInit, SignInStart DEF MCInit
<1>2. /\ TokenInv /\ SignInInv
      /\ [MCNext]_<<vars, storeVars, signInVars, settingsVars, formVars, skinVars, part>>
      => (TokenInv /\ SignInInv)'
  BY KeepMoves, TokenStep, SignInStep
<1>3. TokenInv /\ SignInInv => SignInsAreKept
  BY SignInProperties DEF TokenInv, SignInsAreKept
<1> QED
  BY <1>1, <1>2, <1>3, PTL DEF MCSpec
-----------------------------------------------------------------------------
\* The editor of a game's settings.

Values == [Keys -> Nat]
Views == [open : BOOLEAN, shown : Values, pending : Values, noticed : BOOLEAN,
          closing : Nat, capturing : Keys \cup {NoKey}, hidden : BOOLEAN]
Hands == [phase : {"idle", "reload", "write", "stamp"}, copy : Values]

EditorTypes ==
    /\ options \in [whole : BOOLEAN, at : Values]
    /\ live \in Views
    /\ saver \in [E!Savers -> Hands]
    /\ playing \in [runs : BOOLEAN, saves : BOOLEAN, copy : Values]
    /\ truth \in Values /\ written_values \in Nat

\* The file is half written exactly while the game saves, which finds nobody else writing;
\* the edits on top of the file are the truth, what the editor flushes is both, and what
\* it has noticed it shows.
Merged == E!OnTop(live.pending, options.at)
EditorFollows == overlaps = {} =>
    /\ options.whole = ~playing.saves
    /\ playing.saves => /\ playing.runs /\ saver["pass"].phase = "idle"
                        /\ saver["editor"].phase \in {"idle", "reload"}
    /\ truth = Merged
    /\ saver["editor"].phase \in {"write", "stamp"} => saver["editor"].copy = Merged
    /\ saver["editor"].phase = "stamp" => options.at = saver["editor"].copy
    /\ live.noticed /\ saver["editor"].phase # "reload" /\ ~playing.saves => live.shown = truth

EditorInv == EditorTypes /\ EditorFollows

LEMMA OnTopFacts ==
    ASSUME NEW p \in Values, NEW f \in Values
    PROVE  /\ E!OnTop(p, f) \in Values /\ E!Blank \in Values
           /\ E!OnTop(E!Blank, f) = f
           /\ E!OnTop(p, E!OnTop(p, f)) = E!OnTop(p, f)
<1>1. E!OnTop(p, f) \in Values /\ E!Blank \in Values BY DEF E!OnTop, E!Blank, Values
<1>2. E!OnTop(E!Blank, f) = f BY DEF E!OnTop, E!Blank, Values
<1>3. E!OnTop(p, E!OnTop(p, f)) = E!OnTop(p, f) BY DEF E!OnTop, Values
<1> QED BY <1>1, <1>2, <1>3

LEMMA OnTopOfEdit ==
    ASSUME NEW p \in Values, NEW f \in Values, NEW k \in Keys, NEW v \in Nat \ {0}
    PROVE  E!OnTop([p EXCEPT ![k] = v], f) = [E!OnTop(p, f) EXCEPT ![k] = v]
BY DEF E!OnTop, Values

LEMMA IdleHand == E!Blank \in Values /\ E!Idle \in Hands /\ E!Idle.phase = "idle"
BY DEF E!Idle, E!Blank, Hands, Values

LEMMA EditorInitInv == E!EditorInit => EditorInv
<1> SUFFICES ASSUME E!EditorInit PROVE EditorInv OBVIOUS
<1>1. EditorTypes BY DEF E!EditorInit, E!Blank, E!Idle, E!Savers, EditorTypes, Values, Views, Hands
<1>2. Merged = truth BY DEF Merged, E!EditorInit, E!OnTop, E!Blank
<1>3. EditorFollows BY <1>2, <1>1 DEF EditorFollows, EditorTypes, E!EditorInit, E!Idle, E!Savers
<1> QED BY <1>1, <1>3 DEF EditorInv

LEMMA EditorParts ==
    ASSUME EditorInv
    PROVE  /\ live.pending \in Values /\ options.at \in Values /\ E!Blank \in Values
           /\ \A s \in E!Savers : saver[s].copy \in Values
           /\ \A r \in BOOLEAN : E!Read(r) \in Values
BY IdleHand DEF EditorInv, EditorTypes, Views, Hands, E!Read

\* What a flush takes in hand.
LEMMA FlushStarts ==
    ASSUME EditorInv, E!StartFlush
    PROVE  /\ saver' \in [E!Savers -> Hands]
           /\ saver'["pass"] = saver["pass"] /\ saver'["editor"].phase \in {"write", "stamp"}
           /\ overlaps' = {} => /\ overlaps = {} /\ options.whole
                                /\ saver'["editor"].copy = Merged
                                /\ saver'["editor"].phase = "stamp" => options.at = saver'["editor"].copy
<1>1. PICK r \in BOOLEAN :
        /\ saver' = [saver EXCEPT !["editor"] =
              [phase |-> IF E!OnTop(live.pending, E!Read(r)) = E!Read(r) THEN "stamp" ELSE "write",
               copy |-> E!OnTop(live.pending, E!Read(r))]]
        /\ overlaps' = overlaps \cup (IF r THEN {} ELSE {"unreadable"})
                                \cup (IF options.whole THEN {} ELSE {"overlap"})
  BY DEF E!StartFlush
<1>2. E!Read(r) \in Values /\ live.pending \in Values
  BY EditorParts
<1>3. E!OnTop(live.pending, E!Read(r)) \in Values BY <1>2, OnTopFacts
<1>4. overlaps' = {} => overlaps = {} /\ options.whole /\ r BY <1>1
<1>5. options.whole /\ r => E!Read(r) = options.at BY DEF E!Read
<1> QED BY <1>1, <1>3, <1>4, <1>5 DEF EditorInv, EditorTypes, Merged, E!Savers, Hands

\* The view, the savers, the game and the truth stay as they are.
LEMMA EditorStays ==
    ASSUME EditorInv,
           UNCHANGED <<options, saver, playing, truth, written_values, overlaps>>,
           live' \in Views,
           live'.shown = live.shown, live'.pending = live.pending, live'.noticed = live.noticed
    PROVE  EditorInv'
<1>1. EditorTypes' BY DEF EditorInv, EditorTypes
<1>2. Merged' = Merged BY DEF Merged, E!OnTop
<1>3. EditorFollows' BY <1>2 DEF EditorInv, EditorFollows
<1> QED BY <1>1, <1>3 DEF EditorInv

\* The editor starts a flush, and only whether it is closing changes in the view.
LEMMA FlushKeeps ==
    ASSUME EditorInv, E!StartFlush, ~E!Busy("editor"),
           UNCHANGED <<options, playing, truth, written_values>>,
           live' \in Views,
           live'.shown = live.shown, live'.pending = live.pending, live'.noticed = live.noticed
    PROVE  EditorInv'
<1>1. EditorTypes'
  <2>1. overlaps = overlaps OBVIOUS
  <2> QED BY FlushStarts DEF EditorInv, EditorTypes
<1>2. Merged' = Merged BY DEF Merged, E!OnTop
<1>3. EditorFollows'
  <2> SUFFICES ASSUME overlaps' = {}
               PROVE  /\ options.whole = ~playing.saves
                      /\ ~playing.saves
                      /\ truth = Merged
                      /\ saver'["editor"].copy = Merged
                      /\ saver'["editor"].phase = "stamp" => options.at = saver'["editor"].copy
                      /\ live.noticed => live.shown = truth
    BY <1>2 DEF EditorFollows
  <2>1. overlaps = {} /\ options.whole BY FlushStarts
  <2>2. saver["editor"].phase = "idle" BY DEF E!Busy
  <2> QED BY <2>1, <2>2, FlushStarts DEF EditorInv, EditorFollows, EditorTypes
<1> QED BY <1>1, <1>3 DEF EditorInv

LEMMA EditorOpens == EditorInv /\ (E!Open \/ E!SeeChange) => EditorInv'
<1> SUFFICES ASSUME EditorInv, E!Open \/ E!SeeChange PROVE EditorInv' OBVIOUS
<1>1. EditorTypes'
  <2>1. live' \in Views
    <3>1. CASE E!Open BY <3>1 DEF EditorInv, EditorTypes, E!Open, Views
    <3>2. CASE E!SeeChange BY <3>2 DEF EditorInv, EditorTypes, E!SeeChange, Views
    <3> QED BY <3>1, <3>2
  <2>2. saver' = [saver EXCEPT !["editor"].phase = "reload"] BY DEF E!Open, E!SeeChange
  <2>3. saver' \in [E!Savers -> Hands] BY <2>2 DEF EditorInv, EditorTypes, E!Savers, Hands
  <2> QED BY <2>1, <2>3 DEF EditorInv, EditorTypes, E!Open, E!SeeChange
<1>2. /\ options' = options /\ overlaps' = overlaps /\ playing' = playing /\ truth' = truth
      /\ Merged' = Merged /\ saver'["pass"] = saver["pass"] /\ saver'["editor"].phase = "reload"
  <2>1. saver' = [saver EXCEPT !["editor"].phase = "reload"] BY DEF E!Open, E!SeeChange
  <2>2. saver'["pass"] = saver["pass"] /\ saver'["editor"].phase = "reload"
    BY <2>1 DEF EditorInv, EditorTypes, E!Savers, Hands
  <2>3. live'.pending = live.pending BY DEF E!Open, E!SeeChange, EditorInv, EditorTypes, Views
  <2> QED BY <2>2, <2>3 DEF E!Open, E!SeeChange, Merged, E!OnTop
<1>3. EditorFollows' BY <1>2 DEF EditorInv, EditorFollows
<1> QED BY <1>1, <1>3 DEF EditorInv

LEMMA EditorReloads == EditorInv /\ E!Reload => EditorInv'
<1> SUFFICES ASSUME EditorInv, E!Reload PROVE EditorInv' OBVIOUS
<1>1. PICK r \in BOOLEAN :
        /\ live' = [live EXCEPT !.shown = E!OnTop(live.pending, E!Read(r))]
        /\ overlaps' = IF r THEN overlaps ELSE overlaps \cup {"unreadable"}
  BY DEF E!Reload
<1>2. E!Read(r) \in Values /\ live.pending \in Values
  BY EditorParts
<1>3. E!OnTop(live.pending, E!Read(r)) \in Values BY <1>2, OnTopFacts
<1>5. EditorTypes'
  <2>1. live' \in Views BY <1>1, <1>3 DEF EditorInv, EditorTypes, Views
  <2>2. saver' \in [E!Savers -> Hands] BY IdleHand DEF EditorInv, EditorTypes, E!Reload, E!Savers
  <2> QED BY <2>1, <2>2 DEF EditorInv, EditorTypes, E!Reload
<1>6. /\ options' = options /\ playing' = playing /\ truth' = truth
      /\ saver'["pass"] = saver["pass"] /\ saver'["editor"].phase = "idle"
      /\ live'.pending = live.pending /\ live'.shown = E!OnTop(live.pending, E!Read(r))
  <2>1. saver' = [saver EXCEPT !["editor"] = E!Idle] BY DEF E!Reload
  <2>2. saver'["pass"] = saver["pass"] /\ saver'["editor"].phase = "idle"
    BY <2>1, IdleHand DEF EditorInv, EditorTypes, E!Savers
  <2> QED BY <1>1, <2>2 DEF EditorInv, EditorTypes, E!Reload, Views
<1>7. Merged' = Merged BY <1>6 DEF Merged, E!OnTop
<1>8. options.whole /\ r => live'.shown = Merged BY <1>6 DEF E!Read, Merged
<1>9. EditorFollows' BY <1>1, <1>6, <1>7, <1>8 DEF EditorInv, EditorFollows
<1> QED BY <1>5, <1>9 DEF EditorInv

LEMMA EditorEdits == ASSUME EditorInv, NEW k \in Keys, E!Edit(k) PROVE EditorInv'
<1> DEFINE v == written_values + 1
<1>1. v \in Nat \ {0} BY DEF EditorInv, EditorTypes
<1>2. EditorTypes' BY <1>1 DEF EditorInv, EditorTypes, E!Edit, Values, Views
<1>3. /\ options' = options /\ saver' = saver /\ playing' = playing /\ overlaps' = overlaps
      /\ live'.pending = [live.pending EXCEPT ![k] = v]
      /\ live'.shown = [live.shown EXCEPT ![k] = v] /\ truth' = [truth EXCEPT ![k] = v]
      /\ saver["editor"].phase = "idle" /\ live'.noticed = live.noticed
  BY DEF EditorInv, EditorTypes, E!Edit, E!Frame, E!Busy, Views
<1>4. Merged' = [Merged EXCEPT ![k] = v]
  <2>1. live.pending \in Values /\ options.at \in Values BY EditorParts
  <2>2. E!OnTop([live.pending EXCEPT ![k] = v], options.at) = [E!OnTop(live.pending, options.at) EXCEPT ![k] = v]
    BY <2>1, <1>1, OnTopOfEdit
  <2> QED BY <2>2, <1>3 DEF Merged, E!OnTop
<1>5. EditorFollows' BY <1>3, <1>4 DEF EditorInv, EditorFollows
<1> QED BY <1>2, <1>5 DEF EditorInv

\* Whoever writes while another is at it, leaves a mark.
LEMMA NoOverlap ==
    ASSUME EditorInv, NEW s, E!Overlap(s) = {}
    PROVE  /\ s # "editor" => saver["editor"].phase = "idle"
           /\ s # "pass" => saver["pass"].phase = "idle"
BY DEF E!Overlap, E!Busy, E!Savers

LEMMA EditorWrites == ASSUME EditorInv, NEW s \in E!Savers, E!Write(s) PROVE EditorInv'
<1>1. saver[s].copy \in Values /\ live.pending \in Values /\ options.at \in Values
  BY EditorParts
<1>2. E!OnTop(live.pending, saver[s].copy) \in Values
  BY <1>1, OnTopFacts
<1>4. EditorTypes'
  <2>1. live' \in Views BY DEF EditorInv, EditorTypes, E!Write, Views
  <2>2. saver' = [saver EXCEPT ![s].phase = "stamp"] \/ saver' = [saver EXCEPT ![s] = E!Idle]
    BY DEF E!Write
  <2>3. saver' \in [E!Savers -> Hands] BY <2>2, IdleHand DEF EditorInv, EditorTypes, Hands
  <2>4. truth' \in Values BY <1>2 DEF EditorInv, EditorTypes, E!Write
  <2> QED BY <1>1, <2>1, <2>3, <2>4 DEF EditorInv, EditorTypes, E!Write
<1>5. EditorFollows'
  <2> SUFFICES ASSUME overlaps' = {}
               PROVE  (/\ options.whole = ~playing.saves
                       /\ playing.saves => /\ playing.runs /\ saver["pass"].phase = "idle"
                                           /\ saver["editor"].phase \in {"idle", "reload"}
                       /\ truth = Merged
                       /\ saver["editor"].phase \in {"write", "stamp"} => saver["editor"].copy = Merged
                       /\ saver["editor"].phase = "stamp" => options.at = saver["editor"].copy
                       /\ live.noticed /\ saver["editor"].phase # "reload" /\ ~playing.saves
                            => live.shown = truth)'
    BY DEF EditorFollows
  <2>1. overlaps = {} /\ E!Overlap(s) = {} /\ ~playing.saves BY DEF E!Write
  <2>2. /\ s # "editor" => saver["editor"].phase = "idle"
        /\ s # "pass" => saver["pass"].phase = "idle"
    BY <2>1, NoOverlap
  <2>3. /\ options' = [whole |-> TRUE, at |-> saver[s].copy] /\ playing' = playing
        /\ live'.noticed = FALSE /\ live'.pending = live.pending /\ saver[s].phase = "write"
    BY DEF E!Write, EditorInv, EditorTypes, Views
  <2>4. Merged' = E!OnTop(live.pending, saver[s].copy) BY <2>3 DEF Merged, E!OnTop
  <2>5. CASE s = "editor"
    <3>1. truth' = truth /\ saver' = [saver EXCEPT !["editor"].phase = "stamp"] BY <2>5 DEF E!Write
    <3>2. saver'["editor"].phase = "stamp" /\ saver'["editor"].copy = saver["editor"].copy
      BY <3>1 DEF EditorInv, EditorTypes, E!Savers, Hands
    <3>3. saver["editor"].copy = Merged /\ truth = Merged
      BY <2>1, <2>3, <2>5 DEF EditorInv, EditorFollows
    <3>4. Merged' = Merged 
      <4>1. E!OnTop(live.pending, E!OnTop(live.pending, options.at)) = E!OnTop(live.pending, options.at)
        BY <1>1, OnTopFacts
      <4> QED BY <4>1, <3>3, <2>4, <2>5 DEF Merged
    <3>5. options'.at = saver["editor"].copy /\ options'.whole = TRUE BY <2>3, <2>5
    <3> QED BY <2>1, <2>3, <3>1, <3>2, <3>3, <3>4, <3>5
  <2>6. CASE s = "pass"
    <3>1. truth' = E!OnTop(live.pending, saver["pass"].copy) /\ saver' = [saver EXCEPT !["pass"] = E!Idle]
      BY <2>6 DEF E!Write
    <3>2. saver'["editor"] = saver["editor"] /\ saver["editor"].phase = "idle"
      BY <3>1, <2>2, <2>6 DEF EditorInv, EditorTypes, E!Savers
    <3> QED BY <2>1, <2>3, <2>4, <2>6, <3>1, <3>2
  <2> QED BY <2>5, <2>6 DEF E!Savers
<1> QED BY <1>4, <1>5 DEF EditorInv

LEMMA FlushEnds == EditorInv /\ (E!FlushDone \/ E!FlushFails) => EditorInv'
<1> SUFFICES ASSUME EditorInv, E!FlushDone \/ E!FlushFails PROVE EditorInv' OBVIOUS
<1>1. /\ saver' = [saver EXCEPT !["editor"] = E!Idle]
      /\ options' = options /\ playing' = playing /\ truth' = truth /\ written_values' = written_values
  BY DEF E!FlushDone, E!FlushFails
<1>2. saver' \in [E!Savers -> Hands] /\ saver'["pass"] = saver["pass"] /\ saver'["editor"].phase = "idle"
  BY <1>1, IdleHand DEF EditorInv, EditorTypes, E!Savers
<1>3. CASE E!FlushDone
  <2>1. live' = [live EXCEPT !.pending = E!Blank, !.shown = saver["editor"].copy, !.noticed = TRUE,
                             !.open = live.closing = 0]
    BY <1>3 DEF E!FlushDone
  <2>2. saver["editor"].copy \in Values BY EditorParts DEF E!Savers
  <2>3. /\ live' \in Views /\ live'.pending = E!Blank /\ live'.shown = saver["editor"].copy
    BY <2>1, <2>2, IdleHand DEF EditorInv, EditorTypes, Views
  <2>4. Merged' = options.at
    <3>1. E!OnTop(E!Blank, options.at) = options.at BY EditorParts, OnTopFacts
    <3> QED BY <3>1, <2>3, <1>1 DEF Merged, E!OnTop
  <2>5. EditorTypes' BY <1>1, <1>2, <2>3 DEF EditorInv, EditorTypes
  <2>6. EditorFollows'
    BY <1>1, <1>2, <1>3, <2>3, <2>4 DEF EditorInv, EditorFollows, E!FlushDone
  <2> QED BY <2>5, <2>6 DEF EditorInv
<1>4. CASE E!FlushFails /\ live.closing < 2
  <2>1. live' = live /\ overlaps' = overlaps /\ saver["editor"].phase = "write" BY <1>4 DEF E!FlushFails
  <2>2. Merged' = Merged BY <2>1, <1>1 DEF Merged, E!OnTop
  <2>3. EditorTypes' BY <1>1, <1>2, <2>1 DEF EditorInv, EditorTypes
  <2>4. EditorFollows' BY <1>1, <1>2, <2>1, <2>2 DEF EditorInv, EditorFollows
  <2> QED BY <2>3, <2>4 DEF EditorInv
<1>5. CASE E!FlushFails /\ ~(live.closing < 2)
  <2>1. live' = [live EXCEPT !.open = FALSE, !.pending = E!Blank] /\ overlaps' # {}
    BY <1>5 DEF E!FlushFails
  <2>2. live' \in Views BY <2>1, IdleHand DEF EditorInv, EditorTypes, Views
  <2>3. EditorTypes' BY <1>1, <1>2, <2>2 DEF EditorInv, EditorTypes
  <2>4. EditorFollows' BY <2>1 DEF EditorFollows
  <2> QED BY <2>3, <2>4 DEF EditorInv
<1> QED BY <1>3, <1>4, <1>5

LEMMA EditorDialog ==
    ASSUME EditorInv,
           E!PollFlush \/ E!Close \/ E!Escape \/ E!DropFlush \/ E!Search
              \/ (\E k \in Keys : E!StartCapture(k))
    PROVE  EditorInv'
<1>1. CASE E!PollFlush
  BY <1>1, FlushKeeps DEF E!PollFlush, E!Frame, EditorInv, EditorTypes
<1>2. ASSUME E!Close PROVE EditorInv'
  <2>1. CASE live.pending = E!Blank
    BY <1>2, <2>1, EditorStays DEF E!Close, EditorInv, EditorTypes, Views
  <2>2. CASE live.pending # E!Blank
    <3>1. live' = [live EXCEPT !.closing = 1] BY <1>2, <2>2 DEF E!Close
    <3>2. live' \in Views /\ live'.shown = live.shown /\ live'.pending = live.pending
          /\ live'.noticed = live.noticed
      BY <3>1 DEF EditorInv, EditorTypes, Views
    <3> QED BY <1>2, <2>2, <3>2, FlushKeeps DEF E!Close, E!Frame
  <2> QED BY <2>1, <2>2
<1>3. CASE E!Escape
  <2>1. CASE live.capturing = NoKey BY <1>2, <1>3, <2>1 DEF E!Escape
  <2>2. CASE live.capturing # NoKey
    BY <1>3, <2>2, EditorStays DEF E!Escape, EditorInv, EditorTypes, Views
  <2> QED BY <2>1, <2>2
<1>4. CASE E!DropFlush
  <2>1. live' = [live EXCEPT !.closing = 2] BY <1>4 DEF E!DropFlush
  <2>2. live' \in Views /\ live'.shown = live.shown /\ live'.pending = live.pending
        /\ live'.noticed = live.noticed
    BY <2>1 DEF EditorInv, EditorTypes, Views
  <2> QED BY <1>4, <2>2, FlushKeeps DEF E!DropFlush
<1>5. CASE E!Search
  BY <1>5, EditorStays DEF E!Search, EditorInv, EditorTypes, Views
<1>6. ASSUME NEW k \in Keys, E!StartCapture(k) PROVE EditorInv'
  BY <1>6, EditorStays DEF E!StartCapture, EditorInv, EditorTypes, Views
<1> QED BY <1>1, <1>2, <1>3, <1>4, <1>5, <1>6

LEMMA PassMoves == EditorInv /\ (E!PassReads \/ E!PassFails) => EditorInv'
<1> SUFFICES ASSUME EditorInv, E!PassReads \/ E!PassFails PROVE EditorInv' OBVIOUS
<1>1. /\ options' = options /\ playing' = playing /\ truth' = truth /\ live' = live /\ overlaps' = overlaps
      /\ written_values' \in Nat
  BY DEF E!PassReads, E!PassFails, EditorInv, EditorTypes
<1>2. PICK h \in Hands : saver' = [saver EXCEPT !["pass"] = h]
                      /\ (h.phase = "idle" \/ ~playing.runs)
  <2>1. CASE E!PassFails BY <2>1, IdleHand DEF E!PassFails
  <2>2. CASE E!PassReads
    <3>1. PICK k \in Keys : saver' = [saver EXCEPT !["pass"] =
                 [phase |-> "write", copy |-> [options.at EXCEPT ![k] = written_values + 1]]]
      BY <2>2 DEF E!PassReads
    <3>2. [options.at EXCEPT ![k] = written_values + 1] \in Values
      BY EditorParts DEF Values, EditorInv, EditorTypes
    <3> QED BY <3>1, <3>2, <2>2 DEF Hands, E!PassReads
  <2> QED BY <2>1, <2>2
<1>3. saver' \in [E!Savers -> Hands] /\ saver'["editor"] = saver["editor"] /\ saver'["pass"].phase = h.phase
  BY <1>2 DEF EditorInv, EditorTypes, E!Savers
<1>4. EditorTypes' BY <1>1, <1>3 DEF EditorInv, EditorTypes
<1>5. Merged' = Merged BY <1>1 DEF Merged, E!OnTop
<1>6. h.phase = "idle" \/ ~playing.runs BY <1>2
<1>7. EditorFollows' BY <1>1, <1>3, <1>5, <1>6 DEF EditorInv, EditorFollows
<1> QED BY <1>4, <1>7 DEF EditorInv

LEMMA GameMoves == EditorInv /\ (E!GameStarts \/ E!GameSaves \/ E!GameSaved) => EditorInv'
<1> SUFFICES ASSUME EditorInv, E!GameStarts \/ E!GameSaves \/ E!GameSaved PROVE EditorInv' OBVIOUS
<1>1. CASE E!GameStarts
  <2>1. playing' = [playing EXCEPT !.runs = TRUE, !.copy = options.at] BY <1>1 DEF E!GameStarts
  <2>2. EditorTypes' BY <1>1, <2>1, EditorParts DEF EditorInv, EditorTypes, E!GameStarts
  <2>3. playing'.saves = playing.saves /\ playing'.runs BY <2>1 DEF EditorInv, EditorTypes
  <2>4. Merged' = Merged BY <1>1 DEF Merged, E!OnTop, E!GameStarts
  <2>5. EditorFollows' BY <1>1, <2>3, <2>4 DEF EditorInv, EditorFollows, E!GameStarts
  <2> QED BY <2>2, <2>5 DEF EditorInv
<1>2. CASE E!GameSaves
  <2>1. PICK k \in Keys : playing' = [playing EXCEPT !.saves = TRUE, !.copy[k] = written_values + 1]
    BY <1>2 DEF E!GameSaves
  <2>2. playing' \in [runs : BOOLEAN, saves : BOOLEAN, copy : Values]
        /\ playing'.saves /\ playing'.runs = playing.runs
    <3>1. playing.copy \in Values /\ written_values + 1 \in Nat BY DEF EditorInv, EditorTypes
    <3>2. [playing.copy EXCEPT ![k] = written_values + 1] \in Values BY <3>1 DEF Values
    <3>3. playing' = [playing EXCEPT !.saves = TRUE, !.copy = [playing.copy EXCEPT ![k] = written_values + 1]]
      BY <2>1 DEF EditorInv, EditorTypes
    <3> QED BY <3>2, <3>3 DEF EditorInv, EditorTypes
  <2>3. options' = [options EXCEPT !.whole = FALSE] /\ live' = [live EXCEPT !.noticed = FALSE]
        /\ saver' = saver /\ truth' = truth /\ overlaps' = overlaps \cup E!Overlap("game")
        /\ written_values' = written_values + 1 /\ playing.runs
    BY <1>2 DEF E!GameSaves
  <2>4. live' \in Views /\ live'.pending = live.pending /\ options'.at = options.at /\ ~options'.whole
        /\ options' \in [whole : BOOLEAN, at : Values]
    BY <2>3 DEF EditorInv, EditorTypes, Views
  <2>5. Merged' = Merged BY <2>4 DEF Merged, E!OnTop
  <2>6. EditorTypes' BY <2>2, <2>3, <2>4 DEF EditorInv, EditorTypes
  <2>7. overlaps' = {} => overlaps = {} /\ saver["editor"].phase = "idle" /\ saver["pass"].phase = "idle"
    BY <2>3, NoOverlap
  <2>8. EditorFollows' BY <2>2, <2>3, <2>4, <2>5, <2>7 DEF EditorInv, EditorFollows
  <2> QED BY <2>6, <2>8 DEF EditorInv
<1>3. CASE E!GameSaved
  <2>1. /\ playing' = [playing EXCEPT !.saves = FALSE, !.runs = FALSE] /\ playing.saves
        /\ truth' = E!OnTop(live.pending, playing.copy) /\ saver' = saver
        /\ overlaps' = overlaps \cup E!Overlap("game") /\ written_values' = written_values
        /\ IF options.whole THEN UNCHANGED <<options, live>>
           ELSE options' = [whole |-> TRUE, at |-> playing.copy] /\ live' = [live EXCEPT !.noticed = FALSE]
    BY <1>3 DEF E!GameSaved
  <2>2. playing.copy \in Values /\ live.pending \in Values
    BY EditorParts DEF EditorInv, EditorTypes
  <2>3. truth' \in Values BY <2>1, <2>2, OnTopFacts
  <2>4. live' \in Views /\ live'.pending = live.pending /\ (~options.whole => ~live'.noticed)
    BY <2>1 DEF EditorInv, EditorTypes, Views
  <2>5. playing' \in [runs : BOOLEAN, saves : BOOLEAN, copy : Values] /\ ~playing'.saves
    BY <2>1 DEF EditorInv, EditorTypes
  <2>a. options' \in [whole : BOOLEAN, at : Values]
    <3>1. options' = options \/ options' = [whole |-> TRUE, at |-> playing.copy] BY <2>1
    <3>2. options \in [whole : BOOLEAN, at : Values] BY DEF EditorInv, EditorTypes
    <3>3. [whole |-> TRUE, at |-> playing.copy] \in [whole : BOOLEAN, at : Values] BY <2>2
    <3> QED BY <3>1, <3>2, <3>3
  <2>6. EditorTypes' BY <2>1, <2>a, <2>3, <2>4, <2>5 DEF EditorInv, EditorTypes
  <2>7. ASSUME overlaps' = {}
        PROVE  /\ overlaps = {} /\ saver["editor"].phase = "idle" /\ saver["pass"].phase = "idle"
               /\ options.whole = FALSE
    <3>1. overlaps = {} /\ E!Overlap("game") = {} BY <2>1, <2>7
    <3>2. saver["editor"].phase = "idle" /\ saver["pass"].phase = "idle" BY <3>1, NoOverlap
    <3>3. options.whole = FALSE BY <2>1, <3>1 DEF EditorInv, EditorFollows, EditorTypes
    <3> QED BY <3>1, <3>2, <3>3
  <2>8. options.whole = FALSE => /\ Merged' = truth' /\ options'.whole = TRUE /\ live'.noticed = FALSE
    BY <2>1, <2>4 DEF Merged, E!OnTop, EditorInv, EditorTypes, Views
  <2>9. EditorFollows' BY <2>1, <2>5, <2>7, <2>8 DEF EditorFollows
  <2> QED BY <2>6, <2>9 DEF EditorInv
<1> QED BY <1>1, <1>2, <1>3

LEMMA EditorStep == EditorInv /\ [E!EditorNext]_(E!editorVars) => EditorInv'
<1> SUFFICES ASSUME EditorInv, [E!EditorNext]_(E!editorVars) PROVE EditorInv' OBVIOUS
<1>1. CASE E!Open \/ E!SeeChange BY <1>1, EditorOpens
<1>2. CASE E!Reload BY <1>2, EditorReloads
<1>3. CASE E!FlushDone \/ E!FlushFails BY <1>3, FlushEnds
<1>4. CASE E!PressKey
  <2>1. live.capturing \in Keys BY <1>4 DEF E!PressKey, EditorInv, EditorTypes, Views
  <2> QED BY <1>4, <2>1, EditorEdits DEF E!PressKey
<1>5. ASSUME NEW k \in Keys, E!Edit(k) \/ E!StartCapture(k) PROVE EditorInv'
  BY <1>5, EditorEdits, EditorDialog
<1>6. CASE E!PollFlush \/ E!Close \/ E!Escape \/ E!DropFlush \/ E!Search
  BY <1>6, EditorDialog
<1>7. ASSUME NEW s \in E!Savers, E!Write(s) PROVE EditorInv' BY <1>7, EditorWrites
<1>8. CASE E!PassReads \/ E!PassFails BY <1>8, PassMoves
<1>9. CASE E!GameStarts \/ E!GameSaves \/ E!GameSaved BY <1>9, GameMoves
<1>10. CASE UNCHANGED E!editorVars
  BY <1>10 DEF E!editorVars, EditorInv, EditorTypes, EditorFollows, Merged, E!OnTop
<1> QED BY <1>1, <1>2, <1>3, <1>4, <1>5, <1>6, <1>7, <1>8, <1>9, <1>10 DEF E!EditorNext

LEMMA EditorKeeps == EditorInv => E!EditsAreKept
BY DEF EditorInv, EditorFollows, EditorTypes, E!EditsAreKept, E!AtRest, E!Busy, E!Savers, Merged
-----------------------------------------------------------------------------
\* An instance's own settings.

GameNames == {"snapshot", "new", "old"}
LoaderVersions == {"", "n0", "n1", "n2", "o1"}
Catalogs == [filter : I!Filters \cup {NoKey}, games : Seq(GameNames), error : BOOLEAN]
OptsOrNone == I!Opts \cup {NoKey}
Loaders == {"Vanilla", "Fabric"}
Records == [version : GameNames, loader : Loaders, lver : LoaderVersions, opts : I!Opts]
Forms == [version : GameNames \cup {""}, index : Nat, loader : Loaders,
          lver : LoaderVersions, opts : I!Opts]

SettingsTypes ==
    /\ record \in Records /\ form \in Forms
    /\ listed \in Catalogs /\ catalog \in I!Filters \cup {NoKey} /\ filter \in I!Filters
    /\ DOMAIN cache \subseteq GameNames
    /\ \A g \in DOMAIN cache : cache[g] \in Seq(LoaderVersions)
    /\ marked \in OptsOrNone /\ dirty \in OptsOrNone

\* What is in the form was picked, unless the catalog moved it or the pack left it behind.
Moved == excusedForm \cap {"moved", "stale"} # {}
VersionsArePicked == Moved \/ (record.version \in picked /\ form.version \in picked \cup {""})

\* A loader version of a game that a server offers or that was installed.
Known(game, lver) == I!Contains(I!Offered[game], lver) \/ <<game, lver>> \in paired
PairsAreKnown ==
    /\ record.loader = "Fabric" => Known(record.version, record.lver)
    /\ \A g \in DOMAIN cache : \A i \in DOMAIN cache[g] : Known(g, cache[g][i])

\* What is marked is in the record, and the form differs from it by what is dirty.
Kept == excusedForm \cap I!Unkept = {}
OverridesAreMarked ==
    /\ dialog = "open" => marked # NoKey
    /\ marked = NoKey => dirty = NoKey /\ form.opts = record.opts
    /\ marked # NoKey => form.opts = IF dirty = NoKey THEN marked ELSE dirty
    /\ Kept /\ marked # NoKey => record.opts = marked
    /\ Kept /\ dialog # "open" => dirty = NoKey

SettingsInv == SettingsTypes /\ VersionsArePicked /\ PairsAreKnown /\ OverridesAreMarked

LEMMA SettingsInit == I!Init => SettingsInv
<1> SUFFICES ASSUME I!Init PROVE SettingsInv OBVIOUS
<1>1. PICK v \in {"new", "old"}, l \in {"Vanilla", "Fabric"} :
        record = [version |-> v, loader |-> l, opts |-> "plain",
                  lver |-> IF l = "Vanilla" THEN "" ELSE IF v = "new" THEN "n1" ELSE "o1"]
  BY DEF I!Init
<1>2. record \in Records BY <1>1 DEF Records, GameNames, Loaders, LoaderVersions, I!Opts
<1>3. /\ form = [version |-> record.version, index |-> 1, loader |-> record.loader,
                 lver |-> record.lver, opts |-> record.opts]
      /\ listed = [filter |-> NoKey, games |-> <<>>, error |-> FALSE] /\ catalog = NoKey /\ filter = "all" /\ cache = <<>>
      /\ marked = NoKey /\ dirty = NoKey /\ dialog = "closed"
      /\ picked = {record.version} /\ paired = {<<record.version, record.lver>>}
  BY DEF I!Init, I!FromRecord
<1>4. form \in Forms BY <1>2, <1>3 DEF Forms, Records
<1>5. SettingsTypes BY <1>2, <1>3, <1>4 DEF SettingsTypes, OptsOrNone, I!Filters, Catalogs
<1>6. VersionsArePicked BY <1>3 DEF VersionsArePicked
<1>7. PairsAreKnown BY <1>3 DEF PairsAreKnown, Known
<1>8. OverridesAreMarked BY <1>3 DEF OverridesAreMarked
<1> QED BY <1>5, <1>6, <1>7, <1>8 DEF SettingsInv

LEMMA OfferedFacts ==
    /\ \A f \in I!Filters : I!Games(f) \in Seq(GameNames) /\ I!Games(f) # <<>>
    /\ \A g \in GameNames : I!Offered[g] \in Seq(LoaderVersions)
    /\ I!Indexed \subseteq GameNames
<1>1. \A f \in I!Filters : I!Games(f) \in Seq(GameNames) /\ I!Games(f) # <<>>
  <2>1. <<"snapshot", "new", "old">> \in Seq(GameNames) /\ <<"new", "old">> \in Seq(GameNames)
    BY DEF GameNames
  <2>2. <<"snapshot", "new", "old">> # <<>> /\ <<"new", "old">> # <<>> OBVIOUS
  <2> QED BY <2>1, <2>2 DEF I!Games
<1>2. I!Offered["snapshot"] = <<>> /\ I!Offered["new"] = <<"n2", "n1">> /\ I!Offered["old"] = <<"o1">>
  BY DEF I!Offered
<1>3. \A g \in GameNames : I!Offered[g] \in Seq(LoaderVersions)
  <2>1. <<"n2", "n1">> \in Seq(LoaderVersions) /\ <<"o1">> \in Seq(LoaderVersions)
        /\ <<>> \in Seq(LoaderVersions)
    BY DEF LoaderVersions
  <2> QED BY <1>2, <2>1 DEF GameNames
<1> QED BY <1>1, <1>3 DEF I!Indexed, GameNames

\* The choices of loader versions of a game are known for it.
LEMMA ChoicesAreKnown ==
    ASSUME SettingsInv, NEW game
    PROVE  /\ I!IndexOf(game) \in Seq(LoaderVersions) /\ I!Cached(game) \in Seq(LoaderVersions)
           /\ I!LoaderChoices(game) \in Seq(LoaderVersions)
           /\ \A i \in DOMAIN I!IndexOf(game) : Known(game, I!IndexOf(game)[i])
           /\ \A i \in DOMAIN I!Cached(game) : Known(game, I!Cached(game)[i])
           /\ \A i \in DOMAIN I!LoaderChoices(game) : Known(game, I!LoaderChoices(game)[i])
<1>1. I!IndexOf(game) = <<>> \/ (I!IndexOf(game) = I!Offered[game] /\ game \in GameNames)
  BY OfferedFacts DEF I!IndexOf
<1>2. I!Cached(game) = <<>> \/ (I!Cached(game) = cache[game] /\ game \in DOMAIN cache)
  BY DEF I!Cached, I!CacheKey
<1>e. <<>> \in Seq(LoaderVersions) OBVIOUS
<1>3. I!IndexOf(game) \in Seq(LoaderVersions) BY <1>1, <1>e, OfferedFacts
<1>4. I!Cached(game) \in Seq(LoaderVersions) BY <1>2, <1>e DEF SettingsInv, SettingsTypes
<1>5. \A i \in DOMAIN I!IndexOf(game) : Known(game, I!IndexOf(game)[i])
  BY <1>1, <1>3 DEF Known, I!Contains
<1>6. \A i \in DOMAIN I!Cached(game) : Known(game, I!Cached(game)[i])
  BY <1>2 DEF SettingsInv, PairsAreKnown
<1>7. I!LoaderChoices(game) = I!IndexOf(game) \/ I!LoaderChoices(game) = I!Cached(game)
  BY DEF I!LoaderChoices
<1> QED BY <1>3, <1>4, <1>5, <1>6, <1>7

\* What a step that leaves a part alone keeps of the invariant.
LEMMA PicksStay ==
    ASSUME VersionsArePicked, Moved => Moved', picked \subseteq picked',
           record'.version = record.version, form'.version = form.version
    PROVE  VersionsArePicked'
BY DEF VersionsArePicked

LEMMA PairsStay ==
    ASSUME PairsAreKnown, paired \subseteq paired',
           record'.version = record.version, record'.loader = record.loader, record'.lver = record.lver,
           \A g \in DOMAIN cache' : g \in DOMAIN cache /\ cache'[g] = cache[g]
    PROVE  PairsAreKnown'
BY DEF PairsAreKnown, Known

LEMMA MarksStay ==
    ASSUME OverridesAreMarked, UNCHANGED <<marked, dirty, dialog>>, Kept' => Kept,
           record'.opts = record.opts, form'.opts = form.opts
    PROVE  OverridesAreMarked'
BY DEF OverridesAreMarked

\* The form's loader or loader version changes.
LEMMA LoaderIsPicked ==
    ASSUME SettingsInv, form' \in Forms, form'.version = form.version, form'.opts = form.opts,
           UNCHANGED <<record, listed, catalog, filter, cache, dialog, marked, dirty, picked, paired, excusedForm>>
    PROVE  SettingsInv'
<1>1. SettingsTypes' BY DEF SettingsInv, SettingsTypes
<1>2. VersionsArePicked' BY PicksStay DEF SettingsInv, Moved
<1>3. PairsAreKnown' BY PairsStay DEF SettingsInv
<1>4. OverridesAreMarked' BY MarksStay DEF SettingsInv, Kept
<1> QED BY <1>1, <1>2, <1>3, <1>4 DEF SettingsInv

\* The catalogs change, but none of what is known of a game.
LEMMA CatalogsMove ==
    ASSUME SettingsInv, listed' \in Catalogs, catalog' \in I!Filters \cup {NoKey}, filter' \in I!Filters,
           \A g \in DOMAIN cache' : g \in DOMAIN cache /\ cache'[g] = cache[g],
           UNCHANGED <<record, form, dialog, marked, dirty, picked, paired, excusedForm>>
    PROVE  SettingsInv'
<1>1. SettingsTypes' BY DEF SettingsInv, SettingsTypes
<1>2. VersionsArePicked' BY PicksStay DEF SettingsInv, Moved
<1>3. PairsAreKnown' BY PairsStay DEF SettingsInv
<1>4. OverridesAreMarked' BY MarksStay DEF SettingsInv, Kept
<1> QED BY <1>1, <1>2, <1>3, <1>4 DEF SettingsInv

LEMMA SettingsLook == SettingsInv /\ I!Look => SettingsInv'
<1> SUFFICES ASSUME SettingsInv, I!Look PROVE SettingsInv' OBVIOUS
<1>1. PICK l \in LoaderVersions : form' = [form EXCEPT !.lver = l]
  <2> DEFINE choices == I!LoaderChoices(I!Selected)
  <2>1. choices \in Seq(LoaderVersions) BY ChoicesAreKnown
  <2>2. choices # <<>> => Head(choices) \in LoaderVersions BY <2>1
  <2>3. "" \in LoaderVersions BY DEF LoaderVersions
  <2>4. form = [form EXCEPT !.lver = form.lver] /\ form.lver \in LoaderVersions
    BY DEF SettingsInv, SettingsTypes, Forms
  <2>5. form' = I!Corrected BY DEF I!Look
  <2> HIDE DEF choices
  <2>6. \/ I!Corrected = [form EXCEPT !.lver = ""]
        \/ choices # <<>> /\ I!Corrected = [form EXCEPT !.lver = Head(choices)]
        \/ I!Corrected = form
    BY DEF I!Corrected, choices
  <2> QED BY <2>2, <2>3, <2>4, <2>5, <2>6
<1>2. form' \in Forms /\ form'.version = form.version /\ form'.opts = form.opts
  BY <1>1 DEF SettingsInv, SettingsTypes, Forms
<1> QED BY <1>2, LoaderIsPicked DEF I!Look, I!catalogVars, I!saveVars, I!history

LEMMA SettingsLoader ==
    ASSUME SettingsInv,
           (\E l \in Loaders : I!SetLoader(l)) \/ (\E i \in Nat : I!SetLoaderVersion(i))
    PROVE  SettingsInv'
<1>1. ASSUME NEW l \in Loaders, I!SetLoader(l) PROVE SettingsInv'
  <2>1. form' \in Forms /\ form'.version = form.version /\ form'.opts = form.opts
    BY <1>1 DEF I!SetLoader, SettingsInv, SettingsTypes, Forms, LoaderVersions
  <2> QED BY <1>1, <2>1, LoaderIsPicked DEF I!SetLoader, I!catalogVars, I!loaderVars, I!saveVars, I!history
<1>2. ASSUME NEW i \in Nat, I!SetLoaderVersion(i) PROVE SettingsInv'
  <2>1. I!LoaderChoices(I!Selected)[i] \in LoaderVersions
    BY <1>2, ChoicesAreKnown DEF I!SetLoaderVersion
  <2>2. form' \in Forms /\ form'.version = form.version /\ form'.opts = form.opts
    BY <1>2, <2>1 DEF I!SetLoaderVersion, SettingsInv, SettingsTypes, Forms
  <2> QED BY <1>2, <2>2, LoaderIsPicked DEF I!SetLoaderVersion, I!catalogVars, I!loaderVars, I!saveVars, I!history
<1> QED BY <1>1, <1>2

LEMMA SettingsCatalog ==
    ASSUME SettingsInv,
           I!SyncCatalog \/ I!ChangeFilter \/ I!RefreshVersions \/ I!RefreshLoader
    PROVE  SettingsInv'
<1>1. ASSUME NEW b \in BOOLEAN, I!StartCatalog(b)
      PROVE  listed' \in Catalogs /\ catalog' \in I!Filters \cup {NoKey}
  BY <1>1 DEF I!StartCatalog, SettingsInv, SettingsTypes, Catalogs
<1>2. CASE I!SyncCatalog
  BY <1>1, <1>2, CatalogsMove DEF I!SyncCatalog, I!loaderVars, I!saveVars, I!history, SettingsInv, SettingsTypes
<1>3. CASE I!ChangeFilter
  BY <1>3, CatalogsMove DEF I!ChangeFilter, I!loaderVars, I!saveVars, I!history, SettingsInv, SettingsTypes
<1>4. CASE I!RefreshVersions
  <2>1. DOMAIN cache' = {}
    <3>1. cache' = <<>> BY <1>4 DEF I!RefreshVersions
    <3> QED BY <3>1
  <2>2. I!StartCatalog(TRUE) BY <1>4 DEF I!RefreshVersions
  <2>3. listed' \in Catalogs /\ catalog' \in I!Filters \cup {NoKey} BY <2>2, <1>1
  <2>4. filter' \in I!Filters BY <1>4 DEF I!RefreshVersions, SettingsInv, SettingsTypes
  <2> QED BY <1>4, <2>1, <2>3, <2>4, CatalogsMove DEF I!RefreshVersions, I!saveVars, I!history
<1>5. CASE I!RefreshLoader
  BY <1>5, CatalogsMove DEF I!RefreshLoader, I!catalogVars, I!saveVars, I!history, SettingsInv, SettingsTypes
<1> QED BY <1>2, <1>3, <1>4, <1>5

\* Where a version stands in a catalog.
LEMMA PlaceFacts ==
    ASSUME NEW games \in Seq(GameNames), NEW version
    PROVE  /\ I!Place(games, version) \in Nat
           /\ games # <<>> => games[I!Place(games, version)] \in GameNames
           /\ I!Contains(games, version) => games[I!Place(games, version)] = version
<1>1. CASE I!Contains(games, version)
  <2>1. \E i \in DOMAIN games : games[i] = version BY <1>1 DEF I!Contains
  <2>2. I!Place(games, version) \in DOMAIN games /\ games[I!Place(games, version)] = version
    BY <1>1, <2>1 DEF I!Place
  <2> QED BY <2>2
<1>2. CASE ~I!Contains(games, version) BY <1>2 DEF I!Place
<1> QED BY <1>1, <1>2

LEMMA SettingsPollCatalog == SettingsInv /\ I!PollCatalog => SettingsInv'
<1> SUFFICES ASSUME SettingsInv, I!PollCatalog PROVE SettingsInv' OBVIOUS
<1>1. catalog \in I!Filters /\ catalog' = NoKey
  BY DEF I!PollCatalog, SettingsInv, SettingsTypes
<1>2. I!Games(catalog) \in Seq(GameNames) /\ I!Games(catalog) # <<>> BY <1>1, OfferedFacts
<1>3. UNCHANGED <<record, filter, cache, dialog, marked, dirty, picked, paired>>
  BY DEF I!PollCatalog, I!loaderVars, I!saveVars
<1>4. /\ listed' \in Catalogs /\ form' \in Forms /\ form'.opts = form.opts
      /\ excusedForm \subseteq excusedForm' /\ excusedForm' \subseteq excusedForm \cup {"moved"}
      /\ form'.version \in {form.version, ""} \/ "moved" \in excusedForm'
  <2>1. CASE /\ listed' = [filter |-> catalog, games |-> I!Games(catalog), error |-> FALSE]
             /\ form' = I!Refilled(I!Games(catalog))
             /\ excusedForm' = IF I!Contains(I!Games(catalog), form.version) THEN excusedForm
                               ELSE excusedForm \cup {"moved"}
    <3> DEFINE at == I!Place(I!Games(catalog), form.version)
    <3>1. /\ at \in Nat /\ I!Games(catalog)[at] \in GameNames
          /\ I!Contains(I!Games(catalog), form.version) => I!Games(catalog)[at] = form.version
      BY <1>2, PlaceFacts
    <3>2. form' = [form EXCEPT !.index = at, !.version = I!Games(catalog)[at]]
      BY <2>1 DEF I!Refilled
    <3> HIDE DEF at
    <3>3. form' \in Forms /\ form'.opts = form.opts /\ form'.version = I!Games(catalog)[at]
      BY <3>1, <3>2 DEF SettingsInv, SettingsTypes, Forms
    <3>4. listed' \in Catalogs BY <1>1, <1>2, <2>1 DEF Catalogs
    <3> QED BY <2>1, <3>1, <3>3, <3>4
  <2>2. CASE /\ listed' = [filter |-> catalog, games |-> <<>>, error |-> TRUE]
             /\ form' = [form EXCEPT !.index = 1, !.version = ""]
             /\ UNCHANGED excusedForm
    <3>1. form' \in Forms /\ form'.opts = form.opts /\ form'.version = ""
      BY <2>2 DEF SettingsInv, SettingsTypes, Forms
    <3>2. listed' \in Catalogs BY <1>1, <2>2 DEF Catalogs
    <3> QED BY <2>2, <3>1, <3>2
  <2> QED BY <2>1, <2>2 DEF I!PollCatalog
<1>5. SettingsTypes' BY <1>1, <1>3, <1>4 DEF SettingsInv, SettingsTypes
<1>6. VersionsArePicked' BY <1>3, <1>4 DEF SettingsInv, VersionsArePicked, Moved
<1>7. PairsAreKnown' BY <1>3, PairsStay DEF SettingsInv
<1>8. Kept' => Kept BY <1>4 DEF Kept
<1>9. OverridesAreMarked' BY <1>3, <1>4, <1>8, MarksStay DEF SettingsInv
<1> QED BY <1>5, <1>6, <1>7, <1>9 DEF SettingsInv

LEMMA SettingsPollLoader == ASSUME SettingsInv, NEW g \in GameNames, I!PollLoader(g) PROVE SettingsInv'
<1>1. PICK answer \in {I!Offered[g], <<>>} :
        cache' = [h \in DOMAIN cache \cup {g} |-> IF h = g THEN answer ELSE cache[h]]
  BY DEF I!PollLoader
<1>2. answer \in Seq(LoaderVersions) /\ \A i \in DOMAIN answer : Known(g, answer[i])
  <2>1. CASE answer = <<>> BY <2>1
  <2>2. CASE answer = I!Offered[g] BY <2>2, OfferedFacts DEF Known, I!Contains
  <2> QED BY <2>1, <2>2
<1>3. UNCHANGED <<record, form, listed, catalog, filter, dialog, marked, dirty, picked, paired, excusedForm>>
  BY DEF I!PollLoader, I!catalogVars, I!saveVars, I!history
<1>4. SettingsTypes' BY <1>1, <1>2, <1>3 DEF SettingsInv, SettingsTypes
<1>5. VersionsArePicked' BY <1>3, PicksStay DEF SettingsInv, Moved
<1>6. PairsAreKnown' BY <1>1, <1>2, <1>3 DEF SettingsInv, PairsAreKnown, Known
<1>7. OverridesAreMarked' BY <1>3, MarksStay DEF SettingsInv, Kept
<1> QED BY <1>4, <1>5, <1>6, <1>7 DEF SettingsInv

LEMMA SettingsSetGame == ASSUME SettingsInv, NEW i \in Nat, I!SetGame(i) PROVE SettingsInv'
<1>1. listed.games[i] \in GameNames
  BY DEF I!SetGame, SettingsInv, SettingsTypes, Catalogs
<1>2. form' = [form EXCEPT !.index = i, !.version = listed.games[i]] BY DEF I!SetGame
<1>3. form' \in Forms /\ form'.version = listed.games[i] /\ form'.opts = form.opts
  BY <1>1, <1>2 DEF SettingsInv, SettingsTypes, Forms
<1>4. /\ picked' = picked \cup {listed.games[i]}
      /\ UNCHANGED <<record, listed, catalog, filter, cache, dialog, marked, dirty, paired, excusedForm>>
  BY DEF I!SetGame, I!catalogVars, I!loaderVars, I!saveVars
<1>5. SettingsTypes' BY <1>3, <1>4 DEF SettingsInv, SettingsTypes
<1>6. VersionsArePicked' BY <1>3, <1>4 DEF SettingsInv, VersionsArePicked, Moved
<1>7. PairsAreKnown' BY <1>4, PairsStay DEF SettingsInv
<1>8. OverridesAreMarked' BY <1>3, <1>4, MarksStay DEF SettingsInv, Kept
<1> QED BY <1>5, <1>6, <1>7, <1>8 DEF SettingsInv

\* The loader version that is saved is known for the version that is.
LEMMA ResolvedIsKnown ==
    ASSUME SettingsInv, I!Resolved # NoKey
    PROVE  I!Resolved \in LoaderVersions /\ (form.loader = "Fabric" => Known(form.version, I!Resolved))
<1> DEFINE choices == I!LoaderChoices(form.version)
<1>0. form.loader \in Loaders /\ form.lver \in LoaderVersions BY DEF SettingsInv, SettingsTypes, Forms
<1>1. CASE form.loader = "Vanilla" BY <1>0, <1>1 DEF I!Resolved
<1>2. CASE form.loader = "Fabric" /\ form.lver = ""
  <2>1. I!Resolved = I!Latest(form.version) BY <1>2 DEF I!Resolved
  <2>2. choices # <<>> /\ I!Resolved = Head(choices) BY <2>1 DEF I!Latest
  <2>3. choices \in Seq(LoaderVersions) /\ \A i \in DOMAIN choices : Known(form.version, choices[i])
    BY ChoicesAreKnown
  <2> HIDE DEF choices
  <2>4. Head(choices) = choices[1] /\ 1 \in DOMAIN choices BY <2>2, <2>3
  <2> QED BY <2>2, <2>3, <2>4
<1>3. CASE form.loader = "Fabric" /\ form.lver # ""
  <2>1. /\ I!Resolved = form.lver
        /\ I!Contains(I!IndexOf(form.version), form.lver) \/ I!Contains(I!Cached(form.version), form.lver)
    BY <1>3 DEF I!Resolved
  <2>2. Known(form.version, form.lver)
    <3>1. CASE I!Contains(I!IndexOf(form.version), form.lver)
      <4>1. PICK i \in 1..Len(I!IndexOf(form.version)) : I!IndexOf(form.version)[i] = form.lver
        BY <3>1 DEF I!Contains
      <4> QED BY <4>1, ChoicesAreKnown
    <3>2. CASE I!Contains(I!Cached(form.version), form.lver)
      <4>1. PICK i \in 1..Len(I!Cached(form.version)) : I!Cached(form.version)[i] = form.lver
        BY <3>2 DEF I!Contains
      <4> QED BY <4>1, ChoicesAreKnown
    <3> QED BY <2>1, <3>1, <3>2
  <2> QED BY <1>0, <2>1, <2>2
<1> QED BY <1>0, <1>1, <1>2, <1>3 DEF Loaders

LEMMA SettingsSave == SettingsInv /\ I!Save => SettingsInv'
<1> SUFFICES ASSUME SettingsInv, I!Save PROVE SettingsInv' OBVIOUS
<1>1. I!Resolved # NoKey /\ form.version # "" BY DEF I!Save, I!Valid
<1>2. /\ record' = [record EXCEPT !.version = form.version, !.loader = form.loader, !.lver = I!Resolved]
      /\ UNCHANGED <<form, listed, catalog, filter, cache, dialog, marked, dirty, picked, paired, excusedForm>>
  BY DEF I!Save, I!catalogVars, I!loaderVars, I!saveVars, I!history
<1>3. I!Resolved \in LoaderVersions /\ (form.loader = "Fabric" => Known(form.version, I!Resolved))
  BY <1>1, ResolvedIsKnown
<1>4. form.version \in GameNames /\ form.loader \in Loaders
  BY <1>1 DEF SettingsInv, SettingsTypes, Forms
<1>5. /\ record' \in Records /\ record'.version = form.version /\ record'.loader = form.loader
      /\ record'.lver = I!Resolved /\ record'.opts = record.opts
  BY <1>2, <1>3, <1>4 DEF SettingsInv, SettingsTypes, Records
<1>6. SettingsTypes' BY <1>2, <1>5 DEF SettingsInv, SettingsTypes
<1>7. VersionsArePicked'
  <2>1. Moved => Moved' BY <1>2 DEF Moved
  <2>2. picked' = picked /\ form' = form BY <1>2
  <2>3. Moved \/ form.version \in picked BY <1>1 DEF SettingsInv, VersionsArePicked
  <2> QED BY <1>5, <2>1, <2>2, <2>3 DEF VersionsArePicked
<1>8. PairsAreKnown' BY <1>2, <1>3, <1>5 DEF SettingsInv, PairsAreKnown, Known
<1>9. OverridesAreMarked' BY <1>2, <1>5, MarksStay DEF SettingsInv, Kept
<1> QED BY <1>6, <1>7, <1>8, <1>9 DEF SettingsInv

LEMMA SettingsDetect == SettingsInv /\ I!Detect => SettingsInv'
<1> SUFFICES ASSUME SettingsInv, I!Detect PROVE SettingsInv' OBVIOUS
<1>1. PICK found \in SUBSET I!Profiles : \E p \in I!DetectedFrom(found) :
        /\ form' = [form EXCEPT !.version = p.version, !.loader = p.loader, !.lver = p.lver,
                                !.index = IF I!Contains(listed.games, p.version)
                                          THEN I!Place(listed.games, p.version) ELSE @]
        /\ cache' = IF p.loader = "Vanilla" \/ I!Contains(I!Cached(p.version), p.lver) THEN cache
                    ELSE [g \in DOMAIN cache \cup {p.version} |->
                            IF g = p.version THEN <<p.lver>> \o I!Cached(g) ELSE cache[g]]
        /\ record' = [record EXCEPT !.version = p.version, !.loader = p.loader, !.lver = p.lver]
        /\ picked' = picked \cup {p.version} /\ paired' = paired \cup {<<p.version, p.lver>>}
  BY DEF I!Detect
<1>2. PICK p \in I!DetectedFrom(found) :
        /\ form' = [form EXCEPT !.version = p.version, !.loader = p.loader, !.lver = p.lver,
                                !.index = IF I!Contains(listed.games, p.version)
                                          THEN I!Place(listed.games, p.version) ELSE @]
        /\ cache' = IF p.loader = "Vanilla" \/ I!Contains(I!Cached(p.version), p.lver) THEN cache
                    ELSE [g \in DOMAIN cache \cup {p.version} |->
                            IF g = p.version THEN <<p.lver>> \o I!Cached(g) ELSE cache[g]]
        /\ record' = [record EXCEPT !.version = p.version, !.loader = p.loader, !.lver = p.lver]
        /\ picked' = picked \cup {p.version} /\ paired' = paired \cup {<<p.version, p.lver>>}
  BY <1>1
<1>3. p.version \in GameNames /\ p.loader \in Loaders /\ p.lver \in LoaderVersions
  <2>1. p \in I!Profiles BY DEF I!DetectedFrom
  <2>2. \A q \in I!Profiles : q.version \in GameNames /\ q.loader \in Loaders /\ q.lver \in LoaderVersions
    <3> SUFFICES ASSUME NEW q \in I!Profiles
                 PROVE  q.version \in GameNames /\ q.loader \in Loaders /\ q.lver \in LoaderVersions
      OBVIOUS
    <3>1. ASSUME NEW n, NEW v \in GameNames, NEW l \in Loaders, NEW o \in LoaderVersions,
                 q = [score |-> n, version |-> v, loader |-> l, lver |-> o]
          PROVE  q.version \in GameNames /\ q.loader \in Loaders /\ q.lver \in LoaderVersions
      BY <3>1
    <3>2. /\ "new" \in GameNames /\ "old" \in GameNames /\ "snapshot" \in GameNames
          /\ "Fabric" \in Loaders /\ "Vanilla" \in Loaders
          /\ "n0" \in LoaderVersions /\ "o1" \in LoaderVersions /\ "" \in LoaderVersions
      BY DEF GameNames, Loaders, LoaderVersions
    <3>3. CASE q = [score |-> 500, version |-> "new", loader |-> "Fabric", lver |-> "n0"]
      BY <3>1, <3>2, <3>3
    <3>4. CASE q = [score |-> 500, version |-> "old", loader |-> "Fabric", lver |-> "o1"]
      BY <3>1, <3>2, <3>4
    <3>5. CASE q = [score |-> 100, version |-> "old", loader |-> "Vanilla", lver |-> ""]
      BY <3>1, <3>2, <3>5
    <3>6. CASE q = [score |-> 100, version |-> "snapshot", loader |-> "Vanilla", lver |-> ""]
      BY <3>1, <3>2, <3>6
    <3> QED BY <3>3, <3>4, <3>5, <3>6, Zenon DEF I!Profiles
  <2> QED BY <2>1, <2>2
<1>4. UNCHANGED <<listed, catalog, filter, dialog, marked, dirty, excusedForm>>
  BY DEF I!Detect, I!catalogVars, I!saveVars
<1>5. form' \in Forms /\ form'.version = p.version /\ form'.opts = form.opts
  <2>1. I!Place(listed.games, p.version) \in Nat
    BY PlaceFacts DEF SettingsInv, SettingsTypes, Catalogs
  <2> QED BY <1>2, <1>3, <2>1 DEF SettingsInv, SettingsTypes, Forms
<1>6. /\ record' \in Records /\ record'.version = p.version /\ record'.lver = p.lver
      /\ record'.opts = record.opts
  BY <1>2, <1>3 DEF SettingsInv, SettingsTypes, Records
<1> DEFINE KnownNow(g, l) == I!Contains(I!Offered[g], l) \/ <<g, l>> \in paired'
<1>k. \A g, l : Known(g, l) => KnownNow(g, l) BY <1>2 DEF Known
<1>p. KnownNow(p.version, p.lver) BY <1>2
<1>7. /\ DOMAIN cache' \subseteq GameNames
      /\ \A g \in DOMAIN cache' : cache'[g] \in Seq(LoaderVersions)
      /\ \A g \in DOMAIN cache' : \A i \in DOMAIN cache'[g] : KnownNow(g, cache'[g][i])
  <2>1. CASE cache' = cache
    <3> HIDE DEF KnownNow
    <3> QED BY <1>k, <2>1 DEF SettingsInv, SettingsTypes, PairsAreKnown
  <2>2. CASE cache' = [g \in DOMAIN cache \cup {p.version} |->
                         IF g = p.version THEN <<p.lver>> \o I!Cached(g) ELSE cache[g]]
    <3> DEFINE old == I!Cached(p.version)
               new == <<p.lver>> \o old
    <3>1. old \in Seq(LoaderVersions) /\ \A i \in DOMAIN old : Known(p.version, old[i])
      BY ChoicesAreKnown
    <3> HIDE DEF old, KnownNow
    <3>3. new \in Seq(LoaderVersions) /\ \A i \in DOMAIN new : new[i] = p.lver \/ \E j \in DOMAIN old : new[i] = old[j]
      <4>1. new \in Seq(LoaderVersions) /\ Len(new) = 1 + Len(old) BY <3>1, <1>3
      <4>2. ASSUME NEW i \in DOMAIN new PROVE new[i] = p.lver \/ \E j \in DOMAIN old : new[i] = old[j]
        <5>1. CASE i = 1 BY <5>1, <3>1
        <5>2. CASE i # 1
          <6>1. i - 1 \in DOMAIN old /\ new[i] = old[i - 1] BY <3>1, <4>1, <4>2, <5>2
          <6> QED BY <6>1
        <5> QED BY <5>1, <5>2
      <4> QED BY <4>1, <4>2
    <3>5. \A i \in DOMAIN new : KnownNow(p.version, new[i]) BY <1>k, <1>p, <3>1, <3>3
    <3> HIDE DEF new
    <3>6. DOMAIN cache' = DOMAIN cache \cup {p.version} BY <2>2
    <3>7. cache'[p.version] = new BY <2>2 DEF new, old
    <3>8. \A g \in DOMAIN cache' : g # p.version => g \in DOMAIN cache /\ cache'[g] = cache[g] BY <2>2
    <3>9. \A g \in DOMAIN cache : cache[g] \in Seq(LoaderVersions) /\ \A i \in DOMAIN cache[g] : Known(g, cache[g][i])
      BY DEF SettingsInv, SettingsTypes, PairsAreKnown
    <3>a. DOMAIN cache \subseteq GameNames BY DEF SettingsInv, SettingsTypes
    <3>b. ASSUME NEW g \in DOMAIN cache'
          PROVE  cache'[g] \in Seq(LoaderVersions) /\ \A i \in DOMAIN cache'[g] : KnownNow(g, cache'[g][i])
      <4>1. CASE g = p.version BY <4>1, <3>3, <3>5, <3>7
      <4>2. CASE g # p.version BY <4>2, <3>b, <3>8, <3>9, <1>k
      <4> QED BY <4>1, <4>2
    <3> QED BY <1>3, <3>6, <3>a, <3>b
  <2> QED BY <1>2, <2>1, <2>2
<1>8. SettingsTypes' BY <1>4, <1>5, <1>6, <1>7 DEF SettingsInv, SettingsTypes
<1>9. VersionsArePicked' BY <1>2, <1>5, <1>6 DEF VersionsArePicked
<1>10. PairsAreKnown'
  <2>1. Known(record.version, record.lver)' BY <1>2, <1>6 DEF Known
  <2>2. (\A g \in DOMAIN cache : \A i \in DOMAIN cache[g] : Known(g, cache[g][i]))' BY <1>7 DEF Known
  <2> QED BY <2>1, <2>2 DEF PairsAreKnown
<1>11. OverridesAreMarked' BY <1>4, <1>5, <1>6, MarksStay DEF SettingsInv, Kept
<1> QED BY <1>8, <1>9, <1>10, <1>11 DEF SettingsInv

LEMMA SettingsPackUpdate == SettingsInv /\ I!PackUpdate => SettingsInv'
<1> SUFFICES ASSUME SettingsInv, I!PackUpdate PROVE SettingsInv' OBVIOUS
<1>1. /\ record' = [record EXCEPT !.version = "new", !.lver = "n2"]
      /\ picked' = {"new"} /\ paired' = paired \cup {<<"new", "n2">>}
      /\ excusedForm' = IF form.version \in {"new", ""} THEN excusedForm ELSE excusedForm \cup {"stale"}
      /\ UNCHANGED <<form, listed, catalog, filter, cache, dialog, marked, dirty>>
  BY DEF I!PackUpdate, I!catalogVars, I!loaderVars, I!saveVars
<1>2. /\ record' \in Records /\ record'.version = "new" /\ record'.lver = "n2" /\ record'.opts = record.opts
  BY <1>1 DEF SettingsInv, SettingsTypes, Records, GameNames, LoaderVersions
<1>3. SettingsTypes' BY <1>1, <1>2 DEF SettingsInv, SettingsTypes
<1>4. VersionsArePicked'
  <2>1. CASE form.version \in {"new", ""}
    <3>1. picked' = {"new"} /\ form' = form BY <1>1
    <3> QED BY <1>2, <2>1, <3>1 DEF VersionsArePicked
  <2>2. CASE form.version \notin {"new", ""}
    <3>1. "stale" \in excusedForm' BY <1>1, <2>2
    <3>2. Moved' BY <3>1 DEF Moved
    <3> QED BY <3>2 DEF VersionsArePicked
  <2> QED BY <2>1, <2>2
<1>5. PairsAreKnown'
  <2>1. Known(record.version, record.lver)'
    <3>1. <<"new", "n2">> \in paired' BY <1>1
    <3> QED BY <1>2, <3>1 DEF Known
  <2>2. (\A g \in DOMAIN cache : \A i \in DOMAIN cache[g] : Known(g, cache[g][i]))'
    BY <1>1 DEF SettingsInv, PairsAreKnown, Known
  <2> QED BY <2>1, <2>2 DEF PairsAreKnown
<1>6. Kept' => Kept BY <1>1 DEF Kept
<1>7. OverridesAreMarked' BY <1>1, <1>2, <1>6, MarksStay DEF SettingsInv
<1> QED BY <1>3, <1>4, <1>5, <1>7 DEF SettingsInv

\* The overrides, or whether the dialog is open, change: the versions do not.
LEMMA OverridesMove ==
    ASSUME SettingsInv, record' \in Records, form' \in Forms, marked' \in OptsOrNone, dirty' \in OptsOrNone,
           record'.version = record.version, record'.loader = record.loader, record'.lver = record.lver,
           form'.version = form.version, Moved => Moved', OverridesAreMarked',
           UNCHANGED <<listed, catalog, filter, cache, picked, paired>>
    PROVE  SettingsInv'
<1>1. SettingsTypes' BY DEF SettingsInv, SettingsTypes
<1>2. VersionsArePicked' BY PicksStay DEF SettingsInv
<1>3. PairsAreKnown' BY PairsStay DEF SettingsInv
<1> QED BY <1>1, <1>2, <1>3 DEF SettingsInv

\* What is written of the overrides, and whether that is excused.
LEMMA WrittenFacts ==
    ASSUME SettingsInv, NEW o \in I!Opts
    PROVE  /\ I!Written(o) \in Records /\ I!Written(o).version = record.version
           /\ I!Written(o).loader = record.loader /\ I!Written(o).lver = record.lver
           /\ I!Judged(o) \cap I!Unkept = {} => I!Written(o).opts = o
           /\ Moved => I!Judged(o) \cap {"moved", "stale"} # {}
<1>1. CASE I!Writable(o)
  <2>1. I!Written(o) = [record EXCEPT !.opts = o] /\ I!Judged(o) = excusedForm \ I!Unkept
    BY <1>1 DEF I!Written, I!Judged
  <2> QED BY <2>1 DEF SettingsInv, SettingsTypes, Records, Moved, I!Unkept
<1>2. CASE ~I!Writable(o)
  <2>1. I!Written(o) = record /\ I!Judged(o) = excusedForm \cup {"failed"}
    BY <1>2 DEF I!Written, I!Judged
  <2> QED BY <2>1 DEF SettingsInv, SettingsTypes, Records, Moved, I!Unkept
<1> QED BY <1>1, <1>2

LEMMA SettingsOpen == SettingsInv /\ (I!Open \/ I!Away) => SettingsInv'
<1>1. ASSUME SettingsInv, I!Open PROVE SettingsInv'
  <2>1. /\ dialog' = "open" /\ marked' = IF marked = NoKey THEN form.opts ELSE marked
        /\ UNCHANGED <<record, form, listed, catalog, filter, cache, dirty, picked, paired, excusedForm>>
    BY <1>1 DEF I!Open, I!catalogVars, I!loaderVars, I!history
  <2>2. form.opts \in I!Opts /\ form.opts # NoKey BY <1>1, OptsAssumption DEF SettingsInv, SettingsTypes, Forms
  <2>3. OverridesAreMarked' BY <1>1, <2>1, <2>2 DEF SettingsInv, OverridesAreMarked, Kept
  <2>4. marked' \in OptsOrNone BY <1>1, <2>1, <2>2 DEF SettingsInv, SettingsTypes, OptsOrNone
  <2> QED BY <1>1, <2>1, <2>3, <2>4, OverridesMove DEF SettingsInv, SettingsTypes, Moved
<1>2. ASSUME SettingsInv, I!Away PROVE SettingsInv'
  <2>1. /\ dialog = "open" /\ dialog' = "away"
        /\ excusedForm' = IF dirty = NoKey THEN excusedForm ELSE excusedForm \cup {"left"}
        /\ UNCHANGED <<record, form, listed, catalog, filter, cache, marked, dirty, picked, paired>>
    BY <1>2 DEF I!Away, I!catalogVars, I!loaderVars, I!saveVars
  <2>2. OverridesAreMarked' BY <1>2, <2>1 DEF SettingsInv, OverridesAreMarked, Kept, I!Unkept
  <2> QED BY <1>2, <2>1, <2>2, OverridesMove DEF SettingsInv, SettingsTypes, Moved
<1> QED BY <1>1, <1>2

LEMMA SettingsEdit == ASSUME SettingsInv, NEW o \in I!Opts, I!Edit(o) PROVE SettingsInv'
<1>1. /\ form' = [form EXCEPT !.opts = o] /\ dirty' = (IF o = marked THEN NoKey ELSE o) /\ dialog = "open"
      /\ UNCHANGED <<record, listed, catalog, filter, cache, dialog, marked, picked, paired, excusedForm>>
  BY DEF I!Edit, I!Clicked, I!catalogVars, I!loaderVars, I!history
<1>2. form' \in Forms /\ form'.version = form.version /\ form'.opts = o
  BY <1>1 DEF SettingsInv, SettingsTypes, Forms
<1>3. o # NoKey BY OptsAssumption
<1>4. OverridesAreMarked' BY <1>1, <1>2, <1>3 DEF SettingsInv, OverridesAreMarked, Kept
<1>5. dirty' \in OptsOrNone BY <1>1 DEF OptsOrNone
<1> QED BY <1>1, <1>2, <1>4, <1>5, OverridesMove DEF SettingsInv, SettingsTypes, Moved

LEMMA SettingsWritten ==
    ASSUME SettingsInv, I!Autosave \/ I!SaveOverrides \/ I!Done
    PROVE  SettingsInv'
<1>1. form.opts \in I!Opts /\ form.opts # NoKey BY OptsAssumption DEF SettingsInv, SettingsTypes, Forms
<1>2. /\ I!Written(form.opts) \in Records /\ I!Written(form.opts).version = record.version
      /\ I!Written(form.opts).loader = record.loader /\ I!Written(form.opts).lver = record.lver
      /\ I!Judged(form.opts) \cap I!Unkept = {} => I!Written(form.opts).opts = form.opts
      /\ Moved => I!Judged(form.opts) \cap {"moved", "stale"} # {}
  BY <1>1, WrittenFacts
<1>3. UNCHANGED <<form, listed, catalog, filter, cache, picked, paired>> /\ dialog = "open"
  BY DEF I!Autosave, I!SaveOverrides, I!Done, I!Clicked, I!catalogVars, I!loaderVars
<1>4. marked # NoKey /\ marked \in OptsOrNone /\ form.opts = IF dirty = NoKey THEN marked ELSE dirty
  BY <1>3 DEF SettingsInv, OverridesAreMarked, SettingsTypes
<1>5. CASE I!Autosave \/ (I!Done /\ dirty # NoKey)
  <2>1. /\ dirty' = NoKey /\ marked' = form.opts /\ record' = I!Written(form.opts)
        /\ excusedForm' = I!Judged(form.opts)
    BY <1>4, <1>5 DEF I!Autosave, I!Done, I!Flush
  <2>2. OverridesAreMarked' BY <1>1, <1>2, <1>3, <2>1 DEF OverridesAreMarked, Kept
  <2>3. marked' \in OptsOrNone /\ dirty' \in OptsOrNone BY <1>1, <2>1 DEF OptsOrNone
  <2> QED BY <1>2, <1>3, <2>1, <2>2, <2>3, OverridesMove DEF SettingsInv, SettingsTypes, Moved
<1>6. CASE I!Done /\ dirty = NoKey
  <2>1. UNCHANGED <<record, marked, dirty, excusedForm>> /\ dialog' = "closed"
    BY <1>6 DEF I!Done, I!Flush, I!saveVars
  <2>2. OverridesAreMarked' BY <1>3, <1>4, <1>6, <2>1 DEF SettingsInv, OverridesAreMarked, Kept
  <2> QED BY <1>3, <2>1, <2>2, OverridesMove DEF SettingsInv, SettingsTypes, Moved
<1>7. CASE I!SaveOverrides
  <2>1. /\ record' = I!Written(form.opts) /\ UNCHANGED <<marked, dirty, dialog>>
        /\ excusedForm' = I!Judged(form.opts) \cup IF dirty = NoKey THEN {} ELSE {"pressed"}
    BY <1>7 DEF I!SaveOverrides, I!saveVars
  <2>2. Kept' => dirty = NoKey /\ record'.opts = form.opts BY <1>2, <2>1 DEF Kept, I!Unkept
  <2>3. OverridesAreMarked' BY <1>3, <1>4, <2>1, <2>2 DEF SettingsInv, OverridesAreMarked
  <2>4. Moved => Moved' BY <1>2, <2>1 DEF Moved
  <2> QED BY <1>2, <1>3, <2>1, <2>3, <2>4, OverridesMove DEF SettingsInv, SettingsTypes
<1> QED BY <1>5, <1>6, <1>7

LEMMA SettingsStep == SettingsInv /\ [I!Next]_(I!vars) => SettingsInv'
<1> SUFFICES ASSUME SettingsInv, [I!Next]_(I!vars) PROVE SettingsInv' OBVIOUS
<1>1. CASE I!Look BY <1>1, SettingsLook
<1>2. CASE I!SyncCatalog \/ I!ChangeFilter \/ I!RefreshVersions \/ I!RefreshLoader BY <1>2, SettingsCatalog
<1>3. CASE I!PollCatalog BY <1>3, SettingsPollCatalog
<1>4. ASSUME NEW g \in DOMAIN I!Offered, I!PollLoader(g) PROVE SettingsInv'
  <2>1. g \in GameNames BY DEF I!Offered, GameNames
  <2> QED BY <1>4, <2>1, SettingsPollLoader
<1>5. CASE I!Open \/ I!Away BY <1>5, SettingsOpen
<1>6. ASSUME NEW i \in 1..3, I!SetGame(i) PROVE SettingsInv' BY <1>6, SettingsSetGame
<1>7. ASSUME NEW l \in {"Vanilla", "Fabric"}, I!SetLoader(l) PROVE SettingsInv'
  BY <1>7, SettingsLoader DEF Loaders
<1>8. ASSUME NEW i \in 1..2, I!SetLoaderVersion(i) PROVE SettingsInv' BY <1>8, SettingsLoader
<1>9. CASE I!Save BY <1>9, SettingsSave
<1>10. CASE I!Detect BY <1>10, SettingsDetect
<1>11. CASE I!PackUpdate BY <1>11, SettingsPackUpdate
<1>12. ASSUME NEW o \in I!Opts, I!Edit(o) PROVE SettingsInv' BY <1>12, SettingsEdit
<1>13. CASE I!Autosave \/ I!SaveOverrides \/ I!Done BY <1>13, SettingsWritten
<1>14. CASE UNCHANGED I!vars
  <2>1. UNCHANGED <<record, form, listed, catalog, filter, cache, dialog, marked, dirty, picked, paired, excusedForm>>
    BY <1>14 DEF I!vars
  <2> QED BY <2>1, LoaderIsPicked DEF SettingsInv, SettingsTypes
<1> QED BY <1>1, <1>2, <1>3, <1>4, <1>5, <1>6, <1>7, <1>8, <1>9, <1>10, <1>11, <1>12, <1>13, <1>14 DEF I!Next

LEMMA SettingsKept == SettingsInv => I!SettingsAreChosen
<1> SUFFICES ASSUME SettingsInv PROVE I!SettingsAreChosen OBVIOUS
<1>1. I!VersionIsChosen BY DEF SettingsInv, VersionsArePicked, Moved, I!VersionIsChosen
<1>2. I!PairIsOffered BY DEF SettingsInv, PairsAreKnown, Known, I!PairIsOffered
<1>3. I!OverridesAreKept
  BY DEF SettingsInv, OverridesAreMarked, Kept, I!OverridesAreKept
<1> QED BY <1>1, <1>2, <1>3 DEF I!SettingsAreChosen
-----------------------------------------------------------------------------
\* The skins screen.

Pictures == {K!NoImage, "older", "picked"} \cup Accounts
Profs == [image : Pictures, slim : BOOLEAN, cape : {"no cape", "cape"}]
Wants == [image : {K!NoImage, "picked"}, slim : BOOLEAN, cape : {"no cape", "cape"}]
SkinForms == [who : Accounts \cup {NoAccount}, token : BOOLEAN, base : Profs, want : Wants,
              capes : BOOLEAN, saving : BOOLEAN, refreshing : BOOLEAN, reopen : BOOLEAN,
              snapshot : {"none", "reading", "read", "failed"},
              pick : {"none", "loading", "loaded", "refused"}]
Couriers == [n : Nat, kind : {"refresh", "save"}, who : Accounts, heard : BOOLEAN, ok : BOOLEAN,
             want : Wants, base : Profs, got : Profs,
             phase : {"fetch", "upload", "cape", "cache", "answered", "died"}]
Screens == [form : SkinForms, workers : SUBSET Couriers, hired : Nat,
            chosen : Wants \cup {K!Unchosen}, excused : SUBSET Accounts, raced : SUBSET Accounts,
            loaded : BOOLEAN, misled : BOOLEAN]
Services == [Accounts -> Profs]

\* The screen s next to the service sv and the account cache ca.

\* Workers are told apart, only a save uploads, and only an answer can say that it failed.
WorkersNumbered(s) ==
    /\ \A v, w \in s.workers : v.n = w.n => v = w
    /\ \A w \in s.workers : /\ w.n <= s.hired /\ (w.phase # "answered" => w.ok)
                            /\ (w.phase \in {"upload", "cape"} => w.kind = "save")

\* One worker is heard, exactly when the form waits, for the account and the kind it waits for.
Awaited(s) ==
    /\ \A v, w \in s.workers : v.heard /\ w.heard => v = w
    /\ s.form.refreshing \/ s.form.saving => \E w \in s.workers : w.heard
    /\ \A w \in s.workers : w.heard => /\ w.who = s.form.who
                                       /\ s.form.saving = (w.kind = "save")
                                       /\ s.form.refreshing = (w.kind = "refresh")

\* A save that is no longer heard is excused.
LeftBehind(s) ==
    \A w \in s.workers : w.kind = "save" /\ w.phase # "answered" /\ ~w.heard => w.who \in s.excused

\* What was loaded is the service's while no save is heard.
NoSave(s) == \A w \in s.workers : w.heard => w.kind = "refresh"
LoadedIsTrue(s, sv) ==
    /\ s.form.token \/ s.loaded => s.form.who \in Accounts
    /\ ~s.loaded => s.form.base = K!Plain
    /\ s.loaded /\ s.form.who \notin s.excused /\ NoSave(s) => s.form.base = sv[s.form.who]

\* How far a save that is heard has brought the service from what was loaded to what was asked.
SkinSent(w) == [w.base EXCEPT !.image = K!Asked(w).image, !.slim = w.want.slim]
Underway(w, base, has) ==
    /\ w.base = base /\ w.base.image # K!NoImage
    /\ w.phase \in {"upload", "died"} => has = w.base
    /\ w.phase = "cape" => has = IF K!SendsSkin(w) THEN SkinSent(w) ELSE w.base
    /\ w.phase = "fetch" => has = w.base /\ ~K!SendsSkin(w) /\ ~K!SendsCape(w)
    /\ w.phase = "cache" \/ (w.phase = "answered" /\ w.ok) => w.got = has /\ has = K!Asked(w)
    /\ w.phase = "answered" /\ ~w.ok => has = w.base
SavesAreTrue(s, sv) ==
    \A w \in s.workers : w.heard /\ w.kind = "save" /\ w.who \notin s.excused
        => Underway(w, s.form.base, sv[w.who])

\* What a refresh that is heard has fetched is the service's still.
Fetched(w) == w.phase = "cache" \/ (w.phase = "answered" /\ w.ok)
RefreshesAreTrue(s, sv) ==
    \A w \in s.workers : w.heard /\ w.kind = "refresh" /\ w.who \notin s.excused /\ Fetched(w)
        => w.got = sv[w.who]

SelectedStays(s) ==
    IF s.chosen = K!Unchosen THEN ~K!Changed(s.form) ELSE s.form.want = s.chosen /\ K!Changed(s.form)

\* The cache has the service's profile, or the one worker of the account is about to write it.
WritesCache(w) == w.kind = "save" /\ (w.phase = "cache" \/ (w.phase = "cape" /\ K!SendsSkin(w)))
CacheOf(u, ws, has, ca) ==
    /\ \A v, w \in ws : v.who = u /\ w.who = u /\ v.phase # "answered" /\ w.phase # "answered" => v = w
    /\ \A w \in ws : w.who = u /\ w.phase = "cache" => w.got = has
    /\ ca \in {K!Older, has} \/ \E w \in ws : w.who = u /\ WritesCache(w)
CachesFollow(s, sv, ca) ==
    \A u \in Accounts : u \notin s.excused /\ u \notin s.raced => CacheOf(u, s.workers, sv[u], ca[u])

ScreenInv(s, sv, ca) ==
    /\ s \in Screens /\ sv \in Services /\ ca \in Services /\ s.misled = FALSE
    /\ WorkersNumbered(s) /\ Awaited(s) /\ LeftBehind(s) /\ LoadedIsTrue(s, sv)
    /\ SavesAreTrue(s, sv) /\ RefreshesAreTrue(s, sv) /\ SelectedStays(s) /\ CachesFollow(s, sv, ca)
SkinInv == ScreenInv(K!Now, service, cached)

LEMMA SkinConstants ==
    /\ K!Plain \in Profs /\ K!Plain \in Wants /\ K!Plain.image = K!NoImage
    /\ K!Plain = K!Profile(K!NoImage, K!Plain.slim, K!Plain.cape)
    /\ K!Unchosen \notin Wants
    /\ K!Default \in SkinForms
    /\ \A u \in Accounts : K!Own(u) \in Profs
    /\ K!Older \in Profs
<1>1. K!Plain \in Profs /\ K!Plain \in Wants /\ K!Plain.image = K!NoImage
  BY DEF K!Plain, K!Profile, Profs, Wants, Pictures
<1>a. K!Plain = K!Profile(K!NoImage, K!Plain.slim, K!Plain.cape) BY DEF K!Plain, K!Profile
<1>2. K!Unchosen \notin Wants BY DEF K!Unchosen, K!Profile, Wants, K!NoImage
<1>3. K!Default \in SkinForms BY <1>1 DEF K!Default, SkinForms
<1>4. \A u \in Accounts : K!Own(u) \in Profs BY DEF K!Own, K!Profile, Profs, Pictures
<1>5. K!Older \in Profs BY DEF K!Older, K!Profile, Profs, Pictures
<1> QED BY <1>1, <1>a, <1>2, <1>3, <1>4, <1>5

LEMMA SkinInitInv == K!SkinsInit => SkinInv
<1> SUFFICES ASSUME K!SkinsInit PROVE SkinInv OBVIOUS
<1>1. K!Now = [form |-> K!Default, workers |-> {}, hired |-> 0, chosen |-> K!Unchosen,
               excused |-> {}, raced |-> {}, loaded |-> FALSE, misled |-> FALSE]
  BY DEF K!SkinsInit, K!Now
<1>2. service \in Services /\ cached \in Services /\ \A u \in Accounts : cached[u] = K!Older
  BY SkinConstants DEF K!SkinsInit, Services
<1> DEFINE s == K!Now
<1>3. s \in Screens BY <1>1, SkinConstants DEF Screens
<1>4. /\ s.form = K!Default /\ s.workers = {} /\ s.chosen = K!Unchosen /\ s.loaded = FALSE
      /\ s.misled = FALSE
  BY <1>1
<1> HIDE DEF s
<1>5. WorkersNumbered(s) /\ LeftBehind(s) /\ SavesAreTrue(s, service) /\ RefreshesAreTrue(s, service)
  BY <1>4 DEF WorkersNumbered, LeftBehind, SavesAreTrue, RefreshesAreTrue
<1>6. Awaited(s) /\ LoadedIsTrue(s, service) BY <1>4 DEF Awaited, LoadedIsTrue, K!Default
<1>7. SelectedStays(s)
  <2>1. s.form.want = K!Plain /\ s.form.base = K!Plain BY <1>4 DEF K!Default
  <2> QED BY <1>4, <2>1, SkinConstants DEF SelectedStays, K!Changed
<1>8. CachesFollow(s, service, cached) BY <1>2, <1>4 DEF CachesFollow, CacheOf
<1> QED BY <1>2, <1>3, <1>4, <1>5, <1>6, <1>7, <1>8 DEF SkinInv, ScreenInv, s

\* What a screen shows besides its selection, its profile and whom it waits for matters nowhere.
LEMMA ScreenSame ==
    ASSUME NEW s, NEW t, NEW sv, NEW ca, ScreenInv(s, sv, ca), t \in Screens,
           t.workers = s.workers, t.hired = s.hired, t.chosen = s.chosen, t.excused = s.excused,
           t.raced = s.raced, t.loaded = s.loaded, t.misled = s.misled,
           t.form.who = s.form.who, t.form.base = s.form.base, t.form.want = s.form.want,
           t.form.saving = s.form.saving, t.form.refreshing = s.form.refreshing,
           t.form.token => t.form.who \in Accounts
    PROVE  ScreenInv(t, sv, ca)
<1>1. WorkersNumbered(t) /\ Awaited(t) /\ LeftBehind(t)
  BY DEF ScreenInv, WorkersNumbered, Awaited, LeftBehind
<1>2. LoadedIsTrue(t, sv) BY DEF ScreenInv, LoadedIsTrue, NoSave
<1>3. SavesAreTrue(t, sv) /\ RefreshesAreTrue(t, sv)
  BY DEF ScreenInv, SavesAreTrue, RefreshesAreTrue
<1>4. SelectedStays(t) BY DEF ScreenInv, SelectedStays, K!Changed
<1>5. CachesFollow(t, sv, ca) BY DEF ScreenInv, CachesFollow
<1> QED BY <1>1, <1>2, <1>3, <1>4, <1>5 DEF ScreenInv

\* A worker nobody listens to any more is the same worker.
LEMMA UnheardFacts ==
    ASSUME NEW ws \in SUBSET Couriers
    PROVE  /\ K!Unheard(ws) \in SUBSET Couriers
           /\ \A v \in K!Unheard(ws) : \E w \in ws :
                v = [w EXCEPT !.heard = FALSE] /\ ~v.heard /\ v.n = w.n /\ v.kind = w.kind /\ v.who = w.who
                /\ v.ok = w.ok /\ v.want = w.want /\ v.base = w.base /\ v.got = w.got /\ v.phase = w.phase
           /\ \A w \in ws : \E v \in K!Unheard(ws) :
                v.who = w.who /\ v.kind = w.kind /\ v.phase = w.phase /\ v.want = w.want /\ v.base = w.base
<1>1. ASSUME NEW w \in ws, NEW v, v = [w EXCEPT !.heard = FALSE]
      PROVE  /\ v \in Couriers
             /\ ~v.heard /\ v.n = w.n /\ v.kind = w.kind /\ v.who = w.who
             /\ v.ok = w.ok /\ v.want = w.want /\ v.base = w.base /\ v.got = w.got /\ v.phase = w.phase
  BY <1>1 DEF Couriers
<1>2. \A v \in K!Unheard(ws) : \E w \in ws : v = [w EXCEPT !.heard = FALSE] BY DEF K!Unheard
<1>3. \A w \in ws : [w EXCEPT !.heard = FALSE] \in K!Unheard(ws) BY DEF K!Unheard
<1>4. K!Unheard(ws) \in SUBSET Couriers BY <1>1, <1>2
<1>5. \A v \in K!Unheard(ws) : \E w \in ws :
        v = [w EXCEPT !.heard = FALSE] /\ ~v.heard /\ v.n = w.n /\ v.kind = w.kind /\ v.who = w.who
        /\ v.ok = w.ok /\ v.want = w.want /\ v.base = w.base /\ v.got = w.got /\ v.phase = w.phase
  BY <1>1, <1>2
<1>6. \A w \in ws : \E v \in K!Unheard(ws) :
        v.who = w.who /\ v.kind = w.kind /\ v.phase = w.phase /\ v.want = w.want /\ v.base = w.base
  BY <1>1, <1>3
<1> QED BY <1>4, <1>5, <1>6

LEMMA SendsSame ==
    ASSUME NEW v, NEW w, v.want = w.want, v.base = w.base
    PROVE  (K!SendsSkin(v) <=> K!SendsSkin(w)) /\ (K!SendsCape(v) <=> K!SendsCape(w)) /\ K!Asked(v) = K!Asked(w)
BY DEF K!SendsSkin, K!SendsCape, K!Asked

\* The cache is followed as well when nobody listens to the workers of before.
LEMMA CacheUnheard ==
    ASSUME NEW ws \in SUBSET Couriers, NEW u, NEW has, NEW c, CacheOf(u, ws, has, c),
           \A v, w \in ws : v.n = w.n => v = w
    PROVE  CacheOf(u, K!Unheard(ws), has, c)
<1> USE UnheardFacts
<1>1. ASSUME NEW v \in K!Unheard(ws), NEW w \in K!Unheard(ws),
             v.who = u, w.who = u, v.phase # "answered", w.phase # "answered"
      PROVE  v = w
  <2>1. PICK x \in ws : v = [x EXCEPT !.heard = FALSE] /\ x.who = u /\ x.phase # "answered" BY <1>1
  <2>2. PICK y \in ws : w = [y EXCEPT !.heard = FALSE] /\ y.who = u /\ y.phase # "answered" BY <1>1
  <2>3. x = y BY <2>1, <2>2 DEF CacheOf
  <2> QED BY <2>1, <2>2, <2>3
<1>2. ASSUME NEW w \in K!Unheard(ws), w.who = u, w.phase = "cache" PROVE w.got = has
  BY <1>2 DEF CacheOf
<1>3. ASSUME NEW w \in ws, w.who = u, WritesCache(w) PROVE \E v \in K!Unheard(ws) : v.who = u /\ WritesCache(v)
  <2>1. PICK v \in K!Unheard(ws) : v.who = w.who /\ v.kind = w.kind /\ v.phase = w.phase
                                   /\ v.want = w.want /\ v.base = w.base
    OBVIOUS
  <2>2. K!SendsSkin(v) <=> K!SendsSkin(w) BY <2>1, SendsSame
  <2> QED BY <1>3, <2>1, <2>2 DEF WritesCache
<1> QED BY <1>1, <1>2, <1>3 DEF CacheOf

\* A worker is hired.
LEMMA HireFacts ==
    ASSUME NEW s \in Screens, NEW kind \in {"refresh", "save"}, s.form.who \in Accounts,
           NEW new, new = [n |-> s.hired + 1, kind |-> kind, who |-> s.form.who, heard |-> TRUE,
                           ok |-> TRUE, want |-> s.form.want, base |-> s.form.base, got |-> K!Plain,
                           phase |-> IF kind = "refresh" THEN "fetch" ELSE "upload"]
    PROVE  /\ new \in Couriers
           /\ K!Hire(s, kind) \in Screens
           /\ K!Hire(s, kind).workers = K!Unheard(s.workers) \cup {new}
           /\ K!Hire(s, kind).hired = s.hired + 1
           /\ K!Hire(s, kind).raced = IF K!Busy(s.form.who, s.workers) THEN s.raced \cup {s.form.who}
                                      ELSE s.raced
           /\ K!Hire(s, kind).form = s.form /\ K!Hire(s, kind).chosen = s.chosen
           /\ K!Hire(s, kind).excused = s.excused /\ K!Hire(s, kind).loaded = s.loaded
           /\ K!Hire(s, kind).misled = s.misled
<1>1. new \in Couriers BY SkinConstants DEF Screens, SkinForms, Couriers
<1>2. K!Unheard(s.workers) \cup {new} \in SUBSET Couriers BY <1>1, UnheardFacts DEF Screens
<1>3. K!Hire(s, kind) = [s EXCEPT !.workers = K!Unheard(s.workers) \cup {new}, !.hired = s.hired + 1,
                           !.raced = IF K!Busy(s.form.who, s.workers) THEN s.raced \cup {s.form.who} ELSE s.raced]
  BY DEF K!Hire, Screens
<1> DEFINE R == IF K!Busy(s.form.who, s.workers) THEN s.raced \cup {s.form.who} ELSE s.raced
           W == K!Unheard(s.workers) \cup {new}
<1>4. R \in SUBSET Accounts /\ s.hired + 1 \in Nat BY DEF Screens
<1>5. K!Hire(s, kind) = [s EXCEPT !.workers = W, !.hired = s.hired + 1, !.raced = R] BY <1>3
<1> HIDE DEF R, W
<1>6. /\ K!Hire(s, kind) \in Screens /\ K!Hire(s, kind).workers = W /\ K!Hire(s, kind).raced = R
      /\ K!Hire(s, kind).hired = s.hired + 1
      /\ K!Hire(s, kind).form = s.form /\ K!Hire(s, kind).chosen = s.chosen
      /\ K!Hire(s, kind).excused = s.excused /\ K!Hire(s, kind).loaded = s.loaded
      /\ K!Hire(s, kind).misled = s.misled
  <2>1. W \in SUBSET Couriers BY <1>2 DEF W
  <2> QED BY <2>1, <1>4, <1>5 DEF Screens
<1> QED BY <1>1, <1>6 DEF R, W

LEMMA Hiring ==
    ASSUME NEW s \in Screens, NEW kind \in {"refresh", "save"}, NEW sv \in Services, NEW ca \in Services,
           s.form.who \in Accounts, s.misled = FALSE,
           s.form.refreshing = (kind = "refresh"), s.form.saving = (kind = "save"),
           WorkersNumbered(s), NoSave(s), LeftBehind(s), LoadedIsTrue(s, sv), SelectedStays(s), CachesFollow(s, sv, ca),
           kind = "save" /\ s.form.who \notin s.excused
             => s.form.base.image # K!NoImage /\ s.form.base = sv[s.form.who]
    PROVE  ScreenInv(K!Hire(s, kind), sv, ca)
<1> DEFINE new == [n |-> s.hired + 1, kind |-> kind, who |-> s.form.who, heard |-> TRUE,
                   ok |-> TRUE, want |-> s.form.want, base |-> s.form.base, got |-> K!Plain,
                   phase |-> IF kind = "refresh" THEN "fetch" ELSE "upload"]
           t == K!Hire(s, kind)
           old == K!Unheard(s.workers)
<1>1. /\ new \in Couriers /\ t \in Screens /\ t.workers = old \cup {new} /\ t.hired = s.hired + 1
      /\ t.raced = IF K!Busy(s.form.who, s.workers) THEN s.raced \cup {s.form.who} ELSE s.raced
      /\ t.form = s.form /\ t.chosen = s.chosen /\ t.excused = s.excused /\ t.loaded = s.loaded
      /\ t.misled = s.misled
  BY HireFacts
<1>2. /\ new.n = s.hired + 1 /\ new.kind = kind /\ new.who = s.form.who /\ new.heard /\ new.ok
      /\ new.base = s.form.base /\ new.phase = (IF kind = "refresh" THEN "fetch" ELSE "upload")
  OBVIOUS
<1>3. \A v \in old : \E w \in s.workers :
        v = [w EXCEPT !.heard = FALSE] /\ ~v.heard /\ v.n = w.n /\ v.kind = w.kind /\ v.who = w.who
        /\ v.ok = w.ok /\ v.want = w.want /\ v.base = w.base /\ v.got = w.got /\ v.phase = w.phase
  BY UnheardFacts DEF Screens
<1>4. s.hired \in Nat /\ \A w \in s.workers : w.n \in Nat BY DEF Screens, Couriers
<1> HIDE DEF new, t, old
<1>5. WorkersNumbered(t)
  <2>1. \A v \in old : v.n <= s.hired /\ v.n \in Nat BY <1>3, <1>4 DEF WorkersNumbered
  <2>2. ASSUME NEW v \in old, NEW w \in old, v.n = w.n PROVE v = w
    <3>1. PICK x \in s.workers : v = [x EXCEPT !.heard = FALSE] /\ v.n = x.n BY <1>3
    <3>2. PICK y \in s.workers : w = [y EXCEPT !.heard = FALSE] /\ w.n = y.n BY <1>3
    <3>3. x = y BY <2>2, <3>1, <3>2 DEF WorkersNumbered
    <3> QED BY <3>1, <3>2, <3>3
  <2>3. \A v \in old : v.n # new.n BY <2>1, <1>2, <1>4
  <2>4. \A v, w \in old \cup {new} : v.n = w.n => v = w BY <2>2, <2>3
  <2>5. \A v \in old \cup {new} : v.n <= s.hired + 1 BY <2>1, <1>2, <1>4
  <2>6. \A v \in old : (v.phase \in {"upload", "cape"} => v.kind = "save") /\ (v.phase # "answered" => v.ok)
    BY <1>3 DEF WorkersNumbered
  <2>7. (new.phase \in {"upload", "cape"} => new.kind = "save") /\ (new.phase # "answered" => new.ok)
    BY <1>2
  <2> QED BY <1>1, <2>4, <2>5, <2>6, <2>7 DEF WorkersNumbered
<1>6. \A w \in t.workers : w.heard => w = new BY <1>1, <1>3
<1>7. Awaited(t) BY <1>1, <1>2, <1>6 DEF Awaited
<1>8. LeftBehind(t)
  <2>1. ASSUME NEW v \in old, v.kind = "save", v.phase # "answered" PROVE v.who \in s.excused
    BY <1>3, <2>1 DEF LeftBehind, NoSave
  <2> QED BY <1>1, <1>2, <2>1 DEF LeftBehind
<1>9. LoadedIsTrue(t, sv) BY <1>1 DEF LoadedIsTrue, NoSave
<1>10. SavesAreTrue(t, sv)
  <2> SUFFICES ASSUME kind = "save", s.form.who \notin s.excused
               PROVE  Underway(new, s.form.base, sv[s.form.who])
    BY <1>1, <1>2, <1>6 DEF SavesAreTrue
  <2> QED BY <1>2 DEF Underway
<1>11. RefreshesAreTrue(t, sv) BY <1>2, <1>6 DEF RefreshesAreTrue, Fetched
<1>12. SelectedStays(t) BY <1>1 DEF SelectedStays
<1>13. CachesFollow(t, sv, ca)
  <2> SUFFICES ASSUME NEW u \in Accounts, u \notin t.excused, u \notin t.raced
               PROVE  CacheOf(u, old \cup {new}, sv[u], ca[u])
    BY <1>1 DEF CachesFollow
  <2>1. u \notin s.excused /\ u \notin s.raced BY <1>1
  <2>2. CacheOf(u, s.workers, sv[u], ca[u]) BY <2>1 DEF CachesFollow
  <2>3. CacheOf(u, old, sv[u], ca[u]) BY <2>2, CacheUnheard DEF old, Screens, WorkersNumbered
  <2>4. u = s.form.who => \A v \in old : v.who = u => v.phase = "answered"
    BY <1>1, <1>3 DEF K!Busy
  <2> QED BY <1>2, <2>3, <2>4 DEF CacheOf
<1> QED BY <1>1, <1>5, <1>7, <1>8, <1>9, <1>10, <1>11, <1>12, <1>13 DEF ScreenInv, t

LEMMA RefreshStarts ==
    ASSUME NEW s, NEW sv, NEW ca, ScreenInv(s, sv, ca)
    PROVE  ScreenInv(K!StartRefresh(s), sv, ca)
<1> DEFINE quiet == s.form.refreshing \/ s.form.saving \/ s.form.who = NoAccount \/ ~s.form.token
           t == [s EXCEPT !.form = [s.form EXCEPT !.refreshing = TRUE]]
<1>1. CASE quiet BY <1>1 DEF K!StartRefresh
<1>2. CASE ~quiet
  <2>1. K!StartRefresh(s) = K!Hire(t, "refresh")
    BY <1>2 DEF K!StartRefresh, ScreenInv, Screens
  <2>2. /\ t \in Screens /\ t.workers = s.workers /\ t.hired = s.hired /\ t.chosen = s.chosen
        /\ t.excused = s.excused /\ t.raced = s.raced /\ t.loaded = s.loaded /\ t.misled = s.misled
        /\ t.form.who = s.form.who /\ t.form.base = s.form.base /\ t.form.want = s.form.want
        /\ t.form.token = s.form.token /\ t.form.refreshing = TRUE /\ t.form.saving = s.form.saving
    BY DEF ScreenInv, Screens, SkinForms
  <2>3. s.form.saving = FALSE /\ s.form.refreshing = FALSE /\ s.form.who \in Accounts
    BY <1>2 DEF ScreenInv, Screens, SkinForms
  <2> HIDE DEF t
  <2>4. NoSave(t) /\ NoSave(s)
    <3>1. \A w \in s.workers : w.kind \in {"refresh", "save"} BY DEF ScreenInv, Screens, Couriers
    <3> QED BY <2>2, <2>3, <3>1 DEF ScreenInv, Awaited, NoSave
  <2>5. WorkersNumbered(t) /\ LeftBehind(t) BY <2>2 DEF ScreenInv, WorkersNumbered, LeftBehind
  <2>6. LoadedIsTrue(t, sv) BY <2>2, <2>4 DEF ScreenInv, LoadedIsTrue
  <2>7. SelectedStays(t) BY <2>2 DEF ScreenInv, SelectedStays, K!Changed
  <2>8. CachesFollow(t, sv, ca) BY <2>2 DEF ScreenInv, CachesFollow
  <2>9. sv \in Services /\ ca \in Services /\ t.misled = FALSE BY <2>2 DEF ScreenInv
  <2> QED BY <2>1, <2>2, <2>3, <2>4, <2>5, <2>6, <2>7, <2>8, <2>9, Hiring
<1> QED BY <1>1, <1>2

\* Another account's form is empty, and listens to nobody.
LEMMA Emptied ==
    ASSUME NEW s, NEW sv, NEW ca, ScreenInv(s, sv, ca), NEW f \in SkinForms, NEW left, NEW t,
           left = {w.who : w \in {x \in s.workers : x.kind = "save" /\ x.phase # "answered"}},
           f.base = K!Plain, f.want = K!Plain, f.saving = FALSE, f.refreshing = FALSE,
           f.token => f.who \in Accounts,
           t = [s EXCEPT !.form = f, !.workers = K!Unheard(@), !.chosen = K!Unchosen,
                         !.excused = @ \cup left, !.loaded = FALSE]
    PROVE  ScreenInv(t, sv, ca)
<1>1. s \in Screens /\ s.workers \in SUBSET Couriers BY DEF ScreenInv, Screens
<1>2. left \in SUBSET Accounts BY <1>1 DEF Couriers
<1>3. K!Unheard(s.workers) \in SUBSET Couriers BY <1>1, UnheardFacts
<1>4. /\ t \in Screens /\ t.form = f /\ t.workers = K!Unheard(s.workers) /\ t.chosen = K!Unchosen
      /\ t.excused = s.excused \cup left /\ t.loaded = FALSE /\ t.hired = s.hired /\ t.raced = s.raced
      /\ t.misled = s.misled
  BY <1>1, <1>2, <1>3 DEF Screens
<1>5. \A v \in t.workers : \E w \in s.workers :
        v = [w EXCEPT !.heard = FALSE] /\ ~v.heard /\ v.n = w.n /\ v.kind = w.kind /\ v.who = w.who
        /\ v.ok = w.ok /\ v.want = w.want /\ v.base = w.base /\ v.got = w.got /\ v.phase = w.phase
  BY <1>1, <1>4, UnheardFacts
<1>6. WorkersNumbered(t)
  <2>1. ASSUME NEW v \in t.workers, NEW w \in t.workers, v.n = w.n PROVE v = w
    <3>1. PICK x \in s.workers : v = [x EXCEPT !.heard = FALSE] /\ v.n = x.n BY <1>5
    <3>2. PICK y \in s.workers : w = [y EXCEPT !.heard = FALSE] /\ w.n = y.n BY <1>5
    <3>3. x = y BY <2>1, <3>1, <3>2 DEF ScreenInv, WorkersNumbered
    <3> QED BY <3>1, <3>2, <3>3
  <2>2. \A v \in t.workers : /\ v.n <= t.hired /\ (v.phase # "answered" => v.ok)
                             /\ v.phase \in {"upload", "cape"} => v.kind = "save"
    BY <1>4, <1>5 DEF ScreenInv, WorkersNumbered
  <2> QED BY <2>1, <2>2 DEF WorkersNumbered
<1>7. Awaited(t) BY <1>4, <1>5 DEF Awaited
<1>8. LeftBehind(t)
  <2>1. ASSUME NEW v \in t.workers, v.kind = "save", v.phase # "answered" PROVE v.who \in left
    BY <1>5, <2>1
  <2> QED BY <1>4, <2>1 DEF LeftBehind
<1>9. LoadedIsTrue(t, sv) BY <1>4 DEF LoadedIsTrue
<1>10. SavesAreTrue(t, sv) /\ RefreshesAreTrue(t, sv)
  BY <1>5 DEF SavesAreTrue, RefreshesAreTrue
<1>11. SelectedStays(t) BY <1>4, SkinConstants DEF SelectedStays, K!Changed
<1>12. CachesFollow(t, sv, ca)
  <2> SUFFICES ASSUME NEW u \in Accounts, u \notin t.excused, u \notin t.raced
               PROVE  CacheOf(u, K!Unheard(s.workers), sv[u], ca[u])
    BY <1>4 DEF CachesFollow
  <2>1. CacheOf(u, s.workers, sv[u], ca[u]) BY <1>4 DEF ScreenInv, CachesFollow
  <2> QED BY <1>1, <2>1, CacheUnheard DEF ScreenInv, WorkersNumbered
<1> QED BY <1>4, <1>6, <1>7, <1>8, <1>9, <1>10, <1>11, <1>12 DEF ScreenInv

LEMMA Synced ==
    ASSUME NEW s, NEW sv, NEW ca, ScreenInv(s, sv, ca), current \in Accounts \cup {NoAccount}
    PROVE  ScreenInv(K!SyncAccount(s), sv, ca)
<1> DEFINE token == current \notin tokenless
           left == {w.who : w \in {x \in s.workers : x.kind = "save" /\ x.phase # "answered"}}
<1>0. s \in Screens /\ s.form \in SkinForms BY DEF ScreenInv, Screens
<1>1. CASE current = NoAccount /\ s.form.who = NoAccount
  <2>1. K!SyncAccount(s) = s BY <1>1 DEF K!SyncAccount
  <2> QED BY <2>1
<1>2. CASE current = NoAccount /\ s.form.who # NoAccount
  <2>1. K!SyncAccount(s) = [s EXCEPT !.form = K!Default, !.workers = K!Unheard(@), !.chosen = K!Unchosen,
                                     !.excused = @ \cup left, !.loaded = FALSE]
    BY <1>2 DEF K!SyncAccount
  <2>2. /\ K!Default \in SkinForms /\ K!Default.base = K!Plain /\ K!Default.want = K!Plain
        /\ K!Default.saving = FALSE /\ K!Default.refreshing = FALSE /\ K!Default.token = FALSE
    BY SkinConstants DEF K!Default
  <2> QED BY <2>1, <2>2, Emptied
<1>3. CASE current # NoAccount /\ s.form.who = current
  <2> DEFINE t == [s EXCEPT !.form = [s.form EXCEPT !.token = token]]
  <2>1. K!SyncAccount(s) = t BY <1>0, <1>3 DEF K!SyncAccount, Screens
  <2>2. token \in BOOLEAN OBVIOUS
  <2> HIDE DEF token
  <2>3. /\ t \in Screens /\ t.workers = s.workers /\ t.hired = s.hired /\ t.chosen = s.chosen
        /\ t.excused = s.excused /\ t.raced = s.raced /\ t.loaded = s.loaded /\ t.misled = s.misled
        /\ t.form.who = s.form.who /\ t.form.base = s.form.base /\ t.form.want = s.form.want
        /\ t.form.saving = s.form.saving /\ t.form.refreshing = s.form.refreshing
    BY <1>0, <2>2 DEF Screens, SkinForms
  <2>4. t.form.who \in Accounts BY <1>3, <2>3
  <2> HIDE DEF t
  <2> QED BY <2>1, <2>3, <2>4, ScreenSame
<1>4. CASE current # NoAccount /\ s.form.who # current
  <2> DEFINE f == [K!Default EXCEPT !.who = current, !.token = token, !.reopen = s.form.reopen,
                                    !.snapshot = "reading"]
             t == [s EXCEPT !.form = f, !.workers = K!Unheard(@), !.chosen = K!Unchosen,
                            !.excused = @ \cup left, !.loaded = FALSE]
  <2>1. K!SyncAccount(s) = K!StartRefresh(t) BY <1>4 DEF K!SyncAccount
  <2>2. token \in BOOLEAN OBVIOUS
  <2> HIDE DEF token
  <2>3. /\ K!Default.base = K!Plain /\ K!Default.want = K!Plain /\ K!Default.saving = FALSE
        /\ K!Default.refreshing = FALSE /\ K!Default \in SkinForms
    BY SkinConstants DEF K!Default
  <2>4. /\ f \in SkinForms /\ f.base = K!Plain /\ f.want = K!Plain /\ f.saving = FALSE
        /\ f.refreshing = FALSE /\ f.who = current
    <3>1. s.form.reopen \in BOOLEAN BY <1>0 DEF SkinForms
    <3> QED BY <2>2, <2>3, <3>1 DEF SkinForms
  <2> HIDE DEF f
  <2>5. ScreenInv(t, sv, ca) BY <1>4, <2>4, Emptied
  <2> HIDE DEF t
  <2> QED BY <2>1, <2>5, RefreshStarts
<1> QED BY <1>1, <1>2, <1>3, <1>4

LEMMA SnapshotPolled ==
    ASSUME NEW s, NEW sv, NEW ca, ScreenInv(s, sv, ca)
    PROVE  ScreenInv(K!PollSnapshot(s), sv, ca)
<1> DEFINE f == [s.form EXCEPT !.snapshot = "none"]
<1>0. s \in Screens /\ s.form \in SkinForms BY DEF ScreenInv, Screens
<1>f. /\ f \in SkinForms /\ f.who = s.form.who /\ f.base = s.form.base /\ f.want = s.form.want
      /\ f.saving = s.form.saving /\ f.refreshing = s.form.refreshing /\ f.token = s.form.token
  BY <1>0 DEF SkinForms
<1>1. CASE s.form.snapshot \in {"none", "reading"}
  <2>1. K!PollSnapshot(s) = s BY <1>1 DEF K!PollSnapshot
  <2> QED BY <2>1
<1>2. CASE s.form.snapshot = "read" /\ f.refreshing
  <2> DEFINE g == [f EXCEPT !.base = K!Plain, !.want = K!Plain, !.capes = TRUE]
             t == [s EXCEPT !.form = g, !.chosen = K!Unchosen, !.loaded = @ /\ ~f.refreshing]
  <2>1. K!PollSnapshot(s) = t BY <1>2 DEF K!PollSnapshot
  <2> HIDE DEF f
  <2>2. /\ g \in SkinForms /\ g.base = K!Plain /\ g.want = K!Plain /\ g.who = f.who
        /\ g.saving = f.saving /\ g.refreshing = f.refreshing /\ g.token = f.token
    BY <1>f, SkinConstants DEF SkinForms
  <2> HIDE DEF g
  <2>3. /\ t \in Screens /\ t.form = g /\ t.chosen = K!Unchosen /\ t.loaded = FALSE
        /\ t.workers = s.workers /\ t.hired = s.hired /\ t.excused = s.excused /\ t.raced = s.raced
        /\ t.misled = s.misled
    BY <1>0, <1>2, <2>2 DEF Screens
  <2> HIDE DEF t
  <2>4. WorkersNumbered(t) /\ LeftBehind(t) BY <2>3 DEF ScreenInv, WorkersNumbered, LeftBehind
  <2>5. Awaited(t) BY <1>f, <2>2, <2>3 DEF ScreenInv, Awaited
  <2>6. LoadedIsTrue(t, sv) BY <1>f, <2>2, <2>3 DEF ScreenInv, LoadedIsTrue
  <2>7. \A w \in s.workers : w.heard => w.kind # "save"
    BY <1>f, <1>2 DEF ScreenInv, Awaited, Screens, Couriers
  <2>8. SavesAreTrue(t, sv) /\ RefreshesAreTrue(t, sv)
    BY <2>3, <2>7 DEF ScreenInv, SavesAreTrue, RefreshesAreTrue
  <2>9. SelectedStays(t) BY <2>2, <2>3, SkinConstants DEF SelectedStays, K!Changed
  <2>10. CachesFollow(t, sv, ca) BY <2>3 DEF ScreenInv, CachesFollow
  <2> QED BY <2>1, <2>3, <2>4, <2>5, <2>6, <2>8, <2>9, <2>10 DEF ScreenInv
<1>3. CASE s.form.snapshot \notin {"none", "reading"} /\ ~(s.form.snapshot = "read" /\ f.refreshing)
  <2> DEFINE t == [s EXCEPT !.form = f]
  <2>1. K!PollSnapshot(s) = t BY <1>3 DEF K!PollSnapshot
  <2> HIDE DEF f
  <2>2. /\ t \in Screens /\ t.workers = s.workers /\ t.hired = s.hired /\ t.chosen = s.chosen
        /\ t.excused = s.excused /\ t.raced = s.raced /\ t.loaded = s.loaded /\ t.misled = s.misled
        /\ t.form = f
    BY <1>0, <1>f DEF Screens
  <2>3. t.form.token => t.form.who \in Accounts BY <1>f, <2>2 DEF ScreenInv, LoadedIsTrue
  <2> HIDE DEF t
  <2> QED BY <1>f, <2>1, <2>2, <2>3, ScreenSame
<1> QED BY <1>1, <1>2, <1>3

\* A worker that is heard and done is let go, and what the form waited for is over.
LEMMA Idled ==
    ASSUME NEW s, NEW sv, NEW ca, ScreenInv(s, sv, ca), NEW w \in s.workers,
           w.heard, w.phase \in {"answered", "died"}, NEW t, t \in Screens,
           t.workers = s.workers \ {w}, t.hired = s.hired, t.chosen = s.chosen, t.excused = s.excused,
           t.raced = s.raced, t.loaded = s.loaded, t.misled = s.misled,
           t.form.who = s.form.who, t.form.base = s.form.base, t.form.want = s.form.want,
           t.form.token = s.form.token, t.form.saving = FALSE, t.form.refreshing = FALSE,
           w.phase = "died" \/ ~w.ok \/ w.kind = "refresh"
    PROVE  ScreenInv(t, sv, ca)
<1>0. s \in Screens /\ \A v \in s.workers : v \in Couriers BY DEF ScreenInv, Screens
<1>1. WorkersNumbered(t) /\ LeftBehind(t) BY DEF ScreenInv, WorkersNumbered, LeftBehind
<1>2. \A v \in t.workers : ~v.heard BY DEF ScreenInv, Awaited
<1>3. Awaited(t) BY <1>2 DEF Awaited
<1>4. LoadedIsTrue(t, sv)
  <2>1. ASSUME t.loaded, t.form.who \notin t.excused PROVE t.form.base = sv[t.form.who]
    <3>1. w.who = s.form.who /\ w.kind \in {"refresh", "save"} BY <1>0 DEF ScreenInv, Awaited, Couriers
    <3>2. CASE w.kind = "refresh"
      <4>1. NoSave(s) BY <3>2 DEF ScreenInv, Awaited, NoSave
      <4> QED BY <2>1, <4>1 DEF ScreenInv, LoadedIsTrue
    <3>3. CASE w.kind = "save"
      <4>1. Underway(w, s.form.base, sv[w.who]) BY <2>1, <3>1, <3>3 DEF ScreenInv, SavesAreTrue
      <4> QED BY <3>1, <3>3, <4>1 DEF Underway
    <3> QED BY <3>1, <3>2, <3>3
  <2> QED BY <2>1 DEF ScreenInv, LoadedIsTrue
<1>5. SavesAreTrue(t, sv) /\ RefreshesAreTrue(t, sv) BY <1>2 DEF SavesAreTrue, RefreshesAreTrue
<1>6. SelectedStays(t) BY DEF ScreenInv, SelectedStays, K!Changed
<1>7. CachesFollow(t, sv, ca)
  <2> SUFFICES ASSUME NEW u \in Accounts, u \notin s.excused, u \notin s.raced
               PROVE  CacheOf(u, s.workers \ {w}, sv[u], ca[u])
    BY DEF CachesFollow
  <2>1. CacheOf(u, s.workers, sv[u], ca[u]) BY DEF ScreenInv, CachesFollow
  <2>2. ~WritesCache(w) BY DEF WritesCache
  <2> QED BY <2>1, <2>2 DEF CacheOf
<1> QED BY <1>1, <1>3, <1>4, <1>5, <1>6, <1>7 DEF ScreenInv

\* A profile is loaded into a form that listens to nobody.
Unwatched(s, sv, ca) ==
    /\ s \in Screens /\ sv \in Services /\ ca \in Services /\ s.misled = FALSE
    /\ \A v \in s.workers : ~v.heard
    /\ WorkersNumbered(s) /\ Awaited(s) /\ LeftBehind(s) /\ CachesFollow(s, sv, ca)

LEMMA ProfileLoads ==
    ASSUME NEW s, NEW t, NEW w \in Couriers, NEW sv, NEW ca, Unwatched(s, sv, ca),
           t = K!LoadProfile(s, w.got), s.form.who = w.who,
           w.who \notin s.excused => w.got = sv[w.who]
    PROVE  /\ t \in Screens /\ t.form.want = K!Profile(K!NoImage, w.got.slim, w.got.cape)
           /\ ~K!Changed(t.form) /\ t.chosen = s.chosen /\ t.excused = s.excused /\ t.misled = s.misled
           /\ t.workers = s.workers /\ t.hired = s.hired /\ t.raced = s.raced /\ t.form.who = s.form.who
           /\ WorkersNumbered(t) /\ Awaited(t) /\ LeftBehind(t) /\ LoadedIsTrue(t, sv)
           /\ SavesAreTrue(t, sv) /\ RefreshesAreTrue(t, sv) /\ CachesFollow(t, sv, ca)
<1>0. /\ s \in Screens /\ sv \in Services /\ ca \in Services /\ s.misled = FALSE
      /\ \A v \in s.workers : ~v.heard
      /\ WorkersNumbered(s) /\ Awaited(s) /\ LeftBehind(s) /\ CachesFollow(s, sv, ca)
  BY DEF Unwatched
<1> DEFINE new == K!Profile(K!NoImage, w.got.slim, w.got.cape)
           f == [s.form EXCEPT !.base = w.got, !.want = new, !.capes = TRUE]
<1>1. w.got \in Profs /\ new \in Wants /\ new.slim = w.got.slim /\ new.cape = w.got.cape
  BY DEF Couriers, Profs, Wants, K!Profile
<1>2. t = [s EXCEPT !.form = f, !.loaded = TRUE]
  BY <1>0 DEF K!LoadProfile, Screens, SkinForms
<1> HIDE DEF new
<1>3. /\ f \in SkinForms /\ f.base = w.got /\ f.want = new /\ f.who = s.form.who /\ f.token = s.form.token
      /\ f.saving = s.form.saving /\ f.refreshing = s.form.refreshing
  BY <1>0, <1>1 DEF Screens, SkinForms
<1> HIDE DEF f
<1>4. /\ t \in Screens /\ t.form = f /\ t.loaded = TRUE /\ t.chosen = s.chosen /\ t.excused = s.excused
      /\ t.misled = s.misled /\ t.workers = s.workers /\ t.hired = s.hired /\ t.raced = s.raced
  BY <1>0, <1>2, <1>3 DEF Screens
<1>5. ~K!Changed(t.form) BY <1>3, <1>4 DEF K!Changed, new
<1>6. WorkersNumbered(t) /\ LeftBehind(t) BY <1>0, <1>4 DEF WorkersNumbered, LeftBehind
<1>7. Awaited(t) BY <1>0, <1>3, <1>4 DEF Awaited
<1>8. LoadedIsTrue(t, sv)
  <2>1. w.who \in Accounts BY DEF Couriers
  <2> QED BY <1>0, <1>3, <1>4, <2>1 DEF LoadedIsTrue
<1>9. SavesAreTrue(t, sv) /\ RefreshesAreTrue(t, sv) BY <1>0, <1>4 DEF SavesAreTrue, RefreshesAreTrue
<1>10. CachesFollow(t, sv, ca) BY <1>0, <1>4 DEF CachesFollow
<1> QED BY <1>0, <1>3, <1>4, <1>5, <1>6, <1>7, <1>8, <1>9, <1>10 DEF new

LEMMA WorkerPolled ==
    ASSUME NEW s, NEW ca, ScreenInv(s, service, ca)
    PROVE  ScreenInv(K!PollWorker(s), service, ca)
<1> DEFINE heard == {w \in s.workers : w.heard /\ w.phase \in {"answered", "died"}}
<1>0. s \in Screens /\ s.form \in SkinForms /\ \A v \in s.workers : v \in Couriers
  BY DEF ScreenInv, Screens
<1>1. CASE heard = {}
  <2>1. K!PollWorker(s) = s BY <1>1 DEF K!PollWorker
  <2> QED BY <2>1
<1>2. CASE heard # {}
  <2> DEFINE w == CHOOSE x \in heard : TRUE
             done == [s EXCEPT !.workers = @ \ heard]
             idle == IF w.phase = "died"
                     THEN [done EXCEPT !.form.saving = FALSE, !.form.refreshing = FALSE]
                     ELSE IF w.kind = "save" THEN [done EXCEPT !.form.saving = FALSE]
                          ELSE [done EXCEPT !.form.refreshing = FALSE]
             letGo == w.phase = "died" \/ ~w.ok \/ s.form.who # w.who
                      \/ (w.kind = "refresh" /\ K!Changed(s.form))
  <2>1. w \in s.workers /\ w.heard /\ w.phase \in {"answered", "died"} BY <1>2
  <2>2. heard = {w} BY <2>1 DEF ScreenInv, Awaited
  <2>3. K!PollWorker(s) =
          IF letGo THEN idle
          ELSE IF w.kind = "refresh" THEN K!LoadProfile(idle, w.got)
          ELSE [K!LoadProfile(idle, w.got) EXCEPT !.chosen = K!Unchosen,
                  !.misled = @ \/ (w.who \notin s.excused /\ K!Served(w) # K!Asked(w))]
    BY <1>2 DEF K!PollWorker
  <2> HIDE DEF w, heard
  <2>4. w \in Couriers /\ w.who = s.form.who /\ s.form.saving = (w.kind = "save")
        /\ s.form.refreshing = (w.kind = "refresh")
    BY <1>0, <2>1 DEF ScreenInv, Awaited
  <2>5. /\ idle \in Screens /\ idle.workers = s.workers \ {w} /\ idle.hired = s.hired
        /\ idle.chosen = s.chosen /\ idle.excused = s.excused /\ idle.raced = s.raced
        /\ idle.loaded = s.loaded /\ idle.misled = s.misled
        /\ idle.form.who = s.form.who /\ idle.form.base = s.form.base /\ idle.form.want = s.form.want
        /\ idle.form.token = s.form.token /\ idle.form.saving = FALSE /\ idle.form.refreshing = FALSE
    <3> DEFINE f == [s.form EXCEPT !.saving = FALSE, !.refreshing = FALSE]
    <3>1. f \in SkinForms /\ f.who = s.form.who /\ f.base = s.form.base /\ f.want = s.form.want
          /\ f.token = s.form.token /\ f.saving = FALSE /\ f.refreshing = FALSE
      BY <1>0 DEF SkinForms
    <3>2. done = [s EXCEPT !.workers = s.workers \ {w}] /\ done.form = s.form /\ done \in Screens
      BY <1>0, <2>2 DEF Screens
    <3>3. idle = [done EXCEPT !.form = f]
      <4>1. s.form.saving = FALSE => [s.form EXCEPT !.refreshing = FALSE] = f BY <1>0 DEF SkinForms
      <4>2. s.form.refreshing = FALSE => [s.form EXCEPT !.saving = FALSE] = f BY <1>0 DEF SkinForms
      <4>3. CASE w.phase = "died" BY <4>3, <3>2 DEF Screens
      <4>4. CASE w.phase # "died" /\ w.kind = "save"
        <5>1. idle = [done EXCEPT !.form = [s.form EXCEPT !.saving = FALSE]] BY <4>4, <3>2 DEF Screens
        <5>2. s.form.refreshing = FALSE BY <2>4, <4>4
        <5> HIDE DEF idle, f, done
        <5> QED BY <5>1, <5>2, <4>2
      <4>5. CASE w.phase # "died" /\ w.kind # "save"
        <5>1. idle = [done EXCEPT !.form = [s.form EXCEPT !.refreshing = FALSE]] BY <4>5, <3>2 DEF Screens
        <5>2. s.form.saving = FALSE BY <2>4, <4>5
        <5> HIDE DEF idle, f, done
        <5> QED BY <5>1, <5>2, <4>1
      <4> QED BY <4>3, <4>4, <4>5
    <3> HIDE DEF idle, f
    <3>4. idle = [s EXCEPT !.workers = s.workers \ {w}, !.form = f] BY <3>2, <3>3
    <3>5. s.workers \ {w} \in SUBSET Couriers BY <1>0
    <3> QED BY <1>0, <3>1, <3>4, <3>5 DEF Screens
  <2> HIDE DEF idle
  <2>6. CASE letGo
    <3>1. w.phase = "died" \/ ~w.ok \/ w.kind = "refresh" BY <2>4, <2>6
    <3>2. ScreenInv(idle, service, ca) BY <2>1, <2>5, <3>1, Idled
    <3> QED BY <2>3, <2>6, <3>2
  <2>7. CASE ~letGo
    <3>1. w.phase = "answered" /\ w.ok BY <2>1, <2>7
    <3>2. \A v \in idle.workers : ~v.heard BY <2>1, <2>5 DEF ScreenInv, Awaited
    <3>3. WorkersNumbered(idle) /\ LeftBehind(idle) BY <2>5 DEF ScreenInv, WorkersNumbered, LeftBehind
    <3>4. Awaited(idle) BY <2>5, <3>2 DEF Awaited
    <3>5. CachesFollow(idle, service, ca)
      <4> SUFFICES ASSUME NEW u \in Accounts, u \notin s.excused, u \notin s.raced
                   PROVE  CacheOf(u, s.workers \ {w}, service[u], ca[u])
        BY <2>5 DEF CachesFollow
      <4>1. CacheOf(u, s.workers, service[u], ca[u]) BY DEF ScreenInv, CachesFollow
      <4>2. ~WritesCache(w) BY <3>1 DEF WritesCache
      <4> QED BY <3>1, <4>1, <4>2 DEF CacheOf
    <3>6. w.who \notin s.excused => w.got = service[w.who]
      <4>1. CASE w.kind = "refresh"
        BY <2>1, <3>1, <4>1 DEF ScreenInv, RefreshesAreTrue, Fetched
      <4>2. CASE w.kind = "save" /\ w.who \notin s.excused
        <5>1. Underway(w, s.form.base, service[w.who]) BY <2>1, <4>2 DEF ScreenInv, SavesAreTrue
        <5> QED BY <3>1, <5>1 DEF Underway
      <4> QED BY <4>1, <4>2, <2>4 DEF Couriers
    <3> DEFINE t == K!LoadProfile(idle, w.got)
    <3>7. /\ t \in Screens /\ ~K!Changed(t.form) /\ t.chosen = s.chosen /\ t.excused = s.excused
          /\ t.misled = s.misled /\ t.workers = idle.workers /\ t.hired = s.hired /\ t.raced = s.raced
          /\ WorkersNumbered(t) /\ Awaited(t) /\ LeftBehind(t) /\ LoadedIsTrue(t, service)
          /\ SavesAreTrue(t, service) /\ RefreshesAreTrue(t, service) /\ CachesFollow(t, service, ca)
      <4>1. service \in Services /\ ca \in Services /\ idle.misled = FALSE BY <2>5 DEF ScreenInv
      <4>2. idle \in Screens /\ w \in Couriers /\ idle.form.who = w.who BY <2>4, <2>5
      <4>3. w.who \notin idle.excused => w.got = service[w.who] BY <2>5, <3>6
      <4>4. t = K!LoadProfile(idle, w.got) OBVIOUS
      <4> HIDE DEF t
      <4>5. /\ t \in Screens /\ ~K!Changed(t.form) /\ t.chosen = idle.chosen /\ t.excused = idle.excused
            /\ t.misled = idle.misled /\ t.workers = idle.workers /\ t.hired = idle.hired /\ t.raced = idle.raced
            /\ WorkersNumbered(t) /\ Awaited(t) /\ LeftBehind(t) /\ LoadedIsTrue(t, service)
            /\ SavesAreTrue(t, service) /\ RefreshesAreTrue(t, service) /\ CachesFollow(t, service, ca)
        <5>1. Unwatched(idle, service, ca) BY <3>2, <3>3, <3>4, <3>5, <4>1, <4>2 DEF Unwatched
        <5> QED BY <5>1, <4>2, <4>3, <4>4, ProfileLoads
      <4> QED BY <2>5, <4>5
    <3> HIDE DEF t
    <3>8. CASE w.kind = "refresh"
      <4>1. K!PollWorker(s) = t BY <2>3, <2>7, <3>8 DEF t
      <4>2. ~K!Changed(s.form) BY <2>7, <3>8
      <4>3. s.chosen = K!Unchosen BY <4>2 DEF ScreenInv, SelectedStays
      <4>4. SelectedStays(t) BY <3>7, <4>3 DEF SelectedStays
      <4> QED BY <4>1, <4>4, <3>7 DEF ScreenInv
    <3>9. CASE w.kind # "refresh"
      <4> DEFINE x == [t EXCEPT !.chosen = K!Unchosen,
                         !.misled = @ \/ (w.who \notin s.excused /\ K!Served(w) # K!Asked(w))]
      <4>1. K!PollWorker(s) = x BY <2>3, <2>7, <3>9 DEF t
      <4>2. w.kind = "save" BY <2>4, <3>9 DEF Couriers
      <4>3. w.who \notin s.excused => K!Served(w) = K!Asked(w)
        <5> SUFFICES ASSUME w.who \notin s.excused PROVE K!Served(w) = K!Asked(w) OBVIOUS
        <5>1. Underway(w, s.form.base, service[w.who]) BY <2>1, <4>2 DEF ScreenInv, SavesAreTrue
        <5>2. service[w.who] = K!Asked(w) /\ w.base.image # K!NoImage BY <3>1, <5>1 DEF Underway
        <5>3. K!Asked(w).image # K!NoImage BY <2>4, <5>2 DEF K!Asked, Couriers, Wants
        <5>4. K!Asked(w) = [K!Asked(w) EXCEPT !.image = K!Asked(w).image]
          BY <2>4 DEF K!Asked, Couriers, Wants
        <5> QED BY <5>2, <5>3, <5>4 DEF K!Served
      <4>4. (t.misled \/ (w.who \notin s.excused /\ K!Served(w) # K!Asked(w))) = FALSE
        BY <4>3, <3>7 DEF ScreenInv
      <4>5. x = [t EXCEPT !.chosen = K!Unchosen, !.misled = FALSE] BY <4>4
      <4> HIDE DEF x
      <4>6. /\ x \in Screens /\ x.form = t.form /\ x.chosen = K!Unchosen /\ x.excused = t.excused
            /\ x.misled = FALSE /\ x.workers = t.workers /\ x.hired = t.hired /\ x.raced = t.raced
            /\ x.loaded = t.loaded
        BY <3>7, <4>5 DEF Screens
      <4>7. WorkersNumbered(x) /\ Awaited(x) /\ LeftBehind(x)
        BY <3>7, <4>6 DEF WorkersNumbered, Awaited, LeftBehind
      <4>8. LoadedIsTrue(x, service) BY <3>7, <4>6 DEF LoadedIsTrue, NoSave
      <4>9. SavesAreTrue(x, service) /\ RefreshesAreTrue(x, service)
        BY <3>7, <4>6 DEF SavesAreTrue, RefreshesAreTrue
      <4>10. SelectedStays(x) BY <3>7, <4>6 DEF SelectedStays
      <4>11. CachesFollow(x, service, ca) BY <3>7, <4>6 DEF CachesFollow
      <4> QED BY <4>1, <4>6, <4>7, <4>8, <4>9, <4>10, <4>11 DEF ScreenInv
    <3> QED BY <3>8, <3>9
  <2> QED BY <2>6, <2>7
<1> QED BY <1>1, <1>2

LEMMA PickPolled ==
    ASSUME NEW s, NEW sv, NEW ca, ScreenInv(s, sv, ca)
    PROVE  ScreenInv(K!PollPick(s), sv, ca)
<1>0. s \in Screens /\ s.form \in SkinForms BY DEF ScreenInv, Screens
<1>1. CASE s.form.pick \in {"none", "loading"}
  <2>1. K!PollPick(s) = s BY <1>1 DEF K!PollPick
  <2> QED BY <2>1
<1>2. CASE s.form.pick = "loaded"
  <2> DEFINE want == [s.form.want EXCEPT !.image = "picked"]
             f == [s.form EXCEPT !.pick = "none", !.want = want]
             t == [s EXCEPT !.form = f, !.chosen = f.want]
  <2>1. K!PollPick(s) = t BY <1>0, <1>2 DEF K!PollPick, SkinForms
  <2>2. want \in Wants /\ want.image = "picked" BY <1>0 DEF SkinForms, Wants
  <2> HIDE DEF want
  <2>3. /\ f \in SkinForms /\ f.want = want /\ f.who = s.form.who /\ f.base = s.form.base
        /\ f.token = s.form.token /\ f.saving = s.form.saving /\ f.refreshing = s.form.refreshing
    BY <1>0, <2>2 DEF SkinForms
  <2> HIDE DEF f
  <2>4. /\ t \in Screens /\ t.form = f /\ t.chosen = want /\ t.workers = s.workers /\ t.hired = s.hired
        /\ t.excused = s.excused /\ t.raced = s.raced /\ t.loaded = s.loaded /\ t.misled = s.misled
    BY <1>0, <2>2, <2>3 DEF Screens
  <2> HIDE DEF t
  <2>5. WorkersNumbered(t) /\ LeftBehind(t) BY <2>4 DEF ScreenInv, WorkersNumbered, LeftBehind
  <2>6. Awaited(t) BY <2>3, <2>4 DEF ScreenInv, Awaited
  <2>7. LoadedIsTrue(t, sv) BY <2>3, <2>4 DEF ScreenInv, LoadedIsTrue, NoSave
  <2>8. SavesAreTrue(t, sv) /\ RefreshesAreTrue(t, sv)
    BY <2>3, <2>4 DEF ScreenInv, SavesAreTrue, RefreshesAreTrue
  <2>9. SelectedStays(t)
    <3>1. K!Profile(K!NoImage, f.base.slim, f.base.cape).image # "picked" BY DEF K!Profile, K!NoImage
    <3>2. K!Changed(f) BY <2>2, <2>3, <3>1 DEF K!Changed
    <3>3. want # K!Unchosen BY <2>2, SkinConstants
    <3> QED BY <2>3, <2>4, <3>2, <3>3 DEF SelectedStays
  <2>10. CachesFollow(t, sv, ca) BY <2>4 DEF ScreenInv, CachesFollow
  <2> QED BY <2>1, <2>4, <2>5, <2>6, <2>7, <2>8, <2>9, <2>10 DEF ScreenInv
<1>3. CASE s.form.pick \notin {"none", "loading", "loaded"}
  <2> DEFINE t == [s EXCEPT !.form = [s.form EXCEPT !.pick = "none"]]
  <2>1. K!PollPick(s) = t BY <1>0, <1>3 DEF K!PollPick, Screens
  <2>2. /\ t \in Screens /\ t.workers = s.workers /\ t.hired = s.hired /\ t.chosen = s.chosen
        /\ t.excused = s.excused /\ t.raced = s.raced /\ t.loaded = s.loaded /\ t.misled = s.misled
        /\ t.form.who = s.form.who /\ t.form.base = s.form.base /\ t.form.want = s.form.want
        /\ t.form.saving = s.form.saving /\ t.form.refreshing = s.form.refreshing
        /\ t.form.token = s.form.token
    BY <1>0 DEF Screens, SkinForms
  <2>3. t.form.token => t.form.who \in Accounts BY <2>2 DEF ScreenInv, LoadedIsTrue
  <2> HIDE DEF t
  <2> QED BY <2>1, <2>2, <2>3, ScreenSame
<1> QED BY <1>1, <1>2, <1>3

\* Only what is waiting to be drawn or read changes.
LEMMA ScreenMarked ==
    ASSUME NEW s, NEW sv, NEW ca, ScreenInv(s, sv, ca), NEW f, NEW t, t = [s EXCEPT !.form = f],
           \/ \E b \in BOOLEAN : f = [s.form EXCEPT !.reopen = b]
           \/ f = [s.form EXCEPT !.pick = "loading"]
           \/ \E r \in {"read", "failed"} : f = [s.form EXCEPT !.snapshot = r]
           \/ \E r \in {"loaded", "refused"} : f = [s.form EXCEPT !.pick = r]
    PROVE  ScreenInv(t, sv, ca)
<1>0. s \in Screens /\ s.form \in SkinForms BY DEF ScreenInv, Screens
<1>1. /\ f \in SkinForms /\ f.who = s.form.who /\ f.base = s.form.base /\ f.want = s.form.want
      /\ f.token = s.form.token /\ f.saving = s.form.saving /\ f.refreshing = s.form.refreshing
  BY <1>0 DEF SkinForms
<1>2. /\ t \in Screens /\ t.form = f /\ t.workers = s.workers /\ t.hired = s.hired /\ t.chosen = s.chosen
      /\ t.excused = s.excused /\ t.raced = s.raced /\ t.loaded = s.loaded /\ t.misled = s.misled
  BY <1>0, <1>1 DEF Screens
<1>3. f.token => f.who \in Accounts BY <1>1 DEF ScreenInv, LoadedIsTrue
<1> QED BY <1>1, <1>2, <1>3, ScreenSame

LEMMA RefreshOpened ==
    ASSUME NEW s, NEW sv, NEW ca, ScreenInv(s, sv, ca)
    PROVE  ScreenInv(K!OpenRefresh(s), sv, ca)
<1> DEFINE t == [s EXCEPT !.form = [s.form EXCEPT !.reopen = FALSE]]
<1>1. K!OpenRefresh(s) = s \/ K!OpenRefresh(s) = K!StartRefresh(t)
  BY DEF K!OpenRefresh, ScreenInv, Screens
<1>2. ScreenInv(t, sv, ca) BY ScreenMarked
<1> HIDE DEF t
<1>3. ScreenInv(K!StartRefresh(t), sv, ca) BY <1>2, RefreshStarts
<1> QED BY <1>1, <1>3

LEMMA SkinLoaded ==
    ASSUME NEW s, NEW sv, NEW ca, ScreenInv(s, sv, ca), NEW answer
    PROVE  ScreenInv(K!LoadSkin(s, answer), sv, ca)
<1> DEFINE t == [s EXCEPT !.form = [s.form EXCEPT !.pick = "loading"]]
<1>1. K!LoadSkin(s, answer) = s \/ K!LoadSkin(s, answer) = t
  BY DEF K!LoadSkin, ScreenInv, Screens
<1>2. ScreenInv(t, sv, ca) BY ScreenMarked
<1> HIDE DEF t
<1> QED BY <1>1, <1>2

\* What a frame makes of the screen is the screen.
LEMMA ScreenBecomes ==
    ASSUME NEW s, ScreenInv(s, service, cached), K!Becomes(s), UNCHANGED <<service, cached>>
    PROVE  SkinInv'
<1>1. s \in Screens BY DEF ScreenInv
<1>2. K!Now' = s BY <1>1 DEF K!Now, K!Becomes, Screens
<1> QED BY <1>2 DEF SkinInv

LEMMA FrameStep ==
    SkinInv /\ current \in Accounts \cup {NoAccount} /\ K!Frame => SkinInv'
<1> SUFFICES ASSUME SkinInv, current \in Accounts \cup {NoAccount}, K!Frame PROVE SkinInv' OBVIOUS
<1> DEFINE synced == K!SyncAccount(K!Now)
           opened == IF shown THEN synced ELSE [synced EXCEPT !.form.reopen = TRUE]
           snapped == K!PollSnapshot(opened)
           heard == K!PollWorker(snapped)
           picked_ == K!PollPick(heard)
           polled == K!OpenRefresh(picked_)
           last == K!LoadSkin(polled, picker)
<1>1. ScreenInv(synced, service, cached) BY Synced DEF SkinInv
<1>2. ScreenInv(opened, service, cached)
  <2> HIDE DEF synced
  <2>1. synced.form \in SkinForms /\ synced \in Screens BY <1>1 DEF ScreenInv, Screens
  <2>2. opened = synced \/ opened = [synced EXCEPT !.form = [synced.form EXCEPT !.reopen = TRUE]]
    BY <2>1 DEF Screens
  <2> QED BY <1>1, <2>2, ScreenMarked
<1>3. K!Becomes(last) /\ UNCHANGED <<service, cached>> BY DEF K!Frame
<1> HIDE DEF opened
<1>4. ScreenInv(snapped, service, cached) BY <1>2, SnapshotPolled
<1> HIDE DEF snapped
<1>5. ScreenInv(heard, service, cached) BY <1>4, WorkerPolled
<1> HIDE DEF heard
<1>6. ScreenInv(picked_, service, cached) BY <1>5, PickPolled
<1> HIDE DEF picked_
<1>7. ScreenInv(polled, service, cached) BY <1>6, RefreshOpened
<1> HIDE DEF polled
<1>8. ScreenInv(last, service, cached) BY <1>7, SkinLoaded
<1> HIDE DEF last
<1> QED BY <1>3, <1>8, ScreenBecomes

LEMMA SkinsIdle ==
    SkinInv /\ UNCHANGED <<skins, workers, service, cached, hired, selected, unclaimed, rivals, loaded, misled>>
      => SkinInv'
<1> SUFFICES ASSUME SkinInv,
                    UNCHANGED <<skins, workers, service, cached, hired, selected, unclaimed, rivals, loaded, misled>>
             PROVE  SkinInv'
  OBVIOUS
<1>1. K!Now' = K!Now BY DEF K!Now
<1> QED BY <1>1 DEF SkinInv

LEMMA ReadsStep == SkinInv /\ K!Reads => SkinInv'
<1> SUFFICES ASSUME SkinInv, K!Reads PROVE SkinInv' OBVIOUS
<1> DEFINE s == K!Now
           t == [s EXCEPT !.form = skins']
<1>1. s.form = skins BY DEF K!Now
<1>2. \/ \E r \in {"read", "failed"} : skins' = [s.form EXCEPT !.snapshot = r]
      \/ \E r \in {"loaded", "refused"} : skins' = [s.form EXCEPT !.pick = r]
  BY <1>1 DEF K!Reads
<1>3. ScreenInv(t, service, cached)
  <2> HIDE DEF s
  <2> QED BY <1>2, ScreenMarked DEF SkinInv, s
<1>4. K!Now' = t /\ UNCHANGED <<service, cached>> BY DEF K!Now, K!Reads
<1> QED BY <1>3, <1>4 DEF SkinInv

LEMMA SelectStep == SkinInv /\ K!Select => SkinInv'
<1> SUFFICES ASSUME SkinInv, K!Select PROVE SkinInv' OBVIOUS
<1> DEFINE s == K!Now
           t == [s EXCEPT !.form = skins', !.chosen = selected']
<1>0. s \in Screens /\ s.form \in SkinForms /\ s.form = skins BY DEF SkinInv, ScreenInv, Screens, K!Now
<1>1. PICK want \in Wants : skins' = [s.form EXCEPT !.want = want]
  <2>1. \/ \E b \in BOOLEAN : skins' = [skins EXCEPT !.want.slim = b]
        \/ \E c \in {"no cape", "cape"} : skins' = [skins EXCEPT !.want.cape = c]
    BY DEF K!Select
  <2>2. ASSUME NEW b \in BOOLEAN, skins' = [skins EXCEPT !.want.slim = b]
        PROVE  \E want \in Wants : skins' = [s.form EXCEPT !.want = want]
    <3>1. [skins.want EXCEPT !.slim = b] \in Wants BY <1>0 DEF SkinForms, Wants
    <3>2. skins' = [s.form EXCEPT !.want = [skins.want EXCEPT !.slim = b]] BY <1>0, <2>2 DEF SkinForms
    <3> QED BY <3>1, <3>2
  <2>3. ASSUME NEW c \in {"no cape", "cape"}, skins' = [skins EXCEPT !.want.cape = c]
        PROVE  \E want \in Wants : skins' = [s.form EXCEPT !.want = want]
    <3>1. [skins.want EXCEPT !.cape = c] \in Wants BY <1>0, <2>3 DEF SkinForms, Wants
    <3>2. skins' = [s.form EXCEPT !.want = [skins.want EXCEPT !.cape = c]] BY <1>0, <2>3 DEF SkinForms
    <3> QED BY <3>1, <3>2
  <2> QED BY <2>1, <2>2, <2>3
<1>2. selected' = IF K!Changed(skins') THEN skins'.want ELSE K!Unchosen BY DEF K!Select
<1>m. UNCHANGED <<workers, hired, unclaimed, rivals, loaded, misled, service, cached>> BY DEF K!Select
<1>3. K!Now' = [form |-> skins', workers |-> workers, hired |-> hired, chosen |-> selected',
                excused |-> unclaimed, raced |-> rivals, loaded |-> loaded, misled |-> misled]
  BY <1>m DEF K!Now
<1>n. /\ s.workers = workers /\ s.hired = hired /\ s.excused = unclaimed /\ s.raced = rivals
      /\ s.loaded = loaded /\ s.misled = misled
  BY DEF K!Now
<1>i. ScreenInv(s, service, cached) BY DEF SkinInv
<1> HIDE DEF s
<1>4. /\ skins' \in SkinForms /\ skins'.want = want /\ skins'.who = s.form.who /\ skins'.base = s.form.base
      /\ skins'.token = s.form.token /\ skins'.saving = s.form.saving /\ skins'.refreshing = s.form.refreshing
  BY <1>0, <1>1 DEF SkinForms
<1>5. selected' \in Wants \cup {K!Unchosen} BY <1>2, <1>4
<1>6. /\ t \in Screens /\ t.form = skins' /\ t.chosen = selected' /\ t.workers = s.workers /\ t.hired = s.hired
      /\ t.excused = s.excused /\ t.raced = s.raced /\ t.loaded = s.loaded /\ t.misled = s.misled
  BY <1>0, <1>4, <1>5 DEF Screens
<1> HIDE DEF t
<1>7. WorkersNumbered(t) /\ LeftBehind(t) BY <1>6, <1>i DEF ScreenInv, WorkersNumbered, LeftBehind
<1>8. Awaited(t) BY <1>4, <1>6, <1>i DEF ScreenInv, Awaited
<1>9. LoadedIsTrue(t, service) BY <1>4, <1>6, <1>i DEF ScreenInv, LoadedIsTrue, NoSave
<1>10. SavesAreTrue(t, service) /\ RefreshesAreTrue(t, service)
  BY <1>4, <1>6, <1>i DEF ScreenInv, SavesAreTrue, RefreshesAreTrue
<1>11. SelectedStays(t)
  <2>1. want # K!Unchosen BY SkinConstants
  <2> QED BY <1>2, <1>4, <1>6, <2>1 DEF SelectedStays
<1>12. CachesFollow(t, service, cached) BY <1>6, <1>i DEF ScreenInv, CachesFollow
<1>13. ScreenInv(t, service, cached)
  BY <1>i, <1>6, <1>7, <1>8, <1>9, <1>10, <1>11, <1>12 DEF ScreenInv
<1>14. K!Now' = t
  <2>1. /\ K!Now'.form = skins' /\ K!Now'.workers = workers /\ K!Now'.hired = hired /\ K!Now'.chosen = selected'
        /\ K!Now'.excused = unclaimed /\ K!Now'.raced = rivals /\ K!Now'.loaded = loaded /\ K!Now'.misled = misled
    BY <1>3
  <2> QED BY <1>3, <1>n, <1>6, <2>1 DEF Screens
<1> QED BY <1>m, <1>13, <1>14 DEF SkinInv

LEMMA SkinSaveStep == SkinInv /\ K!Save => SkinInv'
<1> SUFFICES ASSUME SkinInv, K!Save PROVE SkinInv' OBVIOUS
<1> DEFINE s == K!Now
           f == [s.form EXCEPT !.refreshing = FALSE, !.saving = TRUE]
           excuse == IF s.form.base.image = K!NoImage THEN s.excused \cup {s.form.who} ELSE s.excused
           t == [s EXCEPT !.form = f, !.excused = excuse]
<1>0. s \in Screens /\ s.form \in SkinForms /\ s.form = skins BY DEF SkinInv, ScreenInv, Screens, K!Now
<1>i. ScreenInv(s, service, cached) BY DEF SkinInv
<1>1. s.form.saving = FALSE /\ s.form.token = TRUE /\ K!CanSave(s.form)
  BY <1>0 DEF K!Save, K!CanSave, SkinForms
<1>2. K!Becomes(K!StartSave(s)) /\ UNCHANGED <<service, cached>> BY DEF K!Save
<1> HIDE DEF s
<1>3. K!StartSave(s) = K!Hire(t, "save")
  BY <1>0, <1>1 DEF K!StartSave, Screens, SkinForms
<1>4. f \in SkinForms /\ f.who = s.form.who /\ f.base = s.form.base /\ f.want = s.form.want
      /\ f.token = s.form.token /\ f.refreshing = FALSE /\ f.saving = TRUE
  BY <1>0 DEF SkinForms
<1>5. s.form.who \in Accounts BY <1>1, <1>i DEF ScreenInv, LoadedIsTrue
<1>6. excuse \in SUBSET Accounts /\ s.excused \subseteq excuse BY <1>0, <1>5 DEF Screens
<1>7. s.form.base.image = K!NoImage => s.form.who \in excuse OBVIOUS
<1> HIDE DEF f, excuse
<1>8. /\ t \in Screens /\ t.form = f /\ t.excused = excuse /\ t.workers = s.workers /\ t.hired = s.hired
      /\ t.chosen = s.chosen /\ t.raced = s.raced /\ t.loaded = s.loaded /\ t.misled = s.misled
  BY <1>0, <1>4, <1>6 DEF Screens
<1> HIDE DEF t
<1>9. NoSave(s) /\ NoSave(t)
  <2>1. \A w \in s.workers : w.kind \in {"refresh", "save"} BY <1>0 DEF Screens, Couriers
  <2> QED BY <1>1, <1>8, <1>i, <2>1 DEF ScreenInv, Awaited, NoSave
<1>10. WorkersNumbered(t) /\ LeftBehind(t) BY <1>6, <1>8, <1>i DEF ScreenInv, WorkersNumbered, LeftBehind
<1>11. LoadedIsTrue(t, service)
  BY <1>4, <1>6, <1>8, <1>9, <1>i DEF ScreenInv, LoadedIsTrue
<1>12. SelectedStays(t) BY <1>4, <1>8, <1>i DEF ScreenInv, SelectedStays, K!Changed
<1>13. CachesFollow(t, service, cached) BY <1>6, <1>8, <1>i DEF ScreenInv, CachesFollow
<1>14. t.form.who \notin t.excused => t.form.base.image # K!NoImage /\ t.form.base = service[t.form.who]
  <2> SUFFICES ASSUME s.form.who \notin excuse
               PROVE  s.form.base.image # K!NoImage /\ s.form.base = service[s.form.who]
    BY <1>4, <1>8
  <2>1. s.form.base.image # K!NoImage BY <1>7
  <2>2. s.loaded BY <2>1, <1>i, SkinConstants DEF ScreenInv, LoadedIsTrue
  <2> QED BY <2>1, <2>2, <1>6, <1>9, <1>i DEF ScreenInv, LoadedIsTrue
<1>15. service \in Services /\ cached \in Services /\ t.misled = FALSE BY <1>8, <1>i DEF ScreenInv
<1>16. ScreenInv(K!Hire(t, "save"), service, cached)
  BY <1>4, <1>5, <1>8, <1>9, <1>10, <1>11, <1>12, <1>13, <1>14, <1>15, Hiring
<1> QED BY <1>2, <1>3, <1>16, ScreenBecomes DEF s

-----------------------------------------------------------------------------
\* The workers.

\* A worker goes from w to new, and with it the service and the cache of its account.
\* What it owes the form that hears it, and the cache:
OwesSave(w, new, has, has2) == \A base : Underway(w, base, has) => Underway(new, base, has2)
OwesRefresh(w, new, has, has2) == (Fetched(w) => w.got = has) => (Fetched(new) => new.got = has2)
OwesCache(w, new, has, has2, c, c2) ==
    /\ w.phase = "cache" => w.got = has
    /\ c \in {K!Older, has} \/ WritesCache(w)
    => /\ new.phase = "cache" => new.got = has2
       /\ c2 \in {K!Older, has2} \/ WritesCache(new)
WorkerMoves(w, new) ==
    /\ w.phase # "answered" /\ new.n = w.n /\ new.kind = w.kind /\ new.who = w.who /\ new.heard = w.heard
    /\ new.want = w.want /\ new.base = w.base
    /\ (new.phase # "answered" => new.ok) /\ (new.phase \in {"upload", "cape"} => new.kind = "save")

LEMMA Turned ==
    ASSUME NEW s, NEW sv, NEW ca, ScreenInv(s, sv, ca), NEW w \in s.workers, NEW new \in Couriers, WorkerMoves(w, new),
           NEW t \in Screens, t.workers = (s.workers \ {w}) \cup {new}, t.form = s.form, t.chosen = s.chosen,
           t.hired = s.hired, t.raced = s.raced, t.loaded = s.loaded, t.misled = s.misled,
           s.excused \subseteq t.excused,
           NEW sv2 \in Services, NEW ca2 \in Services,
           \A u \in Accounts : u # w.who => sv2[u] = sv[u] /\ ca2[u] = ca[u],
           sv2[w.who] # sv[w.who] => w.kind = "save",
           w.who \notin t.excused =>
             /\ w.kind = "save" => OwesSave(w, new, sv[w.who], sv2[w.who])
             /\ w.kind = "refresh" => OwesRefresh(w, new, sv[w.who], sv2[w.who])
             /\ OwesCache(w, new, sv[w.who], sv2[w.who], ca[w.who], ca2[w.who])
    PROVE  ScreenInv(t, sv2, ca2)
<1>0. s \in Screens /\ \A v \in s.workers : v.who \in Accounts /\ v.kind \in {"refresh", "save"}
  BY DEF ScreenInv, Screens, Couriers
<1>1. WorkersNumbered(t)
  <2>1. WorkersNumbered(s) BY DEF ScreenInv
  <2>2. \A v \in s.workers \ {w} : v.n # new.n BY <2>1 DEF WorkerMoves, WorkersNumbered
  <2>3. \A u, v \in t.workers : u.n = v.n => u = v BY <2>1, <2>2 DEF WorkersNumbered
  <2>4. ASSUME NEW v \in t.workers
        PROVE  v.n <= t.hired /\ (v.phase # "answered" => v.ok) /\ (v.phase \in {"upload", "cape"} => v.kind = "save")
    BY <2>1 DEF WorkerMoves, WorkersNumbered
  <2> QED BY <2>3, <2>4 DEF WorkersNumbered
<1>2. Awaited(t) BY DEF ScreenInv, Awaited, WorkerMoves
<1>3. LeftBehind(t) BY DEF ScreenInv, LeftBehind, WorkerMoves
\* A save nobody hears is excused, and one that is heard is the only worker heard.
<1>4. w.kind = "save" /\ w.who \notin t.excused => w.heard BY DEF ScreenInv, LeftBehind, WorkerMoves
<1>5. ASSUME NEW u \in Accounts, u \notin t.excused, ~w.heard PROVE sv2[u] = sv[u]
  BY <1>0, <1>4, <1>5
<1>6. LoadedIsTrue(t, sv2)
  <2>1. (t.form.token \/ t.loaded => t.form.who \in Accounts) /\ (~t.loaded => t.form.base = K!Plain)
    BY DEF ScreenInv, LoadedIsTrue
  <2>2. ASSUME t.loaded, t.form.who \notin t.excused, NoSave(t) PROVE t.form.base = sv2[t.form.who]
    <3>1. NoSave(s) BY <2>2 DEF NoSave, WorkerMoves
    <3>2. s.form.base = sv[s.form.who] BY <2>2, <3>1 DEF ScreenInv, LoadedIsTrue
    <3>3. w.heard => w.kind = "refresh" BY <3>1 DEF NoSave
    <3>4. sv2[t.form.who] = sv[t.form.who] BY <1>0, <1>4, <2>1, <2>2, <3>3
    <3> QED BY <3>2, <3>4
  <2> QED BY <2>1, <2>2 DEF LoadedIsTrue
<1>7. SavesAreTrue(t, sv2)
  <2> SUFFICES ASSUME NEW v \in t.workers, v.heard, v.kind = "save", v.who \notin t.excused
               PROVE  Underway(v, s.form.base, sv2[v.who])
    BY DEF SavesAreTrue
  <2>1. CASE v = new
    <3>1. w.heard /\ w.kind = "save" /\ w.who \notin s.excused /\ v.who = w.who BY <2>1 DEF WorkerMoves
    <3>2. Underway(w, s.form.base, sv[w.who]) BY <3>1 DEF ScreenInv, SavesAreTrue
    <3> QED BY <2>1, <3>1, <3>2 DEF OwesSave
  <2>2. CASE v # new
    <3>1. v \in s.workers /\ v # w BY <2>2
    <3>2. ~w.heard BY <3>1 DEF ScreenInv, Awaited
    <3>3. sv2[v.who] = sv[v.who] BY <1>0, <1>5, <3>1, <3>2
    <3>4. Underway(v, s.form.base, sv[v.who]) BY <3>1 DEF ScreenInv, SavesAreTrue
    <3> QED BY <3>3, <3>4
  <2> QED BY <2>1, <2>2
<1>8. RefreshesAreTrue(t, sv2)
  <2> SUFFICES ASSUME NEW v \in t.workers, v.heard, v.kind = "refresh", v.who \notin t.excused, Fetched(v)
               PROVE  v.got = sv2[v.who]
    BY DEF RefreshesAreTrue
  <2>1. CASE v = new
    <3>1. w.heard /\ w.kind = "refresh" /\ w.who \notin s.excused /\ v.who = w.who BY <2>1 DEF WorkerMoves
    <3>2. Fetched(w) => w.got = sv[w.who] BY <3>1 DEF ScreenInv, RefreshesAreTrue
    <3> QED BY <2>1, <3>1, <3>2 DEF OwesRefresh
  <2>2. CASE v # new
    <3>1. v \in s.workers /\ v # w BY <2>2
    <3>2. ~w.heard BY <3>1 DEF ScreenInv, Awaited
    <3>3. sv2[v.who] = sv[v.who] BY <1>0, <1>5, <3>1, <3>2
    <3> QED BY <3>1, <3>3 DEF ScreenInv, RefreshesAreTrue
  <2> QED BY <2>1, <2>2
<1>9. SelectedStays(t) BY DEF ScreenInv, SelectedStays
<1>10. CachesFollow(t, sv2, ca2)
  <2> SUFFICES ASSUME NEW u \in Accounts, u \notin t.excused, u \notin t.raced
               PROVE  CacheOf(u, t.workers, sv2[u], ca2[u])
    BY DEF CachesFollow
  <2>1. CacheOf(u, s.workers, sv[u], ca[u]) BY DEF ScreenInv, CachesFollow
  <2>2. CASE u # w.who
    <3>1. sv2[u] = sv[u] /\ ca2[u] = ca[u] /\ new.who # u BY <2>2 DEF WorkerMoves
    <3>2. \A v : v.who = u => (v \in t.workers <=> v \in s.workers) BY <2>2, <3>1
    <3> QED BY <2>1, <3>1, <3>2 DEF CacheOf
  <2>3. CASE u = w.who
    <3>1. \A v \in s.workers : v.who = u /\ v # w => v.phase = "answered" BY <2>1, <2>3 DEF CacheOf, WorkerMoves
    <3>2. \A v \in t.workers : v.who = u /\ v # new => v.phase = "answered" BY <3>1
    <3>3. (w.phase = "cache" => w.got = sv[u]) /\ (ca[u] \in {K!Older, sv[u]} \/ WritesCache(w))
      BY <2>1, <2>3, <3>1 DEF CacheOf, WritesCache
    <3>4. (new.phase = "cache" => new.got = sv2[u]) /\ (ca2[u] \in {K!Older, sv2[u]} \/ WritesCache(new))
      BY <2>3, <3>3 DEF OwesCache
    <3>5. new.who = u /\ new \in t.workers BY <2>3 DEF WorkerMoves
    <3> QED BY <3>2, <3>4, <3>5 DEF CacheOf
  <2> QED BY <2>2, <2>3
<1>11. t.misled = FALSE BY DEF ScreenInv
<1> QED BY <1>1, <1>2, <1>3, <1>6, <1>7, <1>8, <1>9, <1>10, <1>11 DEF ScreenInv

\* The state after a worker's step.
LEMMA WorkerGoes ==
    ASSUME SkinInv, NEW w \in workers, NEW new \in Couriers, WorkerMoves(w, new), K!Turn(w, new), K!Kept,
           unclaimed' \in SUBSET Accounts, unclaimed \subseteq unclaimed',
           service' \in Services, cached' \in Services,
           \A u \in Accounts : u # w.who => service'[u] = service[u] /\ cached'[u] = cached[u],
           service'[w.who] # service[w.who] => w.kind = "save",
           w.who \notin unclaimed' =>
             /\ w.kind = "save" => OwesSave(w, new, service[w.who], service'[w.who])
             /\ w.kind = "refresh" => OwesRefresh(w, new, service[w.who], service'[w.who])
             /\ OwesCache(w, new, service[w.who], service'[w.who], cached[w.who], cached'[w.who])
    PROVE  SkinInv'
<1> DEFINE s == K!Now
           t == K!Now'
<1>1. UNCHANGED <<skins, hired, selected, rivals, loaded, misled>> /\ workers' = (workers \ {w}) \cup {new}
  BY DEF K!Kept, K!Turn
<1>2. /\ s.workers = workers /\ s.form = skins /\ s.chosen = selected /\ s.hired = hired /\ s.raced = rivals
      /\ s.loaded = loaded /\ s.misled = misled /\ s.excused = unclaimed
  BY DEF K!Now
<1>3. /\ t.workers = workers' /\ t.form = skins /\ t.chosen = selected /\ t.hired = hired /\ t.raced = rivals
      /\ t.loaded = loaded /\ t.misled = misled /\ t.excused = unclaimed'
  BY <1>1 DEF K!Now
<1>4. ScreenInv(s, service, cached) BY DEF SkinInv
<1>5. t \in Screens
  <2>1. s \in Screens BY <1>4 DEF ScreenInv
  <2>2. workers' \in SUBSET Couriers BY <1>1, <1>2, <2>1 DEF Screens
  <2>3. t = [form |-> skins, workers |-> workers', hired |-> hired, chosen |-> selected, excused |-> unclaimed',
             raced |-> rivals, loaded |-> loaded, misled |-> misled]
    BY <1>1 DEF K!Now
  <2> QED BY <1>2, <2>1, <2>2, <2>3 DEF Screens
<1> HIDE DEF s, t
<1>6. ScreenInv(t, service', cached') BY <1>1, <1>2, <1>3, <1>4, <1>5, Turned
<1> QED BY <1>6 DEF SkinInv, t

\* Of a worker that is still at work.
LEMMA SkinAtWork ==
    ASSUME SkinInv, NEW w \in workers, w.phase # "answered"
    PROVE  /\ w \in Couriers /\ w.ok = TRUE /\ (w.phase \in {"upload", "cape"} => w.kind = "save")
           /\ service \in Services /\ cached \in Services /\ unclaimed \in SUBSET Accounts
<1>1. K!Now.workers = workers /\ K!Now.excused = unclaimed BY DEF K!Now
<1>2. K!Now \in Screens /\ WorkersNumbered(K!Now) /\ service \in Services /\ cached \in Services
  BY DEF SkinInv, ScreenInv
<1>3. workers \in SUBSET Couriers /\ unclaimed \in SUBSET Accounts BY <1>1, <1>2 DEF Screens
<1>4. w.ok /\ (w.phase \in {"upload", "cape"} => w.kind = "save") BY <1>1, <1>2 DEF WorkersNumbered
<1> QED BY <1>2, <1>3, <1>4 DEF Couriers

\* A worker that fails owes nothing when the service is as it was loaded and it was not to write the cache.
LEMMA FailsOwingNothing ==
    ASSUME NEW w \in Couriers, w.phase \notin {"answered", "cape", "cache"} \/ (w.phase = "cape" /\ ~K!SendsSkin(w)),
           NEW has, NEW c
    PROVE  OwesSave(w, K!Failed(w), has, has) /\ OwesCache(w, K!Failed(w), has, has, c, c)
<1>1. /\ K!Failed(w).phase = "answered" /\ ~K!Failed(w).ok /\ K!Failed(w).base = w.base
      /\ K!Failed(w).want = w.want
  BY DEF K!Failed, Couriers
<1>2. OwesSave(w, K!Failed(w), has, has)
  <2> SUFFICES ASSUME NEW base, Underway(w, base, has) PROVE Underway(K!Failed(w), base, has)
    BY DEF OwesSave
  <2>1. has = w.base BY DEF Underway, Couriers
  <2> QED BY <1>1, <2>1 DEF Underway
<1>3. ~WritesCache(w) BY DEF WritesCache
<1> QED BY <1>1, <1>2, <1>3 DEF OwesCache

LEMMA FailedGoes ==
    ASSUME NEW w \in Couriers, w.phase # "answered"
    PROVE  /\ K!Failed(w) \in Couriers /\ WorkerMoves(w, K!Failed(w))
           /\ \A has : OwesRefresh(w, K!Failed(w), has, has)
<1>1. K!Failed(w) \in Couriers BY DEF K!Failed, Couriers
<1>2. WorkerMoves(w, K!Failed(w)) BY DEF WorkerMoves, K!Failed, Couriers
<1>3. ~Fetched(K!Failed(w)) BY DEF Fetched, K!Failed, Couriers
<1> QED BY <1>1, <1>2, <1>3 DEF OwesRefresh

\* What a save has done when both of its requests, or none, were needed.
LEMMA SkinThenCape ==
    ASSUME NEW w \in Couriers, w.base.image # K!NoImage
    PROVE  /\ K!SendsSkin(w) <=> w.want.image # K!NoImage \/ w.want.slim # w.base.slim
           /\ K!SendsSkin(w) => [SkinSent(w) EXCEPT !.cape = w.want.cape] = K!Asked(w)
           /\ ~K!SendsSkin(w) => [w.base EXCEPT !.cape = w.want.cape] = K!Asked(w)
           /\ SkinSent(w).cape = w.base.cape
<1>1. w.want \in Wants /\ w.base \in Profs BY DEF Couriers
<1>2. K!Asked(w) \in Profs /\ K!Asked(w).image # K!NoImage
  BY <1>1 DEF K!Asked, Wants, Profs, Pictures, K!NoImage
<1>3. K!SendsSkin(w) <=> w.want.image # K!NoImage \/ w.want.slim # w.base.slim
  BY <1>2 DEF K!SendsSkin
<1>4. K!Asked(w).slim = w.want.slim /\ K!Asked(w).cape = w.want.cape BY <1>1 DEF K!Asked, Wants
<1>5. [SkinSent(w) EXCEPT !.cape = w.want.cape] = K!Asked(w) /\ SkinSent(w).cape = w.base.cape
  <2>1. /\ SkinSent(w) \in Profs /\ SkinSent(w).image = K!Asked(w).image /\ SkinSent(w).slim = w.want.slim
        /\ SkinSent(w).cape = w.base.cape
    BY <1>1, <1>2 DEF SkinSent, Profs, Wants
  <2> QED BY <1>2, <1>4, <2>1 DEF Profs
<1>6. ~K!SendsSkin(w) => [w.base EXCEPT !.cape = w.want.cape] = K!Asked(w)
  <2> SUFFICES ASSUME ~K!SendsSkin(w) PROVE [w.base EXCEPT !.cape = w.want.cape] = K!Asked(w) OBVIOUS
  <2>1. w.want.image = K!NoImage /\ w.want.slim = w.base.slim BY <1>3
  <2>2. K!Asked(w).image = w.base.image BY <1>1, <2>1 DEF K!Asked, Wants
  <2> QED BY <1>1, <1>2, <1>4, <2>1, <2>2 DEF Profs
<1> QED BY <1>3, <1>5, <1>6


LEMMA UploadStep == ASSUME NEW w \in workers PROVE SkinInv /\ K!Upload(w) => SkinInv'
<1> SUFFICES ASSUME SkinInv, K!Upload(w) PROVE SkinInv' OBVIOUS
<1>1. w.phase = "upload" /\ K!Kept /\ UNCHANGED <<cached, unclaimed>> BY DEF K!Upload
<1>2. /\ w \in Couriers /\ w.ok = TRUE /\ w.kind = "save" /\ service \in Services /\ cached \in Services
      /\ unclaimed \in SUBSET Accounts
  BY <1>1, SkinAtWork
<1>3. CASE K!Turn(w, K!Failed(w)) /\ UNCHANGED service
  BY <1>1, <1>2, <1>3, FailsOwingNothing, FailedGoes, WorkerGoes
<1>4. CASE /\ K!Turn(w, [w EXCEPT !.phase = "cape"])
           /\ service' = IF ~K!SendsSkin(w) THEN service
                         ELSE [service EXCEPT ![w.who].image = K!Asked(w).image, ![w.who].slim = w.want.slim]
  <2> DEFINE new == [w EXCEPT !.phase = "cape"]
             has == service[w.who]
             sent == [has EXCEPT !.image = K!Asked(w).image, !.slim = w.want.slim]
  <2>1. /\ new \in Couriers /\ new.phase = "cape" /\ new.kind = w.kind /\ new.who = w.who /\ new.n = w.n
        /\ new.heard = w.heard /\ new.want = w.want /\ new.base = w.base /\ new.ok = w.ok
    BY <1>2 DEF Couriers
  <2>2. WorkerMoves(w, new) BY <1>1, <1>2, <2>1 DEF WorkerMoves
  <2>3. w.who \in Accounts /\ has \in Profs /\ K!Asked(w).image \in Pictures /\ w.want.slim \in BOOLEAN
    BY <1>2 DEF Services, Couriers, K!Asked, Wants, Profs, Pictures
  <2>4. service' = IF K!SendsSkin(w) THEN [service EXCEPT ![w.who] = sent] ELSE service
    BY <1>2, <1>4, <2>3 DEF Services
  <2>5. sent \in Profs BY <2>3 DEF Profs
  <2>6. /\ service' \in Services /\ \A u \in Accounts : u # w.who => service'[u] = service[u]
        /\ service'[w.who] = IF K!SendsSkin(w) THEN sent ELSE has
    <3> HIDE DEF sent
    <3> QED BY <1>2, <2>3, <2>4, <2>5 DEF Services
  <2>7. (K!SendsSkin(new) <=> K!SendsSkin(w)) /\ K!Asked(new) = K!Asked(w) BY <2>1, SendsSame
  <2>8. sent = [has EXCEPT !.image = K!Asked(w).image, !.slim = w.want.slim] OBVIOUS
  <2> HIDE DEF new, sent
  <2>9. OwesSave(w, new, has, service'[w.who])
    <3> SUFFICES ASSUME NEW base, Underway(w, base, has) PROVE Underway(new, base, service'[w.who])
      BY DEF OwesSave
    <3>1. has = w.base BY <1>1 DEF Underway
    <3>2. SkinSent(new) = sent BY <2>1, <2>7, <2>8, <3>1 DEF SkinSent
    <3> QED BY <1>1, <2>1, <2>6, <2>7, <3>1, <3>2 DEF Underway
  <2>10. OwesCache(w, new, has, service'[w.who], cached[w.who], cached'[w.who])
    <3>1. ~WritesCache(w) BY <1>1 DEF WritesCache
    <3>2. K!SendsSkin(w) => WritesCache(new) BY <1>2, <2>1, <2>7 DEF WritesCache
    <3> QED BY <1>1, <2>1, <2>6, <3>1, <3>2 DEF OwesCache
  <2>11. K!Turn(w, new) /\ new \in Couriers BY <1>4, <2>1 DEF new
  <2> QED BY <1>1, <1>2, <2>2, <2>6, <2>9, <2>10, <2>11, WorkerGoes
<1> QED BY <1>3, <1>4 DEF K!Upload

LEMMA ChangeCapeStep == ASSUME NEW w \in workers PROVE SkinInv /\ K!ChangeCape(w) => SkinInv'
<1> SUFFICES ASSUME SkinInv, K!ChangeCape(w) PROVE SkinInv' OBVIOUS
<1>1. w.phase = "cape" /\ K!Kept /\ UNCHANGED cached BY DEF K!ChangeCape
<1>2. /\ w \in Couriers /\ w.ok = TRUE /\ w.kind = "save" /\ service \in Services /\ cached \in Services
      /\ unclaimed \in SUBSET Accounts
  BY <1>1, SkinAtWork
<1>3. w.who \in Accounts /\ w.want \in Wants /\ w.base \in Profs /\ service[w.who] \in Profs
  BY <1>2 DEF Couriers, Services
<1>4. CASE /\ K!Turn(w, K!Failed(w)) /\ UNCHANGED service
           /\ unclaimed' = IF K!SendsSkin(w) THEN unclaimed \cup {w.who} ELSE unclaimed
  <2>1. unclaimed' \in SUBSET Accounts /\ unclaimed \subseteq unclaimed' /\ (K!SendsSkin(w) => w.who \in unclaimed')
    BY <1>2, <1>3, <1>4
  <2> QED BY <1>1, <1>2, <1>4, <2>1, FailsOwingNothing, FailedGoes, WorkerGoes
<1>5. ASSUME NEW sv, sv = (IF K!SendsCape(w) THEN [service EXCEPT ![w.who].cape = w.want.cape] ELSE service),
             service' = sv, UNCHANGED unclaimed,
             K!Turn(w, IF K!SendsSkin(w) \/ K!SendsCape(w)
                       THEN [w EXCEPT !.phase = "cache", !.got = sv[w.who]]
                       ELSE [w EXCEPT !.phase = "fetch"])
      PROVE  SkinInv'
  <2> DEFINE has == service[w.who]
             sent == [has EXCEPT !.cape = w.want.cape]
             has2 == service'[w.who]
             new == IF K!SendsSkin(w) \/ K!SendsCape(w)
                    THEN [w EXCEPT !.phase = "cache", !.got = has2]
                    ELSE [w EXCEPT !.phase = "fetch"]
  <2>1. sent \in Profs BY <1>3 DEF Profs, Wants
  <2>2. service' = IF K!SendsCape(w) THEN [service EXCEPT ![w.who] = sent] ELSE service
    BY <1>2, <1>3, <1>5 DEF Services
  <2>3. /\ service' \in Services /\ \A u \in Accounts : u # w.who => service'[u] = service[u]
        /\ has2 = IF K!SendsCape(w) THEN sent ELSE has
    <3> HIDE DEF sent
    <3> QED BY <1>2, <1>3, <2>1, <2>2 DEF Services
  <2>4. has2 \in Profs BY <1>3, <2>3 DEF Services
  <2>5. K!Turn(w, new) BY <1>5
  <2> HIDE DEF has2
  <2>6. /\ new \in Couriers /\ new.kind = w.kind /\ new.who = w.who /\ new.n = w.n
        /\ new.heard = w.heard /\ new.want = w.want /\ new.base = w.base /\ new.ok = w.ok
        /\ (K!SendsSkin(w) \/ K!SendsCape(w) => new.phase = "cache" /\ new.got = has2)
        /\ (~K!SendsSkin(w) /\ ~K!SendsCape(w) => new.phase = "fetch")
    BY <1>2, <2>4 DEF Couriers
  <2>7. WorkerMoves(w, new) BY <1>1, <1>2, <2>6 DEF WorkerMoves
  <2>8. /\ (K!SendsSkin(new) <=> K!SendsSkin(w)) /\ (K!SendsCape(new) <=> K!SendsCape(w))
        /\ K!Asked(new) = K!Asked(w)
    BY <2>6, SendsSame
  <2>9. sent = [has EXCEPT !.cape = w.want.cape] OBVIOUS
  <2> HIDE DEF new, sent
  <2>10. OwesSave(w, new, has, has2)
    <3> SUFFICES ASSUME NEW base, Underway(w, base, has) PROVE Underway(new, base, has2)
      BY DEF OwesSave
    <3>1. w.base = base /\ w.base.image # K!NoImage /\ has = IF K!SendsSkin(w) THEN SkinSent(w) ELSE w.base
      BY <1>1 DEF Underway
    <3>2. K!SendsSkin(w) \/ K!SendsCape(w) => has2 = K!Asked(w)
      <4>1. K!SendsCape(w) => has2 = K!Asked(w) BY <1>2, <2>3, <2>9, <3>1, SkinThenCape
      <4>2. ASSUME ~K!SendsCape(w), K!SendsSkin(w) PROVE has2 = K!Asked(w)
        <5>1. w.want.cape = w.base.cape /\ has2 = SkinSent(w) BY <2>3, <3>1, <4>2 DEF K!SendsCape
        <5>2. SkinSent(w).cape = w.want.cape BY <1>2, <3>1, <5>1, SkinThenCape
        <5>3. [SkinSent(w) EXCEPT !.cape = w.want.cape] = SkinSent(w)
          BY <1>3, <2>4, <5>1, <5>2 DEF Profs
        <5> QED BY <1>2, <3>1, <4>2, <5>1, <5>3, SkinThenCape
      <4> QED BY <4>1, <4>2
    <3>3. ~K!SendsSkin(w) /\ ~K!SendsCape(w) => has2 = w.base BY <2>3, <3>1
    <3> QED BY <2>6, <2>8, <3>1, <3>2, <3>3 DEF Underway
  <2>11. OwesCache(w, new, has, has2, cached[w.who], cached'[w.who])
    <3>1. K!SendsSkin(w) \/ K!SendsCape(w) => WritesCache(new) BY <1>2, <2>6 DEF WritesCache
    <3>2. ~K!SendsSkin(w) => ~WritesCache(w) BY <1>1 DEF WritesCache
    <3>3. ~K!SendsCape(w) => has2 = has BY <2>3
    <3> QED BY <1>1, <2>6, <3>1, <3>2, <3>3 DEF OwesCache
  <2>12. service'[w.who] = has2 BY DEF has2
  <2> QED BY <1>1, <1>2, <1>5, <2>3, <2>5, <2>6, <2>7, <2>10, <2>11, <2>12, WorkerGoes
<1> QED BY <1>4, <1>5 DEF K!ChangeCape

LEMMA FetchStep == ASSUME NEW w \in workers PROVE SkinInv /\ K!Fetch(w) => SkinInv'
<1> SUFFICES ASSUME SkinInv, K!Fetch(w) PROVE SkinInv' OBVIOUS
<1>1. w.phase = "fetch" /\ K!Kept /\ UNCHANGED <<service, cached, unclaimed>> BY DEF K!Fetch
<1>2. /\ w \in Couriers /\ w.ok = TRUE /\ service \in Services /\ cached \in Services
      /\ unclaimed \in SUBSET Accounts
  BY <1>1, SkinAtWork
<1>3. w.who \in Accounts /\ service[w.who] \in Profs BY <1>2 DEF Couriers, Services
<1>4. CASE K!Turn(w, K!Failed(w))
  BY <1>1, <1>2, <1>4, FailsOwingNothing, FailedGoes, WorkerGoes
<1>5. CASE K!Turn(w, [w EXCEPT !.phase = "cache", !.got = service[w.who]])
  <2> DEFINE has == service[w.who]
             new == [w EXCEPT !.phase = "cache", !.got = has]
  <2>1. /\ new \in Couriers /\ new.phase = "cache" /\ new.got = has /\ new.kind = w.kind /\ new.who = w.who
        /\ new.n = w.n /\ new.heard = w.heard /\ new.want = w.want /\ new.base = w.base /\ new.ok = w.ok
    BY <1>2, <1>3 DEF Couriers
  <2>2. WorkerMoves(w, new) BY <1>1, <1>2, <2>1 DEF WorkerMoves
  <2>3. K!Turn(w, new) BY <1>5
  <2> HIDE DEF new
  <2>4. K!Asked(new) = K!Asked(w) BY <2>1, SendsSame
  <2>5. OwesSave(w, new, has, has)
    <3> SUFFICES ASSUME NEW base, Underway(w, base, has) PROVE Underway(new, base, has) BY DEF OwesSave
    <3>1. /\ w.base = base /\ w.base.image # K!NoImage /\ has = w.base
          /\ ~K!SendsSkin(w) /\ ~K!SendsCape(w)
      BY <1>1 DEF Underway
    <3>2. has = K!Asked(w)
      <4>1. [w.base EXCEPT !.cape = w.want.cape] = K!Asked(w) BY <1>2, <3>1, SkinThenCape
      <4>2. w.want.cape = w.base.cape /\ w.base \in Profs BY <1>2, <3>1 DEF K!SendsCape, Couriers
      <4>3. [w.base EXCEPT !.cape = w.want.cape] = w.base BY <4>2 DEF Profs
      <4> QED BY <3>1, <4>1, <4>3
    <3> QED BY <2>1, <2>4, <3>1, <3>2 DEF Underway
  <2>6. OwesRefresh(w, new, has, has) BY <2>1 DEF OwesRefresh
  <2>7. OwesCache(w, new, has, has, cached[w.who], cached[w.who])
    <3>1. ~WritesCache(w) BY <1>1 DEF WritesCache
    <3> QED BY <2>1, <3>1 DEF OwesCache
  <2> QED BY <1>1, <1>2, <2>1, <2>2, <2>3, <2>5, <2>6, <2>7, WorkerGoes
<1> QED BY <1>4, <1>5 DEF K!Fetch

LEMMA WriteCacheStep == ASSUME NEW w \in workers PROVE SkinInv /\ K!WriteCache(w) => SkinInv'
<1> SUFFICES ASSUME SkinInv, K!WriteCache(w) PROVE SkinInv' OBVIOUS
<1>1. w.phase = "cache" /\ K!Kept /\ UNCHANGED service BY DEF K!WriteCache
<1>2. /\ w \in Couriers /\ w.ok = TRUE /\ service \in Services /\ cached \in Services
      /\ unclaimed \in SUBSET Accounts
  BY <1>1, SkinAtWork
<1>3. w.who \in Accounts /\ w.got \in Profs /\ w.kind \in {"refresh", "save"} BY <1>2 DEF Couriers
<1>4. CASE /\ K!Turn(w, K!Failed(w)) /\ UNCHANGED cached
           /\ unclaimed' = unclaimed \cup (IF w.kind = "save" THEN {w.who} ELSE {})
  <2>1. unclaimed' \in SUBSET Accounts /\ unclaimed \subseteq unclaimed' /\ (w.kind = "save" => w.who \in unclaimed')
    BY <1>2, <1>3, <1>4
  <2>2. w.kind = "refresh"
          => OwesCache(w, K!Failed(w), service[w.who], service[w.who], cached[w.who], cached[w.who])
    <3>1. K!Failed(w).phase = "answered" BY <1>2 DEF K!Failed, Couriers
    <3>2. w.kind = "refresh" => ~WritesCache(w) BY DEF WritesCache
    <3> QED BY <3>1, <3>2 DEF OwesCache
  <2> QED BY <1>1, <1>2, <1>3, <1>4, <2>1, <2>2, FailedGoes, WorkerGoes
<1>5. CASE /\ K!Turn(w, [w EXCEPT !.phase = "answered"]) /\ UNCHANGED unclaimed
           /\ cached' = [cached EXCEPT ![w.who] = w.got]
  <2> DEFINE has == service[w.who]
             new == [w EXCEPT !.phase = "answered"]
  <2>1. /\ new \in Couriers /\ new.phase = "answered" /\ new.got = w.got /\ new.kind = w.kind /\ new.who = w.who
        /\ new.n = w.n /\ new.heard = w.heard /\ new.want = w.want /\ new.base = w.base /\ new.ok = w.ok
    BY <1>2 DEF Couriers
  <2>2. WorkerMoves(w, new) BY <1>1, <1>2, <2>1 DEF WorkerMoves
  <2>3. K!Turn(w, new) BY <1>5
  <2>4. /\ cached' \in Services /\ cached'[w.who] = w.got
        /\ \A u \in Accounts : u # w.who => cached'[u] = cached[u]
    BY <1>2, <1>3, <1>5 DEF Services
  <2> HIDE DEF new
  <2>5. K!Asked(new) = K!Asked(w) BY <2>1, SendsSame
  <2>6. OwesSave(w, new, has, has) BY <1>1, <1>2, <2>1, <2>5 DEF OwesSave, Underway
  <2>7. OwesRefresh(w, new, has, has) BY <1>1, <2>1 DEF OwesRefresh, Fetched
  <2>8. OwesCache(w, new, has, has, cached[w.who], cached'[w.who])
    BY <1>1, <2>1, <2>4 DEF OwesCache
  <2> QED BY <1>1, <1>2, <1>5, <2>1, <2>2, <2>3, <2>4, <2>6, <2>7, <2>8, WorkerGoes
<1> QED BY <1>4, <1>5 DEF K!WriteCache

LEMMA DiesStep == ASSUME NEW w \in workers PROVE SkinInv /\ K!Dies(w) => SkinInv'
<1> SUFFICES ASSUME SkinInv, K!Dies(w) PROVE SkinInv' OBVIOUS
<1> DEFINE has == service[w.who]
           new == [w EXCEPT !.phase = "died"]
<1>1. w.phase \in {"fetch", "upload"} /\ K!Kept /\ UNCHANGED <<service, cached, unclaimed>> BY DEF K!Dies
<1>2. /\ w \in Couriers /\ w.ok = TRUE /\ service \in Services /\ cached \in Services
      /\ unclaimed \in SUBSET Accounts
  BY <1>1, SkinAtWork
<1>3. /\ new \in Couriers /\ new.phase = "died" /\ new.got = w.got /\ new.kind = w.kind /\ new.who = w.who
      /\ new.n = w.n /\ new.heard = w.heard /\ new.want = w.want /\ new.base = w.base /\ new.ok = w.ok
  BY <1>2 DEF Couriers
<1>4. WorkerMoves(w, new) BY <1>1, <1>2, <1>3 DEF WorkerMoves
<1>5. K!Turn(w, new) BY DEF K!Dies
<1> HIDE DEF new
<1>6. OwesSave(w, new, has, has) BY <1>1, <1>3 DEF OwesSave, Underway
<1>7. OwesRefresh(w, new, has, has) BY <1>3 DEF OwesRefresh, Fetched
<1>8. OwesCache(w, new, has, has, cached[w.who], cached[w.who])
  <2>1. ~WritesCache(w) BY <1>1 DEF WritesCache
  <2> QED BY <1>3, <2>1 DEF OwesCache
<1> QED BY <1>1, <1>2, <1>3, <1>4, <1>5, <1>6, <1>7, <1>8, WorkerGoes

LEMMA ThrownAwayStep == ASSUME NEW w \in workers PROVE SkinInv /\ K!ThrownAway(w) => SkinInv'
<1> SUFFICES ASSUME SkinInv, K!ThrownAway(w) PROVE SkinInv' OBVIOUS
<1> DEFINE s == K!Now
           t == K!Now'
<1>1. w.phase \in {"answered", "died"} /\ ~w.heard BY DEF K!ThrownAway
<1>2. /\ workers' = workers \ {w}
      /\ UNCHANGED <<skins, hired, selected, unclaimed, rivals, loaded, misled, service, cached>>
  BY DEF K!ThrownAway, K!Kept
<1>3. /\ s.workers = workers /\ s.form = skins /\ s.chosen = selected /\ s.hired = hired /\ s.raced = rivals
      /\ s.loaded = loaded /\ s.misled = misled /\ s.excused = unclaimed
  BY DEF K!Now
<1>4. /\ t.workers = s.workers \ {w} /\ t.form = s.form /\ t.chosen = s.chosen /\ t.hired = s.hired
      /\ t.raced = s.raced /\ t.loaded = s.loaded /\ t.misled = s.misled /\ t.excused = s.excused
  BY <1>2 DEF K!Now
<1>5. t = [form |-> skins, workers |-> workers', hired |-> hired, chosen |-> selected, excused |-> unclaimed,
           raced |-> rivals, loaded |-> loaded, misled |-> misled]
  BY <1>2 DEF K!Now
<1>6. ScreenInv(s, service, cached) BY DEF SkinInv
<1> HIDE DEF s, t
<1>7. s \in Screens BY <1>6 DEF ScreenInv
<1>8. t \in Screens BY <1>2, <1>3, <1>5, <1>7 DEF Screens
<1>9. \A v \in t.workers : v \in s.workers BY <1>4
<1>10. WorkersNumbered(t) /\ LeftBehind(t) BY <1>4, <1>6, <1>9 DEF ScreenInv, WorkersNumbered, LeftBehind
<1>11. Awaited(t) BY <1>1, <1>4, <1>6 DEF ScreenInv, Awaited
<1>12. LoadedIsTrue(t, service) BY <1>1, <1>4, <1>6 DEF ScreenInv, LoadedIsTrue, NoSave
<1>13. SavesAreTrue(t, service) /\ RefreshesAreTrue(t, service)
  BY <1>4, <1>6, <1>9 DEF ScreenInv, SavesAreTrue, RefreshesAreTrue
<1>14. SelectedStays(t) BY <1>4, <1>6 DEF ScreenInv, SelectedStays
<1>15. CachesFollow(t, service, cached)
  <2> SUFFICES ASSUME NEW u \in Accounts, u \notin s.excused, u \notin s.raced,
                      CacheOf(u, s.workers, service[u], cached[u])
               PROVE  CacheOf(u, t.workers, service[u], cached[u])
    BY <1>4, <1>6 DEF ScreenInv, CachesFollow
  <2>1. ~WritesCache(w) BY <1>1 DEF WritesCache
  <2> QED BY <1>4, <1>9, <2>1 DEF CacheOf
<1>16. ScreenInv(t, service, cached)
  BY <1>4, <1>6, <1>8, <1>10, <1>11, <1>12, <1>13, <1>14, <1>15 DEF ScreenInv
<1> QED BY <1>2, <1>16 DEF SkinInv, t

SkinAll == SkinInv /\ current \in Accounts \cup {NoAccount}

LEMMA SkinStep == SkinAll /\ [K!SkinsNext]_(K!skinVars) => SkinAll'
<1> SUFFICES ASSUME SkinAll, [K!SkinsNext]_(K!skinVars) PROVE SkinAll' OBVIOUS
<1> USE DEF SkinAll
<1>1. CASE UNCHANGED K!skinVars BY <1>1, SkinsIdle DEF K!skinVars
<1>2. CASE K!Frame BY <1>2, FrameStep DEF K!Frame
<1>3. CASE K!Leave \/ K!OpenPicker \/ K!PickerAnswers
  BY <1>3, SkinsIdle DEF K!Leave, K!OpenPicker, K!PickerAnswers
<1>4. CASE K!Switch
  <2>1. SkinInv' BY <1>4, SkinsIdle DEF K!Switch
  <2>2. (current \in Accounts \cup {NoAccount})' BY <1>4 DEF K!Switch
  <2> QED BY <2>1, <2>2
<1>5. CASE K!Select BY <1>5, SelectStep DEF K!Select
<1>6. CASE K!Save BY <1>6, SkinSaveStep DEF K!Save
<1>7. CASE K!Reads BY <1>7, ReadsStep DEF K!Reads
<1>8. ASSUME NEW w \in workers,
             K!Upload(w) \/ K!ChangeCape(w) \/ K!Fetch(w) \/ K!WriteCache(w) \/ K!Dies(w) \/ K!ThrownAway(w)
      PROVE  SkinAll'
  <2>1. SkinInv'
    BY <1>8, UploadStep, ChangeCapeStep, FetchStep, WriteCacheStep, DiesStep, ThrownAwayStep
  <2>2. UNCHANGED current
    BY <1>8 DEF K!Kept, K!Upload, K!ChangeCape, K!Fetch, K!WriteCache, K!Dies, K!ThrownAway
  <2> QED BY <2>1, <2>2
<1> QED BY <1>1, <1>2, <1>3, <1>4, <1>5, <1>6, <1>7, <1>8 DEF K!SkinsNext

LEMMA SkinKept == SkinInv => K!SkinsAreRight
<1> SUFFICES ASSUME SkinInv PROVE K!SkinsAreRight OBVIOUS
<1>1. /\ Awaited(K!Now) /\ LoadedIsTrue(K!Now, service) /\ SelectedStays(K!Now) /\ K!Now \in Screens
      /\ CachesFollow(K!Now, service, cached) /\ K!Now.misled = FALSE
  BY DEF SkinInv, ScreenInv
<1>2. /\ K!Now.workers = workers /\ K!Now.form = skins /\ K!Now.chosen = selected /\ K!Now.raced = rivals
      /\ K!Now.loaded = loaded /\ K!Now.misled = misled /\ K!Now.excused = unclaimed
  BY DEF K!Now
<1>3. K!AwaitedIsHeard
  <2> DEFINE heard == {w \in workers : w.heard}
  <2>0. K!Cardinality(heard) = Cardinality(heard) BY DEF K!Cardinality, Cardinality
  <2>1. Cardinality(heard) <= 1
    <3> HIDE DEF heard
    <3>0. \A w \in heard : w \in workers /\ w.heard BY DEF heard
    <3>1. CASE heard = {} BY <3>1, FS_EmptySet
    <3>2. ASSUME NEW w \in heard PROVE Cardinality(heard) <= 1
      <4>1. heard = {w} BY <1>1, <1>2, <3>0, <3>2 DEF Awaited
      <4>2. Cardinality({w}) = 1 BY FS_Singleton
      <4> QED BY <4>1, <4>2
    <3> QED BY <3>1, <3>2
  <2>2. skins \in SkinForms BY <1>1, <1>2 DEF Screens
  <2>3. (skins.refreshing \/ skins.saving) = (heard # {})
    <3>1. skins.refreshing \/ skins.saving => heard # {} BY <1>1, <1>2 DEF Awaited
    <3>2. ASSUME NEW w \in heard PROVE skins.refreshing \/ skins.saving
      <4>1. w.kind \in {"refresh", "save"} BY <1>1, <1>2, <3>2 DEF Screens, Couriers
      <4> QED BY <1>1, <1>2, <3>2, <4>1 DEF Awaited
    <3> QED BY <2>2, <3>1, <3>2 DEF SkinForms
  <2>4. \A w \in heard : /\ w.who = skins.who
                         /\ skins.saving = (w.kind = "save") /\ skins.refreshing = (w.kind = "refresh")
    BY <1>1, <1>2 DEF Awaited
  <2>5. K!Cardinality(heard) <= 1 BY <2>0, <2>1
  <2> QED BY <2>3, <2>4, <2>5 DEF K!AwaitedIsHeard
<1>4. K!FormIsTrue BY <1>1, <1>2 DEF K!FormIsTrue, LoadedIsTrue, NoSave
<1>5. K!SelectionIsSent BY <1>1, <1>2 DEF K!SelectionIsSent, SelectedStays
<1>6. K!SavedIsTold BY <1>1, <1>2 DEF K!SavedIsTold
<1>7. K!CacheFollows BY <1>1, <1>2 DEF K!CacheFollows, CachesFollow, CacheOf, WritesCache, K!Busy
<1> QED BY <1>3, <1>4, <1>5, <1>6, <1>7 DEF K!SkinsAreRight
-----------------------------------------------------------------------------
\* A step of the run is one of the editor's, the instance's settings' or the skins screen's,
\* or leaves them alone.
LEMMA FormsMove ==
    [MCNext]_<<vars, storeVars, signInVars, settingsVars, formVars, skinVars, part>>
    => /\ [E!EditorNext]_(E!editorVars) /\ [I!Next]_(I!vars) /\ [K!SkinsNext]_(K!skinVars)
BY DEF MCNext, settingsVars, formVars, skinVars, E!editorVars, I!vars, K!skinVars

\* In every behaviour of the run: a game's setting is what the user, the game or a pass gave
\* it last, and the editor shows it (game_settings_editor.rs); what an instance's record says
\* is what was chosen in its settings (instance/state.rs and its sections); and the skins
\* screen shows and sends what is its account's and was selected (skins_state.rs,
\* skins_api.rs), for any number of keys, values, edits and workers, and for what lies past
\* the excuses.  The table of options is left to the run.
THEOREM FormsAreKept == MCSpec => [](part # "translation" => SettingsAreKept)
<1> DEFINE Inv == EditorInv /\ SettingsInv /\ SkinAll
<1>1. MCInit => Inv
  <2>1. K!SkinsInit => current \in Accounts \cup {NoAccount}
    BY DEF K!SkinsInit
  <2> QED
    BY <2>1, EditorInitInv, SettingsInit, SkinInitInv DEF MCInit, SkinAll
<1>2. /\ Inv
      /\ [MCNext]_<<vars, storeVars, signInVars, settingsVars, formVars, skinVars, part>>
      => Inv'
  BY FormsMove, EditorStep, SettingsStep, SkinStep
<1>3. Inv => (part # "translation" => SettingsAreKept)
  BY EditorKeeps, SettingsKept, SkinKept DEF SettingsAreKept, SkinAll
<1> QED
  BY <1>1, <1>2, <1>3, PTL DEF MCSpec
=============================================================================
