------------------------------- MODULE Accounts -------------------------------
(***************************************************************************)
(* The signed-in accounts (auth_state, auth/lib.rs, auth/cache.rs,         *)
(* skins/profile_cache.rs).  They are kept in three places: the memory of  *)
(* the UI, a file that lists them, and the keyring, which holds the        *)
(* refresh token of each.  A token is replaced when it is used: the        *)
(* newest must be in the keyring when the launcher starts again.           *)
(*                                                                         *)
(* The UI saves in the background.  A renewal and the skins screen load    *)
(* the accounts from the disk, work, and save what they loaded; nothing    *)
(* keeps these savers apart, and a renewal's result replaces the accounts  *)
(* in memory.                                                              *)
(***************************************************************************)
EXTENDS Integers, FiniteSets, Functions

CONSTANTS
    Accounts,
    NoAccount,
    MaxTokens,      \* bound on the tokens issued
    MaxSaves        \* bound on the saves one session asks for

ASSUME AccountsAssumption ==
    NoAccount \notin Accounts /\ MaxTokens \in Nat /\ MaxSaves \in Nat

VARIABLES
    session,    \* off, loading, on
    mem,        \* AuthState.accounts_state
    flow,       \* a sign-in is under way (flow, device_code_flow)
    renewal,    \* AuthState.renewal: none, one account, or all of them
    result,     \* what the renewal has sent
    queue,      \* background saves that have not begun
    next,       \* NEXT
    written,    \* WRITTEN
    job,        \* what each worker is doing
    file,       \* account_cache_path()
    keyring,    \* refresh tokens; 0 is no entry
    newest,     \* the newest token the server has issued
    users,      \* history: accounts signed in and not removed
    chosen,     \* history: the account last selected or signed in
    excused,    \* history: failures that no save makes up for
    raced       \* history: what savers that overlapped may have undone

ui == <<session, mem, flow, renewal, result, queue, next, written>>
disk == <<file, keyring>>
history == <<users, chosen>>
vars == <<session, mem, flow, renewal, result, queue, next, written, job, file,
          keyring, newest, users, chosen, excused, raced>>

\* An account's refresh token in memory; Unread is RefreshTokenState::Unavailable.
Absent == 0
Missing == -1
Unread == -2
Tokens == -2..MaxTokens
States == [tok : [Accounts -> Tokens], active : Accounts \cup {NoAccount}]
Nobody == [tok |-> [a \in Accounts |-> Absent], active |-> NoAccount]
In(st) == {a \in Accounts : st.tok[a] # Absent}

Workers == {"loader", "saver", "renewal", "skins"}
Idle == [pc |-> "idle", st |-> Nobody, prev |-> {}, todo |-> {}, mixed |-> FALSE]
None == [ok |-> FALSE, st |-> Nobody]
Saving == {"previous", "store", "write", "delete"}
Busy(w) == job[w].pc # "idle"

Init ==
    /\ session = "off" /\ mem = Nobody /\ flow = FALSE
    /\ renewal = {} /\ result = {}
    /\ queue = {} /\ next = 0 /\ written = 0
    /\ job = [w \in Workers |-> Idle]
    /\ file = [whole |-> TRUE, in |-> {}, active |-> NoAccount]
    /\ keyring = [a \in Accounts |-> 0]
    /\ newest = [a \in Accounts |-> 0]
    /\ users = {} /\ chosen = NoAccount /\ excused = {} /\ raced = {}

Issued(tokens) == FoldFunction(+, 0, tokens)

To(w, pc) == job' = [job EXCEPT ![w].pc = pc]

-----------------------------------------------------------------------------
(* cache::load_cached_accounts, in the loader, a renewal and the skins      *)
(* screen: the file, then the token of each account in it.                  *)

LoadFails(w) ==
    /\ job' = [job EXCEPT ![w] = Idle]
    /\ CASE w = "loader" -> /\ session' = "on"
                            /\ excused' = excused \cup {"not loaded"}
                            /\ UNCHANGED result
         [] w = "renewal" -> /\ result' = {None}
                             /\ UNCHANGED <<session, excused>>
         [] w = "skins" -> UNCHANGED <<session, result, excused>>
    /\ UNCHANGED <<mem, flow, renewal, queue, next, written, disk, newest, history>>

LoadFile(w) ==
    /\ job[w].pc = "file"
    /\ \/ /\ file.whole
          /\ job' = [job EXCEPT ![w].pc = "tokens", ![w].prev = file.in,
                                ![w].st.active = file.active]
          /\ UNCHANGED <<ui, disk, newest, history, excused>>
       \/ LoadFails(w)

Token(a, unread) ==
    IF a \in unread THEN Unread ELSE IF keyring[a] = 0 THEN Missing ELSE keyring[a]

\* finalize_loaded_accounts.  The keyring may be unavailable, or fail.
LoadTokens(w) ==
    /\ job[w].pc = "tokens"
    /\ \/ \E unread \in {{}, job[w].prev} :
            LET st == [job[w].st EXCEPT !.tok =
                         [a \in Accounts |-> IF a \in job[w].prev THEN Token(a, unread)
                                             ELSE Absent]]
            IN  /\ IF w = "loader"
                   THEN \* The UI takes what it loaded, and may start a renewal.
                        /\ session' = "on" /\ mem' = st
                        /\ \E start \in BOOLEAN :
                             LET go == start /\ In(st) # {}
                             IN  /\ renewal' = IF go THEN Accounts ELSE {}
                                 /\ job' = [job EXCEPT ![w] = Idle,
                                             !["renewal"].pc = IF go THEN "file" ELSE "idle"]
                   ELSE /\ job' = [job EXCEPT ![w].st = st,
                             ![w].pc = IF w = "renewal" THEN "refresh" ELSE "previous"]
                        /\ UNCHANGED <<session, mem, renewal>>
                /\ UNCHANGED <<flow, result, queue, next, written, disk, newest,
                               history, excused>>
       \/ LoadFails(w)

-----------------------------------------------------------------------------
(* cache::save_cached_accounts: tokens first, then the file, then the       *)
(* tokens of accounts the file no longer lists.                             *)

\* How a save ends, for the worker it was made by.
Saved(w, ok) ==
    /\ job' = [job EXCEPT ![w] = Idle]
    /\ result' = IF w = "renewal" THEN {IF ok THEN [ok |-> TRUE, st |-> job[w].st] ELSE None} ELSE result
    /\ UNCHANGED <<session, mem, flow, renewal, queue, next, written>>

SaveFails(w) ==
    /\ Saved(w, FALSE)
    /\ excused' = excused \cup {"not saved"}
    /\ UNCHANGED <<newest, history>>

ReadPrevious(w) ==
    /\ job[w].pc = "previous"
    /\ job' = [job EXCEPT ![w].pc = "store",
                          ![w].prev = IF file.whole THEN file.in ELSE {},
                          ![w].todo = In(job[w].st)]
    /\ UNCHANGED <<ui, disk, newest, history, excused>>

\* Mutant of Persisted: what could not be read is taken for missing.
PersistedUnlessRead(tok, old) == IF tok > 0 THEN tok ELSE 0

\* persist_refresh_token: a token is stored, a missing one deleted, and one that
\* could not be read left alone.
Persisted(tok, old) ==
    IF tok > 0 THEN tok ELSE IF tok = Unread THEN old ELSE 0

\* store_refresh_token deletes the entry before it writes it: a failure between
\* the two loses it.
StoreToken(w) ==
    /\ job[w].pc = "store"
    /\ \E a \in job[w].todo :
         \/ /\ keyring' = [keyring EXCEPT ![a] = Persisted(job[w].st.tok[a], @)]
            /\ job' = [job EXCEPT ![w].todo = @ \ {a}]
            /\ UNCHANGED <<ui, file, newest, history, excused>>
         \/ /\ keyring' \in {keyring, [keyring EXCEPT ![a] = 0]}
            /\ Saved(w, FALSE)
            /\ excused' = excused \cup {"not saved", "token deleted"}
            /\ UNCHANGED <<file, newest, history>>

\* fs::write: truncated first, under whoever is writing it.
Truncate(w) ==
    /\ job[w].pc = "store" /\ job[w].todo = {}
    /\ LET others == {v \in Workers \ {w} : job[v].pc = "write"}
       IN  job' = [v \in Workers |->
                     IF v = w THEN [job[w] EXCEPT !.pc = "write", !.mixed = others # {},
                                                  !.prev = {}, !.todo = job[w].prev \ In(job[w].st)]
                     ELSE IF v \in others THEN [job[v] EXCEPT !.mixed = TRUE]
                     ELSE job[v]]
    /\ file' = [whole |-> FALSE, in |-> In(job[w].st), active |-> job[w].st.active]
    /\ UNCHANGED <<ui, keyring, newest, history, excused>>

\* What is left to delete; when nothing is, the save is done.
Left(w, accounts) ==
    IF accounts = {} THEN Saved(w, TRUE)
    ELSE /\ job' = [job EXCEPT ![w].pc = "delete", ![w].todo = accounts]
         /\ UNCHANGED ui

WriteFile(w) ==
    /\ job[w].pc = "write"
    /\ \/ /\ \E whole \in BOOLEAN :
               /\ whole \/ job[w].mixed
               /\ file' = [whole |-> whole, in |-> In(job[w].st),
                           active |-> job[w].st.active]
          /\ Left(w, job[w].todo)
          /\ UNCHANGED <<keyring, newest, history, excused>>
       \/ SaveFails(w) /\ UNCHANGED disk

DeleteToken(w) ==
    /\ job[w].pc = "delete"
    /\ \E a \in job[w].todo :
         \/ /\ keyring' = [keyring EXCEPT ![a] = 0]
            /\ Left(w, job[w].todo \ {a})
            /\ UNCHANGED <<file, newest, history, excused>>
         \/ SaveFails(w) /\ UNCHANGED disk

-----------------------------------------------------------------------------
(* Background saves, one at a time.                                         *)

Queue(st) ==
    /\ next < MaxSaves
    /\ next' = next + 1
    /\ queue' = queue \cup {[seq |-> next', st |-> st]}

\* Mutant of Skips: a save that was overtaken is made all the same.
NeverSkips(r) == FALSE

\* A newer save has begun: this one is not made.
Skips(r) == r.seq < written

BeginSave(r) ==
    /\ ~Busy("saver")
    /\ queue' = queue \ {r}
    /\ IF Skips(r) THEN UNCHANGED <<written, job>>
       ELSE /\ written' = r.seq
            /\ job' = [job EXCEPT !["saver"].pc = "previous", !["saver"].st = r.st]
    /\ UNCHANGED <<session, mem, flow, renewal, result, next, disk, newest,
                   history, excused>>

-----------------------------------------------------------------------------
(* The UI.                                                                  *)

StartSession ==
    /\ session = "off"
    /\ session' = "loading"
    /\ To("loader", "file")
    /\ UNCHANGED <<mem, flow, renewal, result, queue, next, written, disk, newest,
                   history, excused>>

\* spawn_renewal_worker and spawn_single_account_renewal_worker.
StartRenewal(which) ==
    /\ renewal' = which
    /\ To("renewal", "file")

\* The account has no access token, or it has; whether it has is left open.
SelectAccount(a) ==
    /\ session = "on" /\ mem.tok[a] # Absent
    /\ mem' = [mem EXCEPT !.active = a]
    /\ chosen' = a
    /\ \/ UNCHANGED <<renewal, job>>
       \/ renewal = {} /\ mem.tok[a] > 0 /\ StartRenewal(Accounts)
    /\ Queue(mem')
    /\ UNCHANGED <<session, flow, result, written, disk, newest, users, excused>>


\* The account that is active when a is removed: the first of those left, whose
\* order is left open.
ActiveWithout(a) ==
    IF mem.active # a THEN {mem.active}
    ELSE IF In(mem) = {a} THEN {NoAccount}
    ELSE In(mem) \ {a}

\* remove_by_profile_id.
RemoveAccount(a) ==
    /\ session = "on" /\ mem.tok[a] # Absent
    /\ \E b \in ActiveWithout(a) :
         mem' = [tok |-> [mem.tok EXCEPT ![a] = Absent], active |-> b]
    /\ users' = users \ {a}
    /\ chosen' = IF chosen = a THEN NoAccount ELSE chosen
    /\ Queue(mem')
    /\ UNCHANGED <<session, flow, renewal, result, written, job, disk, newest, excused>>

RefreshAccount(a) ==
    /\ session = "on" /\ ~flow /\ renewal = {} /\ mem.tok[a] > 0
    /\ StartRenewal({a})
    /\ UNCHANGED <<session, mem, flow, result, queue, next, written, disk, newest,
                   history, excused>>

StartSignIn ==
    /\ session = "on" /\ ~flow /\ renewal = {}
    /\ flow' = TRUE
    /\ UNCHANGED <<session, mem, renewal, result, queue, next, written, job, disk,
                   newest, history, excused>>

\* poll_interactive_flow and poll_device_code_flow: completed, or failed, given up
\* or disconnected.
EndSignIn ==
    /\ flow /\ flow' = FALSE
    /\ \/ \E a \in Accounts :
            /\ newest' = [newest EXCEPT ![a] = @ + 1]
            /\ Issued(newest') <= MaxTokens
            /\ mem' = [tok |-> [mem.tok EXCEPT ![a] = newest'[a]], active |-> a]
            /\ users' = users \cup {a} /\ chosen' = a
            /\ Queue(mem')
       \/ UNCHANGED <<mem, queue, next, newest, users, chosen>>
    /\ UNCHANGED <<session, renewal, result, written, job, disk, excused>>

\* Mutant of KeepActive: the account that was active when the renewal loaded.
ActiveAsRenewed(st) == st

\* apply_accounts_state: the account the user has selected stays active.
KeepActive(st) ==
    IF mem.active \in In(st) THEN [st EXCEPT !.active = mem.active] ELSE st

\* poll_renewal.
PollRenewal ==
    /\ result # {}
    /\ result' = {} /\ renewal' = {}
    /\ \A r \in result :
         IF r.ok THEN /\ mem' = KeepActive(r.st)
                      /\ chosen' = IF chosen \in In(r.st) THEN chosen ELSE NoAccount
         ELSE UNCHANGED <<mem, chosen>>
    /\ UNCHANGED <<session, flow, queue, next, written, job, disk, newest, users, excused>>

-----------------------------------------------------------------------------
(* The renewal worker and the skins screen.                                 *)

\* Of the accounts that can be renewed some are, and some get a new token.  A
\* single one that is not renewed is an error; of all of them the worker saves
\* those that lost their access token, or has nothing to save.
Refresh ==
    LET st == job["renewal"].st
    IN
    /\ job["renewal"].pc = "refresh"
    /\ \E ok \in SUBSET {a \in renewal : st.tok[a] > 0} : \E new \in SUBSET ok :
         LET tok == [a \in Accounts |-> IF a \in new THEN newest[a] + 1 ELSE st.tok[a]]
         IN
         /\ newest' = [a \in Accounts |-> newest[a] + IF a \in new THEN 1 ELSE 0]
         /\ Issued(newest') <= MaxTokens
         /\ \/ /\ ok # {} \/ renewal = Accounts
               /\ job' = [job EXCEPT !["renewal"].pc = "previous", !["renewal"].st.tok = tok]
               /\ UNCHANGED result
            \/ /\ ok = {}
               /\ job' = [job EXCEPT !["renewal"] = Idle]
               /\ \E sent \in BOOLEAN :
                    /\ sent => renewal = Accounts
                    /\ result' = {IF sent THEN [ok |-> TRUE, st |-> st] ELSE None}
    /\ UNCHANGED <<session, mem, flow, renewal, queue, next, written, disk, history, excused>>

\* update_cached_profile: what it changes is the account's profile alone.
StartSkins ==
    /\ session = "on" /\ ~Busy("skins")
    /\ To("skins", "file")
    /\ UNCHANGED <<ui, disk, newest, history, excused>>

\* The process ends.  Nothing waits for its workers; a token that is being stored
\* may have been deleted.
End ==
    LET storing == {w \in Workers : job[w].pc = "store"}
        busy == queue # {} \/ \E w \in Workers : Busy(w)
    IN
    /\ session # "off"
    /\ session' = "off" /\ mem' = Nobody /\ flow' = FALSE /\ renewal' = {}
    /\ result' = {} /\ queue' = {} /\ next' = 0 /\ written' = 0
    /\ job' = [w \in Workers |-> Idle]
    /\ \/ /\ UNCHANGED keyring
          /\ excused' = excused \cup IF busy THEN {"ended at work"} ELSE {}
       \/ /\ \E w \in storing : \E a \in job[w].todo : keyring' = [keyring EXCEPT ![a] = 0]
          /\ excused' = excused \cup {"ended at work", "token deleted"}
    /\ chosen' = NoAccount
    /\ UNCHANGED <<file, newest, users>>

Step ==
    \/ StartSession \/ StartSignIn \/ EndSignIn \/ PollRenewal \/ Refresh
    \/ StartSkins \/ End
    \/ \E a \in Accounts : SelectAccount(a) \/ RemoveAccount(a) \/ RefreshAccount(a)
    \/ \E r \in queue : BeginSave(r)
    \/ \E w \in Workers :
         \/ LoadFile(w) \/ LoadTokens(w) \/ ReadPrevious(w) \/ StoreToken(w)
         \/ Truncate(w) \/ WriteFile(w) \/ DeleteToken(w)

\* Two savers at work at once may undo each other's tokens; and what a saver
\* loaded may undo a change of accounts that is not in the file yet.
Races ==
    LET loaders == {w \in {"renewal", "skins"} : Busy(w)}
                     \cup IF renewal = {} THEN {} ELSE {"renewal"}
        saving == queue # {} \/ Busy("saver")
    IN  (IF Cardinality(loaders) + (IF saving THEN 1 ELSE 0) > 1 THEN {"saves"} ELSE {})
          \cup (IF loaders # {} /\ In(mem) # file.in THEN {"accounts"} ELSE {})

Next == Step /\ raced' = raced \cup Races'

Spec == Init /\ [][Next]_vars

-----------------------------------------------------------------------------
\* The active account is listed, and a renewal's result comes when its worker has
\* ended.
TypeOK ==
    /\ session \in {"off", "loading", "on"} /\ mem \in States /\ flow \in BOOLEAN
    /\ mem.active \in In(mem) \/ mem = Nobody
    /\ renewal \in SUBSET Accounts
    /\ Cardinality(result) <= 1 /\ \A r \in result : r.ok \in BOOLEAN /\ r.st \in States
    /\ \A r \in queue : r.seq \in 1..next /\ r.st \in States
    /\ next \in 0..MaxSaves /\ written \in 0..next
    /\ \A w \in Workers : job[w].st \in States /\ job[w].prev \cup job[w].todo \subseteq Accounts
    /\ file.whole \in BOOLEAN /\ file.in \subseteq Accounts
    /\ keyring \in [Accounts -> 0..MaxTokens] /\ newest \in [Accounts -> 0..MaxTokens]
    /\ result # {} => renewal # {} /\ ~Busy("renewal")
    /\ session # "on" => \A w \in Workers \ {"loader"} : ~Busy(w)

\* The accounts in memory are those the user signed in and has not removed, in this
\* session and in those before, through renewals that replace them; unless they
\* were changed while a renewal or the skins screen had loaded the old ones.
UsersAccounts ==
    session = "on" /\ excused = {} /\ "accounts" \notin raced => In(mem) = users

\* The account last selected or signed in stays active until it is removed, also
\* when a renewal that began before replaces the accounts.
SelectionIsKept ==
    session = "on" /\ chosen # NoAccount => mem.active = chosen

\* When nothing is in flight the file lists the accounts in memory with the active
\* one, and the keyring holds the newest token of each and no other: of the
\* background saves the newest has won.
DiskIsMemory ==
    /\ session = "on" /\ excused = {} /\ raced = {}
    /\ queue = {} /\ renewal = {} /\ \A w \in Workers : ~Busy(w)
    => /\ file.whole /\ file.in = In(mem) /\ file.active = mem.active
       /\ \A a \in Accounts : keyring[a] = IF a \in In(mem) THEN newest[a] ELSE 0

\* An account that is in the file has a token in the keyring, wherever a save fails
\* or the process ends, except between the two halves of storing a token.
ListedHasToken ==
    "saves" \notin raced /\ "token deleted" \notin excused
      => \A a \in file.in : file.whole => keyring[a] # 0

\* What the disk says of the accounts can be relied on, at rest and after any end.
DiskIsRight == DiskIsMemory /\ ListedHasToken
=============================================================================
