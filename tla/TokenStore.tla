------------------------------ MODULE TokenStore ------------------------------
(***************************************************************************)
(* Where refresh tokens are kept (auth/secret_store.rs): in the keyring,   *)
(* under a current and a legacy service, or in a plain-text file while     *)
(* insecure storage is on.  Every operation runs under one lock, so each   *)
(* is one step; what can go wrong inside it is a choice of that step.      *)
(* Two processes that share the file are left out.                         *)
(***************************************************************************)
EXTENDS Integers, FiniteSets

CONSTANTS
    Accounts,
    MaxIssued,      \* bound on the tokens the server issues
    MaxSwitches     \* bound on the changes of the setting

VARIABLES
    insecure,       \* INSECURE_FILE_STORAGE
    up,             \* the keyring can be reached
    entry,          \* REFRESH_TOKEN_SERVICE; 0 is no entry, Corrupt an unreadable one
    legacy,         \* LEGACY_REFRESH_TOKEN_SERVICE
    tokens,         \* refresh_tokens.json; 0 is not in it
    issued,         \* tokens issued so far
    switches,
    latest,         \* history: the token last stored or deleted (0)
    doubt           \* history: why a load may return another one

storeVars == <<insecure, up, entry, legacy, tokens, issued, switches, latest, doubt>>

Corrupt == -1
NoTokens == [a \in Accounts |-> 0]

\* An account may have been signed in by a version that used the legacy service.
StoreInit ==
    /\ insecure = FALSE /\ up = TRUE
    /\ entry = NoTokens /\ tokens = NoTokens
    /\ legacy \in [Accounts -> {0, 1}] /\ latest = legacy
    /\ issued = 1 /\ switches = 0
    /\ doubt = [a \in Accounts |-> {}]

-----------------------------------------------------------------------------
(* The keyring.  Each is the set of what may come of an operation; an       *)
(* operation is retried, so only a keyring that stays away is unavailable.  *)

\* delete_refresh_token_for_service_unlocked: an unavailable keyring is no error.
Deleted(value) == (IF up THEN {[left |-> 0, ok |-> TRUE]} ELSE {[left |-> value, ok |-> TRUE]})
                    \cup {[left |-> value, ok |-> FALSE]}

\* A write that fails, or is not read back as it was written (verify_refresh_token_round_trip).
BadlyWritten(token) == {0, token}

\* store_refresh_token_unlocked: the entry is deleted, written and read back, and then
\* the legacy one deleted.
KeyringStored(a, token) ==
    (IF up THEN {[entry |-> token, legacy |-> d.left, ok |-> TRUE] : d \in Deleted(legacy[a])}
               \cup {[entry |-> e, legacy |-> legacy[a], ok |-> FALSE] : e \in BadlyWritten(token)}
           ELSE {}) \cup {[entry |-> entry[a], legacy |-> legacy[a], ok |-> FALSE]}

\* load_legacy_refresh_token_unlocked: found, it is moved to the current service.
LegacyLoaded(a) ==
    CASE ~up            -> {[entry |-> 0, legacy |-> legacy[a], got |-> "unavailable"]}
      [] legacy[a] = 0  -> {[entry |-> 0, legacy |-> 0, got |-> "missing"]}
      [] legacy[a] > 0  -> {[entry |-> s.entry, legacy |-> s.legacy,
                             got |-> IF s.ok THEN "present" ELSE "error"]
                                : s \in KeyringStored(a, legacy[a])}

\* load_refresh_token_unlocked: an unreadable entry is deleted and the legacy one asked.
KeyringLoaded(a) ==
    CASE ~up              -> {[entry |-> entry[a], legacy |-> legacy[a], got |-> "unavailable"]}
      [] up /\ entry[a] > 0 -> {[entry |-> entry[a], legacy |-> legacy[a], got |-> "present"]}
      [] OTHER            -> LegacyLoaded(a)

-----------------------------------------------------------------------------
(* The operations of the cache.                                             *)

\* Mutant of TakenBack: the file keeps what the keyring has taken.
NeverTaken(a, removed) == tokens

\* store_refresh_token and load_refresh_token, after the keyring has the token: the
\* file's is stale.  A failure to remove it is ignored.
TakenBack(a, removed) == IF removed THEN [tokens EXCEPT ![a] = 0] ELSE tokens

Keyring(a, k) == entry' = [entry EXCEPT ![a] = k.entry] /\ legacy' = [legacy EXCEPT ![a] = k.legacy]

Why(a, reasons) == doubt' = [doubt EXCEPT ![a] = reasons]

\* The caller of a store that fails is told; the token is only in its memory.
StoreSecure(a, token) ==
    /\ ~insecure
    /\ \E k \in KeyringStored(a, token), removed \in BOOLEAN :
         /\ Keyring(a, k)
         /\ tokens' = IF k.ok THEN TakenBack(a, removed) ELSE tokens
         /\ Why(a, IF ~k.ok THEN {"failed"}
                   ELSE IF tokens[a] # 0 /\ ~removed THEN {"kept in the file"} ELSE {})

\* token_file::store.  A file that cannot be read counts as empty, and the tokens of
\* the others are written over.
StoreInsecure(a, token) ==
    /\ insecure
    /\ UNCHANGED <<entry, legacy>>
    /\ \/ tokens' = [tokens EXCEPT ![a] = token] /\ Why(a, {})
       \/ /\ tokens' = [NoTokens EXCEPT ![a] = token]
          /\ doubt' = [b \in Accounts |-> IF b = a THEN {}
                         ELSE doubt[b] \cup IF tokens[b] = 0 THEN {} ELSE {"file unread"}]
       \/ UNCHANGED tokens /\ Why(a, {"failed"})

\* A token is stored when an account signs in or is renewed.
StoreToken(a) ==
    /\ issued < MaxIssued
    /\ issued' = issued + 1 /\ latest' = [latest EXCEPT ![a] = issued']
    /\ StoreSecure(a, issued') \/ StoreInsecure(a, issued')
    /\ UNCHANGED <<insecure, up, switches>>

\* Mutant of FromFile: a token in the keyring goes first.
UnlessInKeyring(a) == tokens[a] # 0 /\ entry[a] = 0

\* The file wins over the keyring, whose copy may be older.
FromFile(a) == tokens[a] # 0

\* load_refresh_token, for a token in the file: the keyring takes it back when insecure
\* storage is off.
LoadFromFile(a) ==
    /\ FromFile(a)
    /\ \/ insecure /\ UNCHANGED <<entry, legacy, tokens, doubt>>
       \/ /\ ~insecure
          /\ \E k \in KeyringStored(a, tokens[a]), removed \in BOOLEAN :
               /\ Keyring(a, k)
               /\ tokens' = IF k.ok THEN TakenBack(a, removed) ELSE tokens
               /\ Why(a, doubt[a] \cup IF k.ok /\ ~removed THEN {"kept in the file"} ELSE {})

\* ... and for one in the keyring: the file gets a copy when insecure storage is on.
LoadFromKeyring(a) ==
    /\ ~FromFile(a)
    /\ \E k \in KeyringLoaded(a), copied \in BOOLEAN :
         /\ Keyring(a, k)
         /\ LET token == IF entry[a] > 0 THEN entry[a] ELSE legacy[a]
            IN  tokens' = IF insecure /\ k.got = "present" /\ copied
                          THEN [tokens EXCEPT ![a] = token] ELSE tokens
         /\ UNCHANGED doubt

LoadToken(a) ==
    /\ LoadFromFile(a) \/ LoadFromKeyring(a)
    /\ UNCHANGED <<insecure, up, issued, switches, latest>>

\* Mutant of Forgotten: only the store in use forgets.
ForgottenInUse(a) == {[file |-> ~insecure, keyring |-> insecure]}

\* What delete_refresh_token leaves: it stops at the first error.
Forgotten(a) == {[file |-> FALSE, keyring |-> FALSE]}

DeleteToken(a) ==
    /\ latest[a] # 0 /\ latest' = [latest EXCEPT ![a] = 0]
    /\ \/ \E left \in Forgotten(a), e \in Deleted(entry[a]), l \in Deleted(legacy[a]) :
            /\ tokens' = IF left.file THEN tokens ELSE [tokens EXCEPT ![a] = 0]
            /\ entry' = IF left.keyring THEN entry ELSE [entry EXCEPT ![a] = e.left]
            /\ legacy' = IF left.keyring \/ ~e.ok THEN legacy ELSE [legacy EXCEPT ![a] = l.left]
            /\ Why(a, IF up /\ e.ok /\ l.ok THEN {} ELSE {"not deleted"})
       \/ Why(a, {"not deleted"}) /\ UNCHANGED <<entry, legacy, tokens>>
    /\ UNCHANGED <<insecure, up, issued, switches>>

\* set_insecure_file_storage.
SetInsecure ==
    /\ switches < MaxSwitches /\ switches' = switches + 1
    /\ insecure' = ~insecure
    /\ UNCHANGED <<up, entry, legacy, tokens, issued, latest, doubt>>

-----------------------------------------------------------------------------
(* The desktop.                                                             *)

KeyringGoes == up' = ~up /\ UNCHANGED <<insecure, entry, legacy, tokens, issued, switches, latest, doubt>>

EntryCorrupts(a) ==
    /\ entry[a] > 0
    /\ entry' = [entry EXCEPT ![a] = Corrupt]
    /\ Why(a, doubt[a] \cup {"corrupt"})
    /\ UNCHANGED <<insecure, up, legacy, tokens, issued, switches, latest>>

StoreNext ==
    \/ SetInsecure \/ KeyringGoes
    \/ \E a \in Accounts : StoreToken(a) \/ LoadToken(a) \/ DeleteToken(a) \/ EntryCorrupts(a)

-----------------------------------------------------------------------------
\* What a load finds once the keyring can be reached.
Found(a) == IF FromFile(a) THEN tokens[a]
            ELSE IF entry[a] > 0 THEN entry[a] ELSE legacy[a]

\* Whatever the setting was at each store and load, and however often the keyring went
\* away between, a load finds the token stored last, and none once it was deleted:
\* "flipping this does not sign anyone out".  What may change that is an operation whose
\* caller was told it failed, a deletion no keyring heard of, an entry that corrupts, and
\* two failures nobody is told of: a stale token that could not be removed from the file,
\* and a file that could not be read when another account's token was put in it.
TokensFollow == \A a \in Accounts : doubt[a] = {} => Found(a) = latest[a]
=============================================================================
