------------------------------ MODULE HomeScreen ------------------------------
(***************************************************************************)
(* The home screen: the worlds and servers of all instances, collected by  *)
(* a worker from the games' files and the store, grouped where instances   *)
(* share them, with favourites and with what each server answered last.    *)
(***************************************************************************)
EXTENDS Naturals, Sequences, FiniteSets, Functions

CONSTANTS Homes, Things, PerScan, MaxTurns

VARIABLES tab,        \* what a behaviour is about: "worlds" or "servers"
          joint,     \* the world folders that are one world in all instances
          installed,  \* the instances in the store
          onDisk,     \* by instance: its world folders, or the addresses in its servers.dat
          favorites,  \* pairs of an instance and a world or an address
          scanning,   \* scans in flight: their number, what was asked and what was found
          scan_number, waiting, flag, counted,
          entries,    \* what is listed
          unseen,     \* was a request to scan again dropped, and none made since
          flying,     \* addresses that count as being asked
          pings,      \* questions in flight: the address and which of its questions it is
          answered,   \* answers to be read
          snapshots,  \* by address: the question that was answered last
          again,      \* addresses that were gone from the list while they were asked
          numbers, turns
storeVars == <<tab, joint, installed, onDisk, favorites>>
scanVars == <<scanning, scan_number, waiting, flag, counted, entries, unseen>>
pingVars == <<flying, pings, answered, snapshots, again, numbers>>
vars == <<storeVars, scanVars, pingVars, turns>>

Init ==
  /\ tab \in {"worlds", "servers"} /\ joint \in {{}, Things} /\ (tab = "servers" => joint = {})
  /\ installed = Homes /\ onDisk = [h \in Homes |-> Things] /\ favorites = {}
  /\ scanning = {} /\ scan_number = 0 /\ waiting = FALSE /\ flag = FALSE /\ counted = 0 /\ entries = {} /\ unseen = FALSE
  /\ flying = {} /\ pings = {} /\ answered = <<>> /\ snapshots = [a \in {} |-> 0] /\ again = {}
  /\ numbers = [a \in Things |-> 0] /\ turns = 0

Turn == turns < MaxTurns /\ turns' = turns + 1

(***************************************************************************)
(* The games and the user.                                                 *)
(***************************************************************************)
(* A servers.dat that is half written lists nothing.                        *)
Rewrite ==
  /\ Turn /\ \E h \in Homes, t \in SUBSET Things : onDisk' = [onDisk EXCEPT ![h] = t] /\ t # onDisk[h]
  /\ UNCHANGED <<tab, joint, installed, favorites, scanVars, pingVars>>
DeleteInstance ==
  /\ Turn /\ \E h \in installed : installed' = installed \ {h}
  /\ UNCHANGED <<tab, joint, onDisk, favorites, scanVars, pingVars>>
(* toggle_favorite: of every instance that has it, to the opposite of what  *)
(* is shown                                                                 *)
Toggle(e) ==
  /\ Turn /\ e \in entries
  /\ LET stored == {t \in e.targets : t[1] \in installed}
     IN  favorites' = IF e.favorite THEN favorites \ stored ELSE favorites \cup stored
  /\ flag' = TRUE
  /\ UNCHANGED <<tab, joint, installed, onDisk, scanning, scan_number, waiting, counted, entries, unseen, pingVars>>

(***************************************************************************)
(* The scan.                                                               *)
(***************************************************************************)
(* Mutant of GroupKey: worlds with the same folder name are one.            *)
FolderKey(home, thing) == <<thing, Homes>>
(* world_group_key and favorite_id: a world is shared, or is its own; a    *)
(* server is its address                                                    *)
GroupKey(home, thing) == <<thing, IF tab = "servers" \/ thing \in joint THEN Homes ELSE {home}>>

(* collapse: one entry for each key, a favourite where one instance says so *)
Collapse(targets, stars) ==
  {[key |-> k, targets |-> {t \in targets : GroupKey(t[1], t[2]) = k},
    favorite |-> \E t \in targets : GroupKey(t[1], t[2]) = k /\ t \in stars]
     : k \in {GroupKey(t[1], t[2]) : t \in targets}}

(* collect_worlds_from_request, collect_servers_from_request: the instances *)
(* and the favourites are those of the request, the files those of now      *)
RunScan(s) ==
  /\ s \in scanning /\ ~s.done
  /\ LET targets == {t \in s.homes \X Things : t[2] \in onDisk[t[1]]}
     IN  scanning' = (scanning \ {s}) \cup {[s EXCEPT !.done = TRUE, !.found = Collapse(targets, s.stars)]}
  /\ UNCHANGED <<storeVars, scan_number, waiting, flag, counted, entries, unseen, pingVars, turns>>

Listed(es) == IF tab = "servers" THEN {e.key[1] : e \in es} ELSE {}

(* Mutant of Unasked: what is being asked is asked again.                   *)
Everyone(stale, inFlight) == stale
Unasked(stale, inFlight) == stale \ inFlight

(* tick_activity, each frame: poll_home_activity_results,                  *)
(* poll_server_ping_results, refresh_home_state, queue_server_pings with    *)
(* retain_known_server_pings; "due" is whether the interval has passed and  *)
(* "aged" the answers that are too old                                      *)
Tick(due, aged) ==
  LET latest == {s \in scanning : s.done /\ s.number = scan_number}
      here == IF latest = {} THEN entries ELSE (CHOOSE s \in latest : TRUE).found
      count == IF latest = {} THEN counted ELSE Cardinality((CHOOSE s \in latest : TRUE).homes)
      still == waiting /\ latest = {}
      stirred == due \/ count # Cardinality(installed)
      starts == (stirred \/ flag) /\ ~still
      read == {answered[i][1] : i \in DOMAIN answered}
      last(a) == answered[CHOOSE i \in DOMAIN answered : answered[i][1] = a /\
                                \A j \in DOMAIN answered : answered[j][1] = a => j <= i][2]
      heard == [a \in (DOMAIN snapshots \cup read) \cap Listed(here) |-> IF a \in read THEN last(a) ELSE snapshots[a]]
      kept == (flying \ read) \cap Listed(here)
      stale == {a \in Listed(here) : a \notin DOMAIN heard \/ a \in aged}
  IN  /\ entries' = here /\ counted' = count /\ flag' = (flag /\ stirred)
      /\ scanning' = (scanning \ {s \in scanning : s.done})
                       \cup (IF starts THEN {[number |-> scan_number + 1, homes |-> installed, stars |-> favorites,
                                              done |-> FALSE, found |-> {}]} ELSE {})
      /\ scan_number' = IF starts THEN scan_number + 1 ELSE scan_number
      /\ waiting' = (still \/ starts)
      /\ unseen' = ((unseen \/ (flag /\ ~stirred)) /\ ~starts)
      /\ answered' = <<>> /\ snapshots' = heard
      /\ again' = again \cup (flying \ Listed(here))
      /\ \E now \in {s \in SUBSET Unasked(stale, kept) : \/ Cardinality(s) = PerScan
                                                         \/ s = Unasked(stale, kept) /\ Cardinality(s) < PerScan} :
           /\ flying' = kept \cup now
           /\ numbers' = [a \in Things |-> IF a \in now THEN numbers[a] + 1 ELSE numbers[a]]
           /\ pings' = pings \cup {<<a, numbers[a] + 1>> : a \in now}
Frame ==
  /\ \E due \in BOOLEAN, aged \in SUBSET DOMAIN snapshots :
       /\ due \/ aged # {} => turns < MaxTurns
       /\ turns' = IF due \/ aged # {} THEN turns + 1 ELSE turns
       /\ Tick(due, aged)
  /\ UNCHANGED storeVars

(* query_server_snapshot: offline, or online even if it says nothing, or    *)
(* unknown where the address is empty; which of them is the server's matter *)
Answer(p) ==
  /\ p \in pings /\ pings' = pings \ {p} /\ answered' = Append(answered, p)
  /\ UNCHANGED <<storeVars, scanVars, flying, snapshots, again, numbers, turns>>

Next ==
  \/ Rewrite \/ DeleteInstance \/ \E e \in entries : Toggle(e)
  \/ \E s \in scanning : RunScan(s)
  \/ Frame \/ \E p \in pings : Answer(p)
Spec == Init /\ [][Next]_vars

(***************************************************************************)
(* What stands under one entry is one world or one server, and stands      *)
(* there only; its star is the store's once nothing is to be scanned,      *)
(* unless the wish to scan again was dropped.                              *)
(***************************************************************************)
OneEntryEach ==
  /\ \A e \in entries : \A t, u \in e.targets : t[2] = u[2] /\ (tab = "worlds" /\ t # u => t[2] \in joint)
  /\ \A d, e \in entries : d # e => d.targets \cap e.targets = {}
StarsAreTheStores ==
  ~waiting /\ ~flag /\ ~unseen =>
    \A e \in entries : e.favorite = (\E t \in e.targets : t \in favorites)
(* A server is asked once at a time, and an answer that is shown is not     *)
(* older than one that was, unless it left the list meanwhile; and only     *)
(* what is listed has an answer.                                            *)
OneQuestionEach ==
  /\ \A a \in Things \ again : Cardinality({p \in pings : p[1] = a} \cup {p \in Range(answered) : p[1] = a}) <= 1
  /\ DOMAIN snapshots \subseteq Listed(entries)
HomeIsRight == OneEntryEach /\ StarsAreTheStores /\ OneQuestionEach
=============================================================================
