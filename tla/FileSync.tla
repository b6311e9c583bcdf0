------------------------------- MODULE FileSync -------------------------------
(***************************************************************************)
(* A file of the game that a pass brings in step between instances           *)
(* (instance_sync without its worlds): the options, translated between the   *)
(* formats of the versions (mc_options), with the resource packs they         *)
(* enable; the settings of a mod; the saved hotbars; the command history;     *)
(* the list of servers.  A pass reads the files of all instances, and then    *)
(* writes them one by one; games read theirs when they start and write it     *)
(* when they save.  A behaviour is about one kind of file.                    *)
(***************************************************************************)
EXTENDS Naturals, Sequences, FiniteSets, SequencesExt, Functions, TLC

CONSTANTS
    None,
    Count,         \* the instances, 1 .. Count, in the order of the store
    Old, New,      \* those whose game's version is 1 or 3; the others' is 2
    Kinds,         \* of file, some of options, config, hotbar, history and servers
    Fits,          \* the instances whose game the pack works with, as it or the user says
    Commands, Addresses,    \* of servers
    Everywhere,    \* the servers every instance is to have; the others are for those in Fits
    Cap,           \* MAX_ENTRIES
    MaxSaves       \* bound on what the games save

VARIABLES
    kind,
    file,          \* per instance: [when, data], or None
    game,          \* per instance: what a running game holds, or None
    packs,         \* per instance: its resource packs
    pass,          \* [at, skip, read, next]
    clock,
    saved,         \* history: the last [when, data] the game of the instance has saved
    raced,         \* history: the instances a pass wrote while their game ran or had saved
    clean,         \* history: nothing but the pass has happened since it began; it skips none, and
                   \* of options one file is the newest
    stamped,       \* history: the pass has brought options in step before the packs
    overtaken      \* history: the instances whose save a pass has missed that then wrote a list

vars == <<kind, file, game, packs, pass, clock, saved, raced, clean, stamped, overtaken>>

Targets == 1 .. Count
Version == [i \in Targets |-> IF i \in Old THEN 1 ELSE IF i \in New THEN 3 ELSE 2]
Idle == [at |-> "idle", skip |-> {}, read |-> <<>>, next |-> 0]
Pack == "pack"
Distances == {5, 16}

\* What a new game's file says.
Default(i) ==
    CASE kind = "options" -> [distance |-> IF Version[i] = 1 THEN 1 ELSE 12, graphics |-> "fancy", own |-> 0, enabled |-> {}]
      [] kind = "config" -> [format |-> i % 2, quality |-> 0, own |-> 0, shader |-> "none"]
      [] kind = "hotbar" -> None
      [] kind = "history" -> <<>>
      [] kind = "servers" -> <<>>

Init ==
    /\ kind \in Kinds /\ clock = 1 /\ pass = Idle
    /\ packs = [i \in Targets |-> IF i = 1 THEN {Pack} ELSE {}]
    /\ file = [i \in Targets |-> IF kind \in {"options", "config"} THEN [when |-> 1, data |-> Default(i)] ELSE None]
    /\ game = [i \in Targets |-> None] /\ saved = [i \in Targets |-> None]
    /\ raced = {} /\ clean = TRUE /\ stamped = FALSE /\ overtaken = {}

(***************************************************************************)
(* Options in a form all versions share, and in that of each.               *)
(***************************************************************************)
\* Version 1 counts the distance in four steps, 16, 8, 4 and 2 chunks, its graphics are fast or
\* fancy; version 3 has graphics of the player's own, which no other can express.
Steps == <<16, 8, 4, 2>>
Distance(i, d) == IF Version[i] = 1 THEN Steps[d.distance + 1] ELSE d.distance
Graphics(i, d) == IF d.graphics = "custom" THEN None ELSE d.graphics

Nearest(chunks) ==
    LET far(s) == IF Steps[s] > chunks THEN Steps[s] - chunks ELSE chunks - Steps[s]
    IN  (CHOOSE s \in DOMAIN Steps :
            \A r \in DOMAIN Steps \ {s} : far(s) < far(r) \/ (far(s) = far(r) /\ Steps[s] < Steps[r])) - 1

FormatDistance(i, chunks) == IF Version[i] = 1 THEN Nearest(chunks) ELSE chunks
FormatGraphics(i, g) == IF Version[i] = 1 /\ g = "fabulous" THEN "fancy" ELSE g

\* plan_sync: what differs in the common form is written in the target's, the rest stays.
Planned(m, source, i, target) ==
    [target EXCEPT
        !.distance = IF Distance(m, source) = Distance(i, target) THEN @
                     ELSE FormatDistance(i, Distance(m, source)),
        !.graphics = IF Graphics(m, source) \in {None, Graphics(i, target)} \/ @ = "custom" THEN @
                     ELSE FormatGraphics(i, Graphics(m, source))]

\* Only packs the newest has, and that are here and work here, are enabled or disabled.
Enabled(m, source, i, target) ==
    LET ours == {p \in packs[m] \cap packs[i] : i \in Fits}
    IN  [target EXCEPT !.enabled = (@ \ ours) \cup (ours \cap source.enabled)]

(***************************************************************************)
(* The other kinds.                                                         *)
(***************************************************************************)
\* Of a mod's settings those are copied that both have, if the format is the same: not the
\* machine's own, and a shader pack only where it is.
Merged(source, i, target) ==
    IF source.format # target.format THEN target
    ELSE [target EXCEPT !.quality = source.quality,
                        !.shader = IF source.shader = "none" \/ i \in Fits
                                   THEN source.shader ELSE @]

\* Hotbars flow to files of the same or a newer data version; version 1 does not say its own.
DataVersion(v) == IF v = 1 THEN None ELSE v
MayFlow(read, k, i) ==
    LET from == read[k].data.version
        to == IF read[i] = None THEN None ELSE read[i].data.version
    IN  IF None \notin {from, to} THEN from <= to ELSE Version[k] <= Version[i]

Remembered(lines, c) == Append(SelectSeq(lines, LAMBDA old : old # c), c)
(* Mutant of Last50: the oldest are kept.                                   *)
First50(lines) == SubSeq(lines, 1, IF Len(lines) > Cap THEN Cap ELSE Len(lines))
Last50(lines) == SubSeq(lines, IF Len(lines) > Cap THEN Len(lines) - Cap + 1 ELSE 1, Len(lines))

OnceEach(lines) == FoldLeft(Remembered, <<>>, lines)

\* All histories as one, the oldest file's first, each command where it was used last.
History(read) ==
    LET there == {i \in Targets : read[i] # None}
        oldestFirst == SetToSortSeq(there, LAMBDA i, k : read[i].when < read[k].when
                                                         \/ (read[i].when = read[k].when /\ i < k))
        all == FlattenSeq([n \in DOMAIN oldestFirst |-> read[oldestFirst[n]].data])
    IN  Last50(OnceEach(all))

InScope(s, i) == s \in Everywhere \/ i \in Fits

\* Every server known, as the newest file tells it (the first of several).
Known(read) ==
    LET has(i, s) == read[i] # None /\ s \in DOMAIN read[i].data
        newest(s) == CHOOSE i \in Targets : /\ has(i, s)
                        /\ \A k \in Targets \ {i} : has(k, s) =>
                              read[k].when < read[i].when \/ (read[k].when = read[i].when /\ i < k)
    IN  [s \in {t \in Addresses : \E i \in Targets : has(i, t)} |-> read[newest(s)].data[s]]

(***************************************************************************)
(* A pass.                                                                  *)
(***************************************************************************)
\* The newest file, of files of one time the last in the store.
Newest(read, among) ==
    CHOOSE i \in among : \A k \in among \ {i} : read[k].when < read[i].when \/ (read[k].when = read[i].when /\ k < i)

(* Mutant of Stamp: it gets the time of the writing.                        *)
StampNow(m) == clock + 1

\* A file brought in step keeps the time of the one it follows.
Stamp(m) == pass.read[m].when

There == {i \in Targets : pass.read[i] # None}
Master == Newest(pass.read, There)
Source == pass.read[Master].data

\* Instance i gets the data, if a newer file than its own says so.
Follow(i, data) ==
    IF pass.read[i].when < pass.read[Master].when /\ data # pass.read[i].data
    THEN [when |-> Stamp(Master), data |-> data] ELSE file[i]

\* What each kind of pass makes of the file of instance i.
Options(i) == Follow(i, Planned(Master, Source, i, pass.read[i].data))
Packs(i) == Follow(i, Enabled(Master, Source, i, pass.read[i].data))

\* This one is read when it is written.
Config(i) ==
    LET data == Merged(Source, i, file[i].data)
    IN  IF pass.read[i].when < pass.read[Master].when /\ data # file[i].data
        THEN [when |-> Stamp(Master), data |-> data] ELSE file[i]

Hotbar(i) ==
    LET sources == {k \in There \ {i} : MayFlow(pass.read, k, i)}
        best == Newest(pass.read, sources)
        mine == pass.read[i]
    IN  IF sources # {} /\ (mine = None \/ (pass.read[best].when > mine.when /\ pass.read[best].data # mine.data))
        THEN [when |-> Stamp(best), data |-> pass.read[best].data] ELSE file[i]

CommandHistory(i) ==
    IF There = {} \/ (file[i] # None /\ file[i].data = History(pass.read)) THEN file[i]
    ELSE [when |-> clock, data |-> History(pass.read)]

Servers(i) ==
    LET mine == IF i \in There THEN pass.read[i].data ELSE <<>>
        added == {s \in DOMAIN Known(pass.read) \ DOMAIN mine : InScope(s, i)}
    IN  IF added = {} THEN file[i]
        ELSE [when |-> clock, data |-> mine @@ [s \in added |-> Known(pass.read)[s]]]

Result(i) ==
    CASE pass.at = "options" -> Options(i)
      [] pass.at = "enabled" -> Packs(i)
      [] pass.at = "config" -> Config(i)
      [] pass.at = "hotbar" -> Hotbar(i)
      [] pass.at = "history" -> CommandHistory(i)
      [] pass.at = "servers" -> Servers(i)

Begin ==
    /\ pass.at = "idle"
    /\ pass' = [at |-> kind, skip |-> {i \in Targets : game[i] # None}, read |-> file, next |-> 1]
    /\ clean' = (/\ \A i \in Targets : game[i] = None
                 /\ kind = "options" => \A i \in Targets \ {Newest(file, Targets)} :
                        file[i].when < file[Newest(file, Targets)].when)
    /\ stamped' = FALSE
    /\ UNCHANGED <<kind, file, game, packs, clock, saved, raced, overtaken>>

\* Who has saved since the pass read the files.
Missed == {i \in Targets : saved[i] # None /\ (pass.read[i] = None \/ pass.read[i].when < saved[i].when)}

Write ==
    LET i == pass.next
    IN  /\ pass.at \in Kinds \cup {"enabled"} /\ i <= Count
        /\ pass' = [pass EXCEPT !.next = i + 1]
        /\ file' = [file EXCEPT ![i] = IF i \in pass.skip THEN @ ELSE Result(i)]
        /\ raced' = IF file' # file /\ (game[i] # None \/ file[i] # pass.read[i]) THEN raced \cup {i} ELSE raced
        /\ stamped' = (stamped \/ (file' # file /\ pass.at = "options"))
        /\ overtaken' = IF kind = "history" /\ file' # file THEN overtaken \cup Missed ELSE overtaken
        /\ UNCHANGED <<kind, game, packs, clock, saved, clean>>

(* Mutant of Share: the options are those read before they were translated. *)
ShareBlindly ==
    /\ pass.at = "options" /\ pass.next > Count
    /\ packs' = [i \in Targets |-> packs[i] \cup {p \in UNION Range(packs) : i \in Fits}]
    /\ pass' = [pass EXCEPT !.at = "enabled", !.next = 1]
    /\ UNCHANGED <<kind, file, game, clock, saved, raced, clean, stamped, overtaken>>

\* After the options the packs: they go where they work, also to games that run, and then what
\* is enabled follows the newest options, read again.
Share ==
    /\ pass.at = "options" /\ pass.next > Count
    /\ packs' = [i \in Targets |-> packs[i] \cup {p \in UNION Range(packs) : i \in Fits}]
    /\ pass' = [pass EXCEPT !.at = "enabled", !.read = file, !.next = 1]
    /\ UNCHANGED <<kind, file, game, clock, saved, raced, clean, stamped, overtaken>>

Finish ==
    /\ pass.at \notin {"idle", "options"} /\ pass.next > Count
    /\ pass' = Idle /\ UNCHANGED <<kind, file, game, packs, clock, saved, raced, clean, stamped, overtaken>>

\* The launcher is closed, or an error ends the pass.
Cut ==
    /\ pass.at # "idle" /\ pass' = Idle /\ clean' = FALSE
    /\ UNCHANGED <<kind, file, game, packs, clock, saved, raced, stamped, overtaken>>

(***************************************************************************)
(* The games.                                                               *)
(***************************************************************************)
Start(i) ==
    /\ game[i] = None /\ clock <= MaxSaves
    /\ game' = [game EXCEPT ![i] = [data |-> IF file[i] = None THEN Default(i) ELSE file[i].data]]
    /\ clean' = FALSE
    /\ UNCHANGED <<kind, file, packs, pass, clock, saved, raced, stamped, overtaken>>

Changes(i, d) ==
    CASE kind = "options" ->
            {[d EXCEPT !.distance = c] : c \in IF Version[i] = 1 THEN {0, 2} ELSE Distances}
            \cup {[d EXCEPT !.graphics = g] : g \in {"fast"} \cup (IF Version[i] = 1 THEN {} ELSE {"fabulous"})
                                                     \cup (IF Version[i] = 3 THEN {"custom"} ELSE {})}
            \cup {[d EXCEPT !.own = i, !.enabled = IF @ = {} THEN packs[i] ELSE {}]}
      [] kind = "config" -> {[d EXCEPT !.quality = clock], [d EXCEPT !.own = i], [d EXCEPT !.shader = Pack],
                             [d EXCEPT !.format = 1]}
      [] kind = "hotbar" -> {[version |-> DataVersion(Version[i]), save |-> clock]}
      [] kind = "history" -> {Last50(d \o used) : used \in BoundedSeq(Commands, 2) \ {<<>>}}
      [] kind = "servers" -> {d @@ (s :> clock) : s \in Addresses} \cup {[t \in DOMAIN d \ {s} |-> d[t]] : s \in DOMAIN d}

Save(i) ==
    /\ game[i] # None /\ clock <= MaxSaves
    /\ \E d \in Changes(i, game[i].data) :
          /\ file' = [file EXCEPT ![i] = [when |-> clock + 1, data |-> d]]
          /\ saved' = [saved EXCEPT ![i] = [when |-> clock + 1, data |-> d]]
    /\ game' = [game EXCEPT ![i] = None] /\ clock' = clock + 1 /\ clean' = FALSE
    /\ raced' = IF file[i] # None /\ file[i].data # game[i].data THEN raced \cup {i} ELSE raced \ {i}
    /\ overtaken' = overtaken \ {i}
    /\ UNCHANGED <<kind, packs, pass, stamped>>

Quit(i) ==
    /\ game[i] # None /\ game' = [game EXCEPT ![i] = None]
    /\ UNCHANGED <<kind, file, packs, pass, clock, saved, raced, clean, stamped, overtaken>>

Next ==
    \/ Begin \/ Write \/ Share \/ Finish \/ Cut
    \/ \E i \in Targets : Start(i) \/ Save(i) \/ Quit(i)

Spec == Init /\ [][Next]_vars

-------------------------------------------------------------------------------
LastSaver == CHOOSE i \in Targets : saved[i] # None /\ \A k \in Targets : saved[k] # None => saved[k].when <= saved[i].when
SomeSaved == \E i \in Targets : saved[i] # None

\* What a game has saved passes leave in its file, unless one wrote it while the game ran: the
\* settings that are its own, the servers and their entries, and all the settings of the
\* instance that saved last.  A hotbar gives way only to a newer one, and to none its game
\* cannot read.  A command is dropped only from a list that is full, and never for an older
\* one: the list ends with what was saved last, unless a pass that missed the save has written
\* a list since.
SavesSurvive ==
    \A i \in Targets \ raced :
        LET now == file[i].data
            mine == saved[i].data
        IN  saved[i] # None =>
            CASE kind \in {"options", "config"} -> now.own = mine.own /\ (i = LastSaver => file[i] = saved[i])
              [] kind = "hotbar" -> /\ file[i].when >= saved[i].when /\ (file[i].when = saved[i].when => now = mine)
                                    /\ now.version \in {None} \cup 2 .. Version[i]
              [] kind = "history" -> /\ Range(mine) \subseteq Range(now) \/ Len(now) = Cap
                                     /\ i = LastSaver /\ i \notin overtaken => IsSuffix(OnceEach(mine), now)
              [] kind = "servers" -> \A s \in DOMAIN mine : s \in DOMAIN now /\ now[s] = mine[s]

\* When a pass ends that nothing disturbed, the files are in step with what was saved last, as
\* far as the versions can express it; the packs that are enabled where the pass has brought no
\* options in step before.  A newer hotbar has come where the hotbars are not a copy.
InStep(i) ==
    LET s == LastSaver
        newest == saved[s].data
    IN  CASE kind = "options" ->
                /\ Planned(s, newest, i, file[i].data) = file[i].data
                /\ stamped \/ Enabled(s, newest, i, file[i].data) = file[i].data
          [] kind = "config" -> Merged(file[s].data, i, file[i].data) = file[i].data
          [] kind = "hotbar" -> \A k \in Targets :
                file[k] # None /\ Version[k] <= Version[i] =>
                    /\ file[i] # None
                    /\ file[k].when <= file[i].when \/ (saved[i] # file[i])
          [] kind = "history" -> file[i] # None /\ file[i].data = file[s].data
          [] kind = "servers" -> \A k \in Targets : file[k] # None =>
                \A t \in DOMAIN file[k].data : InScope(t, i) => file[i] # None /\ t \in DOMAIN file[i].data

PassesAgree ==
    pass.at \in (Kinds \cup {"enabled"}) \ {"options"} /\ pass.next > Count /\ clean /\ SomeSaved /\ LastSaver \notin raced
        => \A i \in Targets : InStep(i)

\* Each pack shared with the instance that saved last is enabled as it is there, once a pass has ended.
PacksFollow ==
    pass.at = "enabled" /\ pass.next > Count /\ clean /\ SomeSaved /\ LastSaver \notin raced =>
        \A i \in Targets : Enabled(LastSaver, saved[LastSaver].data, i, file[i].data) = file[i].data
===============================================================================
