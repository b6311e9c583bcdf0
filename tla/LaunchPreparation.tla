------------------------- MODULE LaunchPreparation -------------------------
(***************************************************************************)
(* What is fetched and unpacked before a game starts: the Java runtime that *)
(* all instances share (ensure_openjdk_runtime), the files of one instance  *)
(* and its modloader (ensure_game_files), and the natives (launch_instance).*)
(* The library launches, the instance screen reinstalls, a command line     *)
(* launches in a process of its own; none knows of the others, and each     *)
(* goes by what exists on disk.  How one file is fetched is in GameFiles.   *)
(***************************************************************************)
EXTENDS Naturals, FiniteSets

CONSTANTS Tasks,        \* of "library", "screen", "cli"
          Accounts, NoAccount,
          MaxStarts, MaxFaults

Pieces == {"java", "rest"}      \* bin/java, and all else in the archive
Natives == {"n1", "n2"}
LoaderFiles == [vanilla |-> {}, fabric |-> {"profile", "loaderlibs"}, forge |-> {"profile", "loaderlibs"}]

VARIABLES
  loader,     \* the modloader of the instance
  tree,       \* java/openjdk-<major>: what was unpacked there
  archive,    \* downloads/<package>: "none", "torn" or "whole"
  temp,       \* <package>.downloading
  files,      \* the instance's versions, libraries, assets and loaders
  natives,    \* natives/<profile>
  at, todo,   \* where each task is, and what it has still to unpack
  open,       \* the name the inode it downloads into has now
  account,    \* for whom it launches
  playing,    \* the accounts that have a game of this instance running
  starts, faults,
  trouble     \* history: why a game may lack something

java == <<tree, archive, temp>>
task == <<at, todo, open, account>>
vars == <<loader, java, files, natives, task, playing, starts, faults, trouble>>

\* What reinstall_instance_profile_files removes, one directory after the other.
After == [wipe |-> "wipe2", wipe2 |-> "wipe3", wipe3 |-> "wipe4", wipe4 |-> "core"]
\* Mutant of Wiped: the profiles are removed after the libraries.
WipedLibsFirst == [wipe |-> {"libs", "loaderlibs"}, wipe2 |-> {"version", "profile"}, wipe3 |-> {}, wipe4 |-> {"jar"}]
Wiped == [wipe |-> {"version", "profile"}, wipe2 |-> {"libs", "loaderlibs"}, wipe3 |-> {}, wipe4 |-> {"jar"}]

Needed == {"version", "libs"} \cup LoaderFiles[loader]
Launches(t) == t # "screen"
JavaPlaces == {"clear", "fetch", "write", "promote", "empty", "unpack", "lookup"}
Others(t) == {u \in Tasks \ {t} : at[u] # "idle"}
Overlap(t) == IF \E u \in Tasks \ {t} : at[u] \in JavaPlaces THEN {"overlap"} ELSE {}

Init ==
  /\ loader \in {"vanilla", "fabric", "forge"}
  /\ tree = {} /\ archive = "none" /\ temp = "none" /\ files = {} /\ natives = {}
  /\ at = [t \in Tasks |-> "idle"] /\ todo = [t \in Tasks |-> {}]
  /\ open = [t \in Tasks |-> "closed"] /\ account = [t \in Tasks |-> NoAccount]
  /\ playing = {} /\ starts = 0 /\ faults = 0 /\ trouble = {}

Goto(t, place) == at' = [at EXCEPT ![t] = place]
\* An error, or the end: the task reports and leaves the disk as it is.
Leave(t) ==
  /\ at' = [at EXCEPT ![t] = "idle"] /\ todo' = [todo EXCEPT ![t] = {}]
  /\ open' = [open EXCEPT ![t] = "closed"] /\ account' = [account EXCEPT ![t] = NoAccount]
Step(t, from, to) ==
  /\ at[t] = from /\ Goto(t, to) /\ UNCHANGED <<loader, todo, open, account, playing, starts, faults>>

-----------------------------------------------------------------------------
\* The library has one launch of an instance pending; the screen one preparation,
\* which it offers only while no game of the instance runs.
Begin(t) ==
  /\ at[t] = "idle" /\ starts < MaxStarts /\ starts' = starts + 1
  /\ t = "screen" => playing = {}
  /\ \E a \in Accounts : account' = [account EXCEPT ![t] = IF Launches(t) THEN a ELSE NoAccount]
  /\ Goto(t, "find")
  /\ trouble' = IF \E u \in Tasks : at[u] \in DOMAIN Wiped THEN trouble \cup {"reinstall"} ELSE trouble
  /\ UNCHANGED <<loader, java, files, natives, todo, open, playing, faults>>

\* A runtime in which bin/java exists is taken as it is, whether its path comes
\* from the configuration or from the directory.
Find(t) ==
  /\ IF "java" \in tree THEN Step(t, "find", IF t = "screen" THEN "wipe" ELSE "core") ELSE Step(t, "find", "clear")
  /\ trouble' = trouble \cup Overlap(t)
  /\ UNCHANGED <<java, files, natives>>

Clear(t) ==
  /\ Step(t, "clear", IF archive = "none" THEN "fetch" ELSE "empty")
  /\ tree' = {} /\ UNCHANGED <<archive, temp, files, natives, trouble>>

Create(t) == temp' = "torn" /\ open' = [open EXCEPT ![t] = "temp"] /\ UNCHANGED archive

\* download_file_simple: one read and write stands for them all.
Fetch(t) ==
  /\ at[t] = "fetch" /\ Create(t) /\ Goto(t, "write")
  /\ UNCHANGED <<loader, tree, files, natives, todo, account, playing, starts, faults, trouble>>

Write(t) ==
  /\ Step(t, "write", "promote")
  /\ CASE open[t] = "temp" -> temp' = "whole" /\ UNCHANGED archive
       [] open[t] = "archive" -> archive' = "whole" /\ UNCHANGED temp
       [] open[t] = "unlinked" -> UNCHANGED <<archive, temp>>
  /\ UNCHANGED <<tree, files, natives, trouble>>

\* Who else writes the inode writes the archive from now on.
Promote(t) ==
  /\ at[t] = "promote" /\ Goto(t, "empty")
  /\ IF open[t] = "archive" THEN UNCHANGED <<archive, temp>> /\ open' = [open EXCEPT ![t] = "closed"]
     ELSE /\ temp # "none" /\ archive' = temp /\ temp' = "none"
          /\ open' = [u \in Tasks |-> IF u = t THEN "closed" ELSE
                        IF open[u] = "archive" THEN "unlinked" ELSE IF open[u] = "temp" THEN "archive" ELSE open[u]]
  /\ UNCHANGED <<loader, tree, files, natives, todo, account, playing, starts, faults, trouble>>

Empty(t) ==
  /\ at[t] = "empty" /\ archive # "none"
  /\ Goto(t, "unpack") /\ tree' = {} /\ todo' = [todo EXCEPT ![t] = Pieces]
  /\ UNCHANGED <<loader, archive, temp, files, natives, open, account, playing, starts, faults, trouble>>

Unpack(t) ==
  /\ at[t] = "unpack"
  /\ \E p \in todo[t] : tree' = tree \cup {p} /\ todo' = [todo EXCEPT ![t] = @ \ {p}]
  /\ IF archive = "whole" THEN Goto(t, IF todo'[t] = {} THEN "lookup" ELSE "unpack") /\ UNCHANGED <<open, account>>
     ELSE todo'[t] # {} /\ UNCHANGED <<at, open, account>>
  /\ UNCHANGED <<loader, archive, temp, files, natives, playing, starts, faults, trouble>>

\* A torn archive cannot be read to its end; a rename finds nothing to rename, an
\* open nothing to read; or the directory has no java in the end.
JavaFails(t) ==
  /\ \/ at[t] = "unpack" /\ archive # "whole"
     \/ at[t] = "promote" /\ open[t] # "archive" /\ temp = "none"
     \/ at[t] = "empty" /\ archive = "none"
     \/ at[t] = "lookup" /\ "java" \notin tree
  /\ Leave(t) /\ UNCHANGED <<loader, java, files, natives, playing, starts, faults, trouble>>

Lookup(t) ==
  /\ "java" \in tree /\ Step(t, "lookup", IF t = "screen" THEN "wipe" ELSE "core")
  /\ UNCHANGED <<java, files, natives, trouble>>

\* Settings, "clear cache": the runtimes and the archives are in it.
Purge ==
  /\ faults < MaxFaults /\ faults' = faults + 1
  /\ tree' = {} /\ archive' = "none" /\ temp' = "none"
  /\ open' = [t \in Tasks |-> IF open[t] = "closed" THEN "closed" ELSE "unlinked"]
  /\ trouble' = IF playing # {} \/ \E t \in Tasks : at[t] \notin {"idle", "find"} THEN trouble \cup {"purge"} ELSE trouble
  /\ UNCHANGED <<loader, files, natives, at, todo, account, playing, starts>>

-----------------------------------------------------------------------------
Wipe(t) ==
  /\ at[t] \in DOMAIN Wiped /\ Step(t, at[t], After[at[t]])
  /\ files' = files \ Wiped[at[t]]
  /\ natives' = IF at[t] = "wipe3" THEN {} ELSE natives
  /\ trouble' = IF playing # {} \/ Others(t) # {} THEN trouble \cup {"reinstall"} ELSE trouble
  /\ UNCHANGED java

Done(t) == IF Launches(t) THEN "resolve" ELSE "end"
Core(t) ==
  /\ Step(t, "core", "libs") /\ files' = files \cup {"version"} /\ UNCHANGED <<java, natives, trouble>>
Libs(t) ==
  /\ "version" \in files /\ Step(t, "libs", "loader")
  /\ files' = files \cup {"libs"} /\ UNCHANGED <<java, natives, trouble>>

Installers == {"installer1", "installer2"}
\* A profile is taken that another's installer may be about to complete.
Beside(t) == IF loader = "forge" /\ \E u \in Tasks \ {t} : at[u] \in Installers THEN {"beside"} ELSE {}
\* An installer is given up that wrote the profile and not what the profile lists.
Half(t) ==
  IF at[t] \in Installers /\ "profile" \in files /\ "loaderlibs" \notin files THEN {"half"} ELSE {}

\* install_selected_modloader: nothing to do, or the profile is there already; the
\* libraries of a profile of Forge's are then not looked for.
Installed(t) ==
  /\ loader = "vanilla" \/ "profile" \in files
  /\ Step(t, "loader", IF loader = "fabric" THEN "loaderlibs" ELSE Done(t))
  /\ trouble' = trouble \cup Beside(t) /\ UNCHANGED files
Loader(t) ==
  /\ \/ Installed(t)
     \/ /\ "profile" \notin files /\ UNCHANGED trouble
        /\ \/ loader = "fabric" /\ Step(t, "loader", "loaderlibs") /\ files' = files \cup {"profile"}
           \/ loader = "forge" /\ Step(t, "loader", "installer1") /\ files' = files \cup {"jar"}
  /\ UNCHANGED <<java, natives>>

\* Forge's installer writes the profile and downloads what the profile lists, in an
\* order of its own; a runtime that lacks a piece does not run it.
InstallerWrites(t) ==
  /\ at[t] \in Installers /\ "jar" \in files /\ tree = Pieces
  /\ \E f \in {"profile", "loaderlibs"} \ files : files' = files \cup {f}
  /\ UNCHANGED <<loader, java, natives, task, playing, starts, faults, trouble>>

\* It exits: with success, whatever it wrote, or else the second flag is tried.
Installer(t) ==
  /\ at[t] \in Installers /\ "jar" \in files
  /\ \/ Step(t, at[t], "verify") /\ trouble' = trouble \cup Half(t)
     \/ Step(t, "installer1", "installer2") /\ UNCHANGED trouble
  /\ UNCHANGED <<java, files, natives>>
Verify(t) ==
  /\ "profile" \in files /\ Step(t, "verify", Done(t))
  /\ trouble' = trouble \cup Beside(t) /\ UNCHANGED <<java, files, natives>>
LoaderLibs(t) ==
  /\ "profile" \in files /\ Step(t, "loaderlibs", Done(t))
  /\ files' = files \cup {"loaderlibs"} /\ UNCHANGED <<java, natives, trouble>>

\* A profile or version file that is missing, an installer that failed, an account
\* that plays already.
FilesFail(t) ==
  /\ \/ at[t] = "libs" /\ "version" \notin files
     \/ at[t] \in {"loaderlibs", "verify"} /\ "profile" \notin files
     \/ at[t] = "installer1" /\ "jar" \notin files
     \/ at[t] = "installer2"
     \/ at[t] = "resolve" /\ ~(Needed \ {"libs", "loaderlibs"} \subseteq files /\ account[t] \notin playing)
     \/ at[t] = "wait"
  /\ Leave(t) /\ trouble' = trouble \cup Half(t)
  /\ UNCHANGED <<loader, java, files, natives, playing, starts, faults>>

End(t) == at[t] = "end" /\ Leave(t) /\ UNCHANGED <<loader, java, files, natives, playing, starts, faults, trouble>>

-----------------------------------------------------------------------------
\* launch_instance, after ensure_launch_allowed: the profile and its chain, then
\* the natives, unpacked anew; archives that are not there are passed over.
Resolve(t) ==
  /\ Needed \ {"libs", "loaderlibs"} \subseteq files /\ account[t] \notin playing
  /\ Step(t, "resolve", "natives0") /\ UNCHANGED <<java, files, natives, trouble>>
EmptyNatives(t) ==
  /\ at[t] = "natives0" /\ Goto(t, "natives")
  /\ natives' = {} /\ todo' = [todo EXCEPT ![t] = IF "libs" \in files THEN Natives ELSE {}]
  /\ trouble' = IF playing # {} \/ \E u \in Others(t) : at[u] \in {"natives", "spawn", "wait"}
                THEN trouble \cup {"second"} ELSE trouble
  /\ UNCHANGED <<loader, java, files, open, account, playing, starts, faults>>
UnpackNative(t) ==
  /\ at[t] = "natives"
  /\ IF todo[t] = {} THEN Goto(t, "spawn") /\ UNCHANGED <<natives, todo>>
     ELSE \E n \in todo[t] : natives' = natives \cup {n} /\ todo' = [todo EXCEPT ![t] = @ \ {n}] /\ UNCHANGED at
  /\ UNCHANGED <<loader, java, files, open, account, playing, starts, faults, trouble>>
Spawn(t) == Step(t, "spawn", "wait") /\ UNCHANGED <<java, files, natives, trouble>>
Register(t) ==
  /\ at[t] = "wait" /\ Leave(t) /\ playing' = playing \cup {account[t]}
  /\ UNCHANGED <<loader, java, files, natives, starts, faults, trouble>>
GameEnds(a) == a \in playing /\ playing' = playing \ {a} /\ UNCHANGED <<loader, java, files, natives, task, starts, faults, trouble>>

\* The network, the disk or the process gives out; an extraction cut short leaves a
\* directory in which bin/java may be the only file.
Stop(t) ==
  /\ at[t] # "idle" /\ faults < MaxFaults /\ faults' = faults + 1 /\ Leave(t)
  /\ trouble' = IF at[t] = "unpack" THEN trouble \cup {"cut"} ELSE trouble \cup Half(t)
  /\ UNCHANGED <<loader, java, files, natives, playing, starts>>

Next ==
  \/ \E t \in Tasks :
       \/ Begin(t) \/ Find(t) \/ Clear(t) \/ Fetch(t) \/ Write(t) \/ Promote(t) \/ Empty(t) \/ Unpack(t)
       \/ JavaFails(t) \/ Lookup(t) \/ Wipe(t) \/ Core(t) \/ Libs(t) \/ Loader(t)
       \/ InstallerWrites(t) \/ Installer(t)
       \/ Verify(t) \/ LoaderLibs(t) \/ FilesFail(t) \/ End(t) \/ Resolve(t) \/ EmptyNatives(t)
       \/ UnpackNative(t) \/ Spawn(t) \/ Register(t) \/ Stop(t)
  \/ \E a \in Accounts : GameEnds(a)
  \/ Purge

Spec == Init /\ [][Next]_vars

-----------------------------------------------------------------------------
\* A runtime in which bin/java exists is whole, or is being unpacked, unless an
\* extraction was cut short or two tasks fetched it at once: every later launch
\* takes it for complete.
RuntimeIsWhole ==
  trouble \cap {"cut", "overlap", "purge"} = {} =>
    \/ "java" \in tree => tree = Pieces
    \/ \E t \in Tasks : at[t] = "unpack"

\* A game that starts, and one that plays, has its runtime, the files of its version
\* and loader and all its natives, whatever failed and was begun again before; unless
\* the extraction was cut short, or someone reinstalled, purged or launched beside it.
\* Where Forge's installer was given up after it wrote the profile, or is still at work
\* for another task, the game may lack the loader's libraries, and nothing else.
GameIsWhole ==
  trouble \subseteq {"half", "beside"} /\ (playing # {} \/ \E t \in Tasks : at[t] = "wait") =>
    /\ tree = Pieces /\ natives = Natives
    /\ (IF trouble = {} THEN Needed ELSE Needed \ {"loaderlibs"}) \subseteq files
=============================================================================
