------------------------------- MODULE MCFiles -------------------------------
(***************************************************************************)
(* What the launcher keeps on disk without a lock: the files of a game,     *)
(* which two installs fetch; the instance store; and the Java runtime and   *)
(* the modloader a launch prepares.  In the model they share no state, and  *)
(* a behaviour is one of the three.                                         *)
(***************************************************************************)
EXTENDS GameFiles, TLC

CONSTANTS json, lib1, lib2, MaxChanges, Tasks, Accounts, NoAccount, MaxStarts, MaxFaults

\* The bound on the changes made to the store.
ASSUME MCFilesAssumption == MaxChanges \in Nat

VARIABLES part, ui, mem, pending, inFlight, jobs, results, snapshot, base, file, writers, made, fine,
          durable, promised, excused,
          loader, tree, archive, package, files, natives, stage, todo, inode, account, playing, starts,
          faults, trouble

P == INSTANCE LaunchPreparation WITH temp <- package, at <- stage, open <- inode
prepVars == <<loader, tree, archive, package, files, natives, stage, todo, inode, account, playing, starts,
              faults, trouble>>

S == INSTANCE StoreSaver

storeVars == <<ui, mem, pending, inFlight, jobs, results, snapshot, base, file, writers, made, fine,
               durable, promised, excused>>

(* A version's metadata, which lists two libraries.                         *)
MCBatches == <<{json}, {lib1, lib2}>>
MCListedBy == <<NoFile, json>>

(* Installs, workers and libraries are interchangeable, and no property is a *)
(* liveness property.                                                        *)
Symmetry == Permutations(Installs) \cup Permutations(Workers) \cup Permutations({lib1, lib2})

MCInit == Init /\ S!Init /\ P!Init /\ part \in {"game", "store", "launch"} /\ (part = "launch" \/ loader = "vanilla")
MCNext == \/ part = "game" /\ Next /\ UNCHANGED <<storeVars, prepVars, part>>
          \/ part = "store" /\ S!Next /\ UNCHANGED <<vars, prepVars, part>>
          \/ part = "launch" /\ P!Next /\ UNCHANGED <<vars, storeVars, part>>
MCSpec == MCInit /\ [][MCNext]_<<vars, storeVars, prepVars, part>>

(* A temporary file is under the name its writer believes it has, and at most *)
(* one background save is in flight.                                          *)
FilesTypeOK == TypeOK /\ S!TypeOK

(* StoreSaver's properties: the newest store is the one the saver leaves, what *)
(* was in a whole file is kept, and a save on exit leaves the newest state.    *)
NewestWins == S!NewestWins /\ S!SavedIsKept
ExitSaves == S!ExitSaves

(* LaunchPreparation's properties: a runtime with a bin/java is whole, and a   *)
(* game has all it needs.                                                      *)
UsedIsWhole == P!RuntimeIsWhole /\ P!GameIsWhole
=============================================================================
