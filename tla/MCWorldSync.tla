----------------------------- MODULE MCWorldSync -----------------------------
(***************************************************************************)
(* What passes keep in step between the instances: their shared worlds,    *)
(* whose instances are interchangeable, and the files of a kind, whose     *)
(* commands are; each behaviour is about one of them.  One about worlds is *)
(* followed up to the first state no property speaks of; of the options,   *)
(* one game changes them at a time.                                        *)
(***************************************************************************)
EXTENDS WorldSync, TLC

CONSTANTS None, Kinds, Commands, Addresses, Everywhere

VARIABLES part, kind, file, game, packs, pass, time, saved, raced, clean, stamped, overtaken

fileVars == <<kind, file, game, packs, pass, time, saved, raced, clean, stamped, overtaken>>

Files == INSTANCE FileSync WITH Count <- 3, Old <- {3}, New <- {2}, Fits <- {1, 2}, Cap <- 2, clock <- time

MCInit ==
    /\ Init
    /\ \/ /\ part = "worlds"
          /\ kind = None /\ file = None /\ game = None /\ packs = None /\ pass = None /\ time = None
          /\ saved = None /\ raced = None /\ clean = None /\ stamped = None /\ overtaken = None
       \/ part = "files" /\ Files!Init /\ disk[CHOOSE i \in Instances : TRUE] # Nothing

MCNext ==
    \/ part = "worlds" /\ Next /\ UNCHANGED <<part, fileVars>>
    \/ part = "files" /\ Files!Next /\ UNCHANGED <<part, vars>>

MCSpec == MCInit /\ [][MCNext]_<<part, vars, fileVars>>

Claimed == /\ part = "worlds" => Judged
           /\ kind = "options" => \A i, k \in 1 .. 3 : game[i] # None /\ game[k] # None => i = k
InstanceSymmetry == Permutations(Instances) \cup Permutations(Commands)

SavesSurvive == part = "files" => Files!SavesSurvive
PassesAgree == part = "files" => Files!PassesAgree
=============================================================================
