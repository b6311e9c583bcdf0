------------------------------ MODULE MCInstances ------------------------------
(***************************************************************************)
(* Instances: their lifecycle, and how they come from packs and from other *)
(* launchers.  The parts do not share state in the models: one run         *)
(* explores each of them.                                                  *)
(***************************************************************************)
EXTENDS InstanceLifecycle

CONSTANTS Sources, Files, MaxRequests, MaxSerial, MaxTries, Nothing, Entries

ASSUME FlowAssumption == MaxRequests \in Nat

VARIABLES part,
          form, previews, importing, preflight, imported, waiting, shopping, tasks, staging, doomed, fetched,
          adopted, asked, cancelled, news, dropped,
          pack, stage, todo, staged, root, listed, folder, recorded, spared,
          source, found

F == INSTANCE ImportFlows
P == INSTANCE PackImport

flowVars == <<form, previews, importing, preflight, imported, waiting, shopping, tasks, staging, doomed, fetched,
              adopted, asked, cancelled, news, dropped>>
packVars == <<pack, stage, todo, staged, root, listed, folder, recorded, spared>>
sourceVars == <<source, found>>

MCInit == Init /\ F!Init /\ P!Init /\ P!FolderInit /\ part \in {"life", "flows", "packs", "folders"}
MCNext == \/ part = "life" /\ Next /\ UNCHANGED <<flowVars, packVars, sourceVars, part>>
          \/ part = "flows" /\ F!Next /\ UNCHANGED <<vars, packVars, sourceVars, part>>
          \/ part = "packs" /\ P!Next /\ UNCHANGED <<vars, flowVars, sourceVars, part>>
          \/ part = "folders" /\ P!Inspect /\ UNCHANGED <<vars, flowVars, packVars, part>>
MCSpec == MCInit /\ [][MCNext]_<<vars, flowVars, packVars, sourceVars, part>> /\ Fairness /\ F!FlowFairness

\* CONSTRAINT of the run: beside Untroubled, a second inspection and a second task are not
\* explored together.
Explored == Untroubled /\ (form.serial < 2 \/ asked.tries < 2)

(* An import goes by what was inspected last, its files stay until it ends,   *)
(* it runs once; what it makes is whole or nothing; and what is read from     *)
(* another launcher's folder fits together.                                   *)
ImportIsSound == F!ImportsAreSound /\ P!PackIsImported /\ P!FolderIsUnderstood

(* InstanceLifecycle's EverythingSettles and ImportFlows' FlowsSettle at once:  *)
(* nothing stays busy or pending.                                             *)
Unsettled == Waiting \/ F!Busy
AllSettles == Unsettled ~> ~Unsettled
=============================================================================
