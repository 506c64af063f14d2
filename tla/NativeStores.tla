---------------------------- MODULE NativeStores ----------------------------
(***************************************************************************)
(* The four stores of native-control on one host: the workspace inventory, *)
(* the management control directory and the service store, which           *)
(* native-control/src/addon.cc keeps, and the artifact space that          *)
(* service-store.js keeps through it.  The first three share no name, no   *)
(* lock and no process (each has its own root, opened by its own entry     *)
(* points); the artifact space is looked at above the calls that           *)
(* ServiceStore takes apart.  So a behaviour of the host is any            *)
(* interleaving of independent ones, and an invariant of one store depends *)
(* on the steps of that store alone: the behaviours checked are those in   *)
(* which one of them, chosen at first, moves.                              *)
(***************************************************************************)
EXTENDS InventoryStore, ControlStore, ServiceStore, ArtifactSpace

VARIABLE store      \* the store that moves

nativeVars == <<store, invVars, controlVars, serviceVars, artifactVars>>

NativeInit ==
    /\ store \in {"inventory", "control", "service", "artifact"}
    /\ InventoryInit /\ ControlInit /\ ServiceInit /\ ArtifactInit
    /\ cPlatform = iPlatform /\ sPlatform = iPlatform
    /\ store # "service" => ~ External(sDir)
    /\ store = "artifact" => iPlatform = "posix"

NativeNext ==
    \/ /\ store = "inventory" /\ InventoryNext
       /\ UNCHANGED <<store, controlVars, serviceVars, artifactVars>>
    \/ /\ store = "control" /\ ControlNext
       /\ UNCHANGED <<store, invVars, serviceVars, artifactVars>>
    \/ /\ store = "service" /\ ServiceNext
       /\ UNCHANGED <<store, invVars, controlVars, artifactVars>>
    \/ /\ store = "artifact" /\ ArtifactNext
       /\ UNCHANGED <<store, invVars, controlVars, serviceVars>>

NativeSpec == NativeInit /\ [][NativeNext]_nativeVars
=============================================================================
