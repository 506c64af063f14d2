------------------------- MODULE ServiceManagement -------------------------
(***************************************************************************)
(* Native service management: the lifecycle of one service                 *)
(* (ServiceLifecycle) and the host-wide floor of release sequence numbers  *)
(* that its transactions reserve and commit (SequenceFloor).  The          *)
(* lifecycle meets the floor at two steps of a transaction, which          *)
(* SequenceFloor has with everything around them that touches the floor;   *)
(* neither model reads the other's state, so the behaviours taken are      *)
(* those in which one of them, chosen at first, moves.                     *)
(***************************************************************************)
EXTENDS SequenceFloor

CONSTANTS
    AppReleases,   \* application releases a mutation may name
    NoRelease,     \* no release: an absent unit, manifest or proof
    MaxFault,      \* bound: crashes, reboots, process exits and I/O failures
    MaxOpened      \* bound: lifecycle transactions opened

ASSUME LifecycleAssumption ==
    NoRelease \notin AppReleases /\ MaxFault \in Nat /\ MaxOpened \in Nat

VARIABLES part,                                   \* the half that moves
          plat, os, proc, jrn, meta, ctl, faults  \* those of ServiceLifecycle

L == INSTANCE ServiceLifecycle WITH Releases <- AppReleases, MaxTx <- MaxOpened

lifecycleVars == <<plat, os, proc, jrn, meta, ctl, faults>>
serviceVars == <<part, vars, lifecycleVars>>

ServiceInit ==
    /\ part \in {"floor", "lifecycle"} /\ Init /\ L!Init
    /\ part = "floor" => plat = "linux"

ServiceNext ==
    \/ part = "floor" /\ Next /\ UNCHANGED <<part, lifecycleVars>>
    \/ part = "lifecycle" /\ L!Next /\ UNCHANGED <<part, vars>>

\* A started session runs to its end or dies (every wait in it has a deadline);
\* an operator who finds an unfinished floor runs recovery for the service that
\* owns it, and sooner or later names the operation that was interrupted.
\* Deaths are bounded.
ServiceFairness ==
    /\ WF_vars(part = "floor" /\ SessionStep)
    /\ SF_vars(part = "floor" /\ ReplayInterrupted)
    /\ \A s \in Services : WF_vars(part = "floor" /\ OpenRecovery(s))
    /\ WF_lifecycleVars(part = "lifecycle" /\ L!SessionStep)

ServiceSpec == ServiceInit /\ [][ServiceNext]_serviceVars /\ ServiceFairness

-----------------------------------------------------------------------------
(* Properties.                                                             *)

\* After a death between any two writes of the floor the next session can
\* classify it and finds one transaction to finish, the marks keep their
\* relation, and what the floor calls committed is published
\* (service-store.js loadFloor, #reserve, #commit, #abandon).
FloorRecoverable ==
    TypeOK /\ FloorRelation /\ EveryCrashBoundaryRecoverable /\ CommittedIsPublished

\* No mark of the floor is ever lowered or given to another manifest, and the
\* floor is moved only by the operation its newest history directory names, of
\* the service that holds the reservation.
FloorMovesByName == FloorOnlyRises /\ OnlyNamedOperationMoves

\* A release the platform would start by itself has a durable startup proof,
\* and when the journal is closed the platform, the manifest, the references
\* and the proof name one release (service-lifecycle.js runStartupGate,
\* commitMetadata), on Linux and on Windows, whatever was interrupted.
LifecycleAgrees ==
    L!TypeOK /\ L!OnlyProvenReleasesActivate /\ L!ClosedJournalAgrees

\* The controller changes the platform's resource only under a durable action
\* entry of its own transaction, and nothing but an operator moves anything
\* once the manual-cleanup marker is published (actionMutation).
PlatformChangesUnderAction == L!OsChangesUnderAction /\ L!ManualCleanupAbsorbs

\* What no step of either part may do.
ServiceStepsLegal == FloorMovesByName /\ PlatformChangesUnderAction

\* An unfinished transition of the floor is finished, and every lifecycle
\* session ends, whatever the supervised process does.
ServiceSettles == PendingFloorSettles /\ L!SessionsEnd
=============================================================================
