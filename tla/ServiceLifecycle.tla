-------------------------- MODULE ServiceLifecycle --------------------------
(***************************************************************************)
(* The native service lifecycle of one service on one host                 *)
(* (native-control/src/service-lifecycle.js with the drivers               *)
(* service-linux.js and service-windows.js).  A controller session admits  *)
(* one mutation and runs its script: journal entries, calls to systemd or  *)
(* the Windows service control manager, writes of protected metadata and   *)
(* checks of what the platform shows.  The controller may crash before or  *)
(* after every step (and between a journal entry and the head that makes   *)
(* it current); the supervised process may exit, be restarted by the       *)
(* platform or write to its log; the host may reboot.                      *)
(*                                                                         *)
(* Sequence floors and artifact publication are module SequenceFloor; here *)
(* they are the two journal entries the session writes after them.         *)
(***************************************************************************)
EXTENDS Naturals, Sequences, FiniteSets

CONSTANTS
    Releases,     \* application releases a mutation may name
    NoRelease,    \* no release: an absent unit, manifest or proof
    MaxFault,     \* bound: crashes, reboots, process exits and I/O failures
    MaxTx         \* bound: lifecycle transactions opened

VARIABLES
    plat,      \* "linux" or "win32", fixed for the host
    os,        \* the platform's service resource, as on disk or in the SCM
    proc,      \* the supervised process
    jrn,       \* the transaction journal's last entry
    meta,      \* the protected metadata of the service
    ctl,       \* the running controller session
    faults     \* faults spent

vars == <<plat, os, proc, jrn, meta, ctl, faults>>

Ops == {"install", "update", "rollback", "uninstall"}
Phases == {"prepared", "sequence-reserved", "release-published",
           "transition-marker-intent", "stopping", "quiescent",
           "resource-published", "trial-start-intent", "trial-start-observed",
           "starting", "startup-observed", "activation-observed", "tombstoned",
           "references-released", "committed"}
Substeps == {"none", "intent", "action", "observed"}
MaybeRelease == Releases \cup {NoRelease}

-----------------------------------------------------------------------------
(* Platform resource.  rel: release the unit or SCM entry launches; owned: *)
(* it carries this product's marker; restart: automatic restart on failure; *)
(* start: "auto" means the platform starts it at boot; mgr: what the       *)
(* manager has loaded (systemd sees a unit only after daemon-reload).      *)

Resource(rel, owned, restart, start, mgrRel, mgrRestart) ==
    [rel |-> rel, owned |-> owned, restart |-> restart, start |-> start,
     mgr |-> [rel |-> mgrRel, restart |-> mgrRestart]]
Absent == Resource(NoRelease, FALSE, FALSE, "off", NoRelease, FALSE)
Trial(r) == Resource(r, TRUE, FALSE, "demand", r, FALSE)
Armed(r) == IF plat = "linux" THEN Resource(r, TRUE, TRUE, "demand", r, TRUE)
                              ELSE Resource(r, TRUE, FALSE, "auto", r, FALSE)
Final(r) == Resource(r, TRUE, TRUE, "auto", r, TRUE)

\* The manager follows the resource at once on Windows, at the next reload on Linux.
Loaded(o) == [o EXCEPT !.mgr = [rel |-> o.rel, restart |-> o.restart]]
Written(o) == IF plat = "win32" THEN Loaded(o) ELSE o

\* What each platform call makes of the resource.  Writing the unit leaves a
\* boot link alone.
ApplyUnitBytes(r, restart) ==
    Written([os EXCEPT !.rel = r, !.owned = TRUE, !.restart = restart,
                       !.start = IF @ = "off" THEN "demand" ELSE @])
DaemonReload == Loaded(os)
SetBoot(start) == [os EXCEPT !.start = start]
CreateDisabled(r) == Loaded(Resource(r, FALSE, FALSE, "off", r, FALSE))
Protect == [os EXCEPT !.owned = TRUE]
SetFailureActions(on) == Written([os EXCEPT !.restart = on])
ConfigureLaunch(r) == Written([os EXCEPT !.rel = r])

OsEffect(what, r) ==
    CASE what = "unit-trial"  -> ApplyUnitBytes(r, FALSE)
      [] what = "unit-final"  -> ApplyUnitBytes(r, TRUE)
      [] what = "reload"      -> DaemonReload
      [] what = "unlink"      -> SetBoot("demand")
      [] what = "link"        -> SetBoot("auto")
      [] what = "create"      -> CreateDisabled(r)
      [] what = "protect"     -> Protect
      [] what = "demand"      -> SetBoot("demand")
      [] what = "auto"        -> SetBoot("auto")
      [] what = "actions-on"  -> SetFailureActions(TRUE)
      [] what = "actions-off" -> SetFailureActions(FALSE)
      [] what = "relaunch"    -> ConfigureLaunch(r)
      [] what = "delete"      -> Absent
      [] OTHER                -> os

Down == [up |-> FALSE, rel |-> NoRelease, epoch |-> 0, logged |-> FALSE]
Running(r) == [up |-> TRUE, rel |-> r, epoch |-> proc.epoch + 1, logged |-> FALSE]
\* A process the platform stopped is not one that failed: it has no release to restart.
Stopped == [Down EXCEPT !.epoch = proc.epoch]

-----------------------------------------------------------------------------
(* Scripts: what each driver method and the lifecycle itself do, in order. *)

J(phase, sub) == [k |-> "journal", phase |-> phase, sub |-> sub]
Os(what) == [k |-> "os", what |-> what]
Put(what) == [k |-> "store", what |-> what]
Check(what) == [k |-> "check", what |-> what]
\* Skip the next n steps when the named condition holds.
Skip(what, n) == [k |-> "skip", what |-> what, n |-> n]

\* Mutant: the call is made on the intent alone.
ActionMutationEager(phase, what) ==
    <<J(phase, "intent"), Os(what), J(phase, "action"), J(phase, "observed")>>

\* One platform call under its own durable intent, action and observation.
ActionMutation(phase, what) ==
    <<J(phase, "intent"), J(phase, "action"), Os(what), J(phase, "observed")>>

\* The same when the current head already is the phase's intent.
ContinuedMutation(phase, what) == Tail(ActionMutation(phase, what))

\* Mutant: an update rewrites the unit and leaves the boot link in place.
LinuxPublishSuppressedEnabled(op) ==
    LET t == "transition-marker-intent" IN
    <<Check("pre-state")>> \o ContinuedMutation(t, "unit-trial")
    \o ActionMutation(t, "reload") \o <<Check("trial-state")>>

LinuxPublishSuppressed(op) ==
    LET t == "transition-marker-intent" IN
    <<Check("pre-state")>>
    \o (IF op = "install" THEN ContinuedMutation(t, "unit-trial")
        ELSE ContinuedMutation(t, "unlink") \o ActionMutation(t, "unit-trial"))
    \o ActionMutation(t, "reload") \o <<Check("trial-state")>>

\* Mutant: the marker is never set on the created entry.
WindowsPublishSuppressedUnmarked(op) ==
    LET t == "transition-marker-intent" IN
    <<Check("pre-state"), J(t, "action"), Os("create"), J(t, "observed")>>
    \o ActionMutation(t, "demand") \o <<J("resource-published", "observed")>>

WindowsPublishSuppressed(op) ==
    LET t == "transition-marker-intent" IN
    (IF op = "install"
     THEN <<Check("pre-state"), J(t, "action"), Os("create"), J(t, "observed")>>
          \o ActionMutation(t, "protect") \o ActionMutation(t, "demand")
          \o ActionMutation(t, "actions-off") \o ActionMutation(t, "flag-off")
     ELSE <<Check("pre-state"), Check("not-running")>>
          \o ContinuedMutation(t, "demand") \o ActionMutation(t, "actions-off")
          \o ActionMutation(t, "relaunch"))
    \o <<J("resource-published", "observed"), Check("trial-state")>>

LinuxStopAndQuiesce ==
    <<Check("stoppable-head"), J("stopping", "intent"), Check("stop-predicate"),
      Skip("down", 2), J("stopping", "action"), Os("stop"),
      J("stopping", "observed"), J("quiescent", "intent"), J("quiescent", "observed")>>

\* A stop the service does not obey in time is forced under its own action.
WindowsStopAndQuiesce ==
    <<Check("stop-predicate"), J("stopping", "intent"), J("stopping", "action"),
      Os("stop"), J("stopping", "observed"), Skip("down", 4)>>
    \o ActionMutation("stopping", "terminate")
    \o <<J("quiescent", "intent"), J("quiescent", "observed")>>

LinuxStartTrial ==
    <<Check("quiescent-trial"), J("trial-start-intent", "intent"),
      J("trial-start-intent", "action"), Os("start"), Check("invocation"),
      J("trial-start-observed", "observed")>>

WindowsStartTrial ==
    <<Check("boundary-free"), Put("boundary-captured"),
      J("trial-start-intent", "intent"), J("trial-start-intent", "action"), Os("start"),
      Check("invocation"), J("trial-start-intent", "observed"),
      J("trial-start-observed", "observed"), Put("boundary-observed")>>

LinuxStartupGate ==
    <<J("starting", "intent"), Check("gate"), Put("startup-proof"),
      J("startup-observed", "observed")>>

WindowsStartupGate ==
    <<J("starting", "intent"), Check("gate"), J("starting", "action"),
      Check("trial-epoch"), Put("startup-proof"), J("startup-observed", "observed")>>

LinuxArmFinalRestart ==
    <<Check("fresh-receipt")>>
    \o ActionMutation("activation-observed", "unit-final")
    \o ActionMutation("activation-observed", "reload")
    \o <<Check("armed-activation")>>

LinuxEnableFinal ==
    <<Check("fresh-receipt")>>
    \o ActionMutation("activation-observed", "link")
    \o ActionMutation("activation-observed", "reload")
    \o <<Check("final-activation")>>

\* On Windows the observation is recorded only after the receipt is re-read.
WindowsActivation(what) ==
    LET a == "activation-observed" IN
    <<J(a, "intent"), J(a, "action"), Os(what), Check("trial-epoch"), J(a, "observed")>>

WindowsArmFinalRestart == <<Check("log-cursor")>> \o WindowsActivation("auto")

WindowsEnableFinal ==
    <<Check("log-cursor")>> \o WindowsActivation("actions-on") \o WindowsActivation("flag-off")

WindowsRemoveResource ==
    ActionMutation("tombstoned", "delete")

\* Mutant: the references of the committed release are not published.
CommitMetadataWithoutReferences(op) == <<Put("resource"), Put("manifest")>>

\* Metadata follows the platform: the pair, then the references, then the commit.
CommitMetadata(op) ==
    (IF op = "install" THEN <<>> ELSE <<Put("previous")>>)
    \o <<Put("resource"), Put("manifest"), Put("references")>>

Acquisition(op) ==
    IF op \in {"install", "update"}
    THEN <<J("sequence-reserved", "observed"), J("release-published", "observed")>>
    ELSE <<>>

\* #mutate after admission, for one platform and operation.
Script(p, op) ==
    <<J("prepared", "none"), Check("probe")>> \o Acquisition(op)
    \o <<J("transition-marker-intent", "intent")>>
    \o (IF op = "uninstall"
        THEN (IF p = "linux" THEN LinuxStopAndQuiesce ELSE WindowsStopAndQuiesce)
             \o <<J("tombstoned", "intent"), Put("tombstone")>>
             \o WindowsRemoveResource
             \o <<Put("no-proof"), Put("no-references"),
                  J("references-released", "observed"),
                  Put("no-manifest"), Put("no-resource")>>
        ELSE IF p = "linux"
        THEN LinuxPublishSuppressed(op)
             \o (IF op = "install" THEN <<>> ELSE LinuxStopAndQuiesce)
             \o LinuxStartTrial \o LinuxStartupGate
             \o LinuxArmFinalRestart \o LinuxEnableFinal \o CommitMetadata(op)
        ELSE WindowsPublishSuppressed(op)
             \o (IF op = "install" THEN <<>> ELSE WindowsStopAndQuiesce)
             \o WindowsStartTrial \o WindowsStartupGate
             \o WindowsArmFinalRestart \o WindowsEnableFinal \o CommitMetadata(op))
    \o <<J("committed", "observed")>>

-----------------------------------------------------------------------------
(* State *)

NoEntry == [tx |-> 0, op |-> "install", rel |-> NoRelease, phase |-> "committed",
            sub |-> "observed", headed |-> TRUE]
NoSession == [op |-> "none", rel |-> NoRelease, tx |-> 0, pc |-> 0, epoch |-> 0,
              before |-> Absent, mode |-> "idle"]
NoProof == [rel |-> NoRelease, tx |-> 0, epoch |-> 0]

Init ==
    /\ plat \in {"linux", "win32"}
    /\ os = Absent
    /\ proc = Down
    /\ jrn = NoEntry
    /\ meta = [manifest |-> NoRelease, resource |-> NoRelease, current |-> NoRelease,
               previous |-> NoRelease, proof |-> NoProof, boundary |-> 0,
               tombstone |-> FALSE, manual |-> FALSE]
    /\ ctl = NoSession
    /\ faults = 0

JournalOpen == jrn.phase # "committed" \/ ~jrn.headed
\* ServiceStoreSession.blocked(): no mutation session is opened.
Blocked == meta.tombstone \/ meta.manual \/ JournalOpen
Idle == ctl.mode = "idle"

\* #mutate's admission: install needs an absent predecessor, the others the
\* stable one; rollback needs a retained previous reference.
Admitted(op, r) ==
    /\ ~Blocked
    /\ (op = "install") = (meta.manifest = NoRelease)
    /\ op = "rollback" => meta.previous = r
    /\ op = "uninstall" => r = meta.manifest
    /\ op = "update" => r # meta.manifest

Admit(op, r) ==
    /\ Idle /\ jrn.tx < MaxTx
    /\ Admitted(op, r)
    /\ ctl' = [op |-> op, rel |-> r, tx |-> jrn.tx + 1, pc |-> 1, epoch |-> 0,
               before |-> os, mode |-> "run"]
    /\ UNCHANGED <<plat, os, proc, jrn, meta, faults>>

-----------------------------------------------------------------------------
(* Steps of a running session *)

Stp == Script(plat, ctl.op)[ctl.pc]
At(kind) == ctl.mode = "run" /\ ctl.pc <= Len(Script(plat, ctl.op)) /\ Stp.k = kind
Advance(n) == ctl' = [ctl EXCEPT !.pc = @ + n]
Entry == [tx |-> ctl.tx, op |-> ctl.op, rel |-> ctl.rel,
          phase |-> Stp.phase, sub |-> Stp.sub, headed |-> FALSE]

Headed == [jrn EXCEPT !.headed = TRUE]

AppendEntry ==
    /\ At("journal") /\ jrn.headed
    /\ jrn' = Entry
    /\ UNCHANGED <<plat, os, proc, meta, ctl, faults>>

WriteHead ==
    /\ At("journal") /\ ~jrn.headed
    /\ jrn' = Headed
    /\ Advance(1)
    /\ UNCHANGED <<plat, os, proc, meta, faults>>

\* systemctl start and StartService launch what the manager has loaded; a stop
\* may not be obeyed in time on Windows, a forced termination is.
ProcEffects(what) ==
    CASE what = "start"     -> {Running(os.mgr.rel)}
      [] what = "stop"      -> IF plat = "win32" THEN {Stopped, proc} ELSE {Stopped}
      [] what = "terminate" -> {Stopped}
      [] OTHER              -> {proc}

CallPlatform ==
    /\ At("os")
    /\ os' = OsEffect(Stp.what, ctl.rel)
    /\ proc' \in ProcEffects(Stp.what)
    /\ ctl' = [ctl EXCEPT !.pc = @ + 1,
                          !.epoch = IF Stp.what = "start" THEN proc'.epoch ELSE @]
    /\ UNCHANGED <<plat, jrn, meta, faults>>

\* What each metadata write leaves behind.
PublishTrialBoundary == [meta EXCEPT !.boundary = ctl.tx]
PublishStartupProof ==
    [meta EXCEPT !.proof = [rel |-> ctl.rel, tx |-> ctl.tx, epoch |-> ctl.epoch]]
RotatePrevious == [meta EXCEPT !.previous = meta.manifest]
PublishResourceProof(r) == [meta EXCEPT !.resource = r]
PublishManifest(r) == [meta EXCEPT !.manifest = r]
PublishReferences(r) == [meta EXCEPT !.current = r,
                                     !.previous = IF r = NoRelease THEN NoRelease ELSE @]
PublishTombstone == [meta EXCEPT !.tombstone = TRUE]
RemoveStartupProof == [meta EXCEPT !.proof = NoProof]

StoreEffect(what) ==
    CASE what = "boundary-captured" -> PublishTrialBoundary
      [] what = "startup-proof"     -> PublishStartupProof
      [] what = "previous"          -> RotatePrevious
      [] what = "resource"          -> PublishResourceProof(ctl.rel)
      [] what = "manifest"          -> PublishManifest(ctl.rel)
      [] what = "references"        -> PublishReferences(ctl.rel)
      [] what = "tombstone"         -> PublishTombstone
      [] what = "no-proof"          -> RemoveStartupProof
      [] what = "no-references"     -> PublishReferences(NoRelease)
      [] what = "no-manifest"       -> PublishManifest(NoRelease)
      [] what = "no-resource"       -> PublishResourceProof(NoRelease)
      [] OTHER                      -> meta

WriteStore ==
    /\ At("store")
    /\ meta' = StoreEffect(Stp.what)
    /\ Advance(1)
    /\ UNCHANGED <<plat, os, proc, jrn, faults>>

\* The probe after `prepared`: nothing yet for an install, the committed resource
\* for the others.
ProbeMatches == os = IF ctl.op = "install" THEN Absent ELSE Final(meta.manifest)
\* The resource has not moved since the session read it.
PreState == os = ctl.before
TrialState == os = Trial(ctl.rel)
StartableTrial == TrialState /\ ~proc.up
StoppableHead == jrn.sub = "observed"
\* The stopped resource is the declared trial resource and also the one the
\* caller pins, which is the resource before the transaction.
LinuxStopPredicate == TrialState /\ PreState
WindowsStopPredicate == PreState /\ proc.up
BoundaryFree == meta.boundary = 0 /\ ~proc.up
\* The live process is the one this session's trial started.
SameEpoch == proc.up /\ proc.epoch = ctl.epoch
\* The receipt is this transaction's, of the same live process and with the log
\* cursor captured before the start.
FreshReceipt ==
    /\ meta.proof = [rel |-> ctl.rel, tx |-> ctl.tx, epoch |-> ctl.epoch]
    /\ SameEpoch /\ ~proc.logged
FinalActivation(resource) == FreshReceipt /\ os = resource
LogCursorCurrent == SameEpoch /\ meta.boundary = ctl.tx
\* The receipt re-read after an activation call on Windows.
FreshActivationReceipt == SameEpoch /\ os.owned /\ os.rel = ctl.rel

CheckHolds(what) ==
    CASE what = "probe"            -> ProbeMatches
      [] what = "pre-state"        -> PreState
      [] what = "not-running"      -> ~proc.up
      [] what = "trial-state"      -> TrialState
      [] what = "quiescent-trial"  -> StartableTrial
      [] what = "stoppable-head"   -> StoppableHead
      [] what = "stop-predicate"   -> IF plat = "linux" THEN LinuxStopPredicate
                                                        ELSE WindowsStopPredicate
      [] what = "boundary-free"    -> BoundaryFree
      [] what = "invocation"       -> SameEpoch
      [] what = "gate"             -> SameEpoch
      [] what = "trial-epoch"      -> FreshActivationReceipt
      [] what = "log-cursor"       -> LogCursorCurrent
      [] what = "fresh-receipt"    -> FreshReceipt
      [] what = "armed-activation" -> FinalActivation(Armed(ctl.rel))
      [] what = "final-activation" -> FinalActivation(Final(ctl.rel))
      [] OTHER                     -> FALSE

\* SERVICE_PENDING, SERVICE_TRIAL_NOT_OBSERVED and SERVICE_STARTUP_TIMEOUT that
\* are not ambiguous end the session as it is; every other failed check asks
\* for the manual-cleanup marker.  Some observations fail either way.
FailureModes(what) ==
    CASE what \in {"stoppable-head", "gate"}     -> {"plain"}
      [] what \in {"invocation", "log-cursor"}   -> {"plain", "manual"}
      [] OTHER                                   -> {"manual"}

PassCheck ==
    /\ At("check") /\ CheckHolds(Stp.what)
    /\ Advance(1)
    /\ UNCHANGED <<plat, os, proc, jrn, meta, faults>>

\* Mutant: the startup gate polls without a deadline and ignores a lost process.
FailCheckWithoutDeadline ==
    /\ At("check") /\ Stp.what # "gate" /\ ~CheckHolds(Stp.what)
    /\ \E m \in FailureModes(Stp.what) : ctl' = [ctl EXCEPT !.mode = m]
    /\ UNCHANGED <<plat, os, proc, jrn, meta, faults>>

\* The gate and the receipts also expire: the 60-second window may close.
FailCheck ==
    /\ At("check")
    /\ \/ ~CheckHolds(Stp.what)
       \/ Stp.what \in {"gate", "fresh-receipt", "log-cursor", "armed-activation",
                       "final-activation"}
    /\ \E m \in FailureModes(Stp.what) : ctl' = [ctl EXCEPT !.mode = m]
    /\ UNCHANGED <<plat, os, proc, jrn, meta, faults>>

SkipSteps ==
    /\ At("skip")
    /\ Advance(IF ~proc.up THEN Stp.n + 1 ELSE 1)
    /\ UNCHANGED <<plat, os, proc, jrn, meta, faults>>

\* A platform call, journal entry or metadata write that fails ambiguously: it
\* may have happened.  A nonzero systemctl start is not ambiguous.
CallFails ==
    /\ faults < MaxFault
    /\ \/ At("os") /\ os' \in {os, OsEffect(Stp.what, ctl.rel)} /\ UNCHANGED <<jrn, meta>>
       \/ At("store") /\ meta' \in {meta, StoreEffect(Stp.what)} /\ UNCHANGED <<os, jrn>>
       \/ /\ At("journal")
          /\ jrn' \in {jrn, IF jrn.headed THEN Entry ELSE Headed}
          /\ UNCHANGED <<os, meta>>
    /\ ctl' = [ctl EXCEPT !.mode = IF plat = "linux" /\ Stp = Os("start")
                                   THEN "plain" ELSE "manual"]
    /\ faults' = faults + 1
    /\ UNCHANGED <<plat, proc>>

\* #persistManual: the marker names a journal entry of the transaction, and a
\* probe comes first, which a torn tail stops on Linux and Windows completes.
\* The publication may fail too: then only the open journal is left.
MarkerPossible == jrn.tx = ctl.tx /\ (plat = "linux" => jrn.headed)

\* Mutant: the session goes on after the marker.
PersistManualAndGoOn ==
    /\ ctl.mode = "manual" /\ MarkerPossible
    /\ jrn' = Headed /\ meta' = [meta EXCEPT !.manual = TRUE]
    /\ ctl' = [ctl EXCEPT !.mode = "run", !.pc = @ + 1]
    /\ UNCHANGED <<plat, os, proc, faults>>

PersistManual ==
    /\ ctl.mode = "manual"
    /\ \/ /\ MarkerPossible
          /\ jrn' = Headed /\ meta' = [meta EXCEPT !.manual = TRUE]
          /\ UNCHANGED faults
       \/ /\ MarkerPossible /\ faults < MaxFault
          /\ faults' = faults + 1
          /\ UNCHANGED <<jrn, meta>>
       \/ ~MarkerPossible /\ UNCHANGED <<jrn, meta, faults>>
    /\ ctl' = NoSession
    /\ UNCHANGED <<plat, os, proc>>

EndPlain ==
    /\ ctl.mode = "plain"
    /\ ctl' = NoSession
    /\ UNCHANGED <<plat, os, proc, jrn, meta, faults>>

Finish ==
    /\ ctl.mode = "run" /\ ctl.pc > Len(Script(plat, ctl.op))
    /\ ctl' = NoSession
    /\ UNCHANGED <<plat, os, proc, jrn, meta, faults>>

-----------------------------------------------------------------------------
(* Recovery, as the shipped entry point runs it: with a fresh driver that  *)
(* holds no identity receipts.  Every outcome but these two is a refusal   *)
(* without a write (an install has no manifest to take its configuration   *)
(* from; a Windows candidate has no provisional publication receipt).      *)

RecoverablePhases == {"transition-marker-intent", "quiescent", "resource-published",
                      "trial-start-intent", "trial-start-observed", "starting",
                      "startup-observed", "activation-observed"}

\* recoverTrialState on Linux classifies manual-cleanup and the marker is
\* published; an action head is refused before the classification.
RecoverToManual ==
    /\ Idle /\ plat = "linux" /\ ~meta.manual
    /\ JournalOpen /\ jrn.headed /\ meta.manifest # NoRelease
    /\ jrn.phase \in RecoverablePhases /\ jrn.sub # "action"
    /\ meta' = [meta EXCEPT !.manual = TRUE]
    /\ UNCHANGED <<plat, os, proc, jrn, ctl, faults>>

\* The Windows driver completes a torn tail before it classifies an uninstall
\* as pending.
RecoverTornTail ==
    /\ Idle /\ plat = "win32" /\ ~jrn.headed
    /\ jrn.op = "uninstall" /\ meta.manifest # NoRelease
    /\ jrn' = Headed
    /\ UNCHANGED <<plat, os, proc, meta, ctl, faults>>

-----------------------------------------------------------------------------
(* The environment *)

Crash ==
    /\ ~Idle /\ faults < MaxFault
    /\ ctl' = NoSession
    /\ faults' = faults + 1
    /\ UNCHANGED <<plat, os, proc, jrn, meta>>

ProcessExit ==
    /\ proc.up /\ faults < MaxFault
    /\ proc' = [proc EXCEPT !.up = FALSE]
    /\ faults' = faults + 1
    /\ UNCHANGED <<plat, os, jrn, meta, ctl>>

\* The platform restarts a failed process when the loaded resource says so.
PlatformRestarts ==
    /\ ~proc.up /\ proc.rel # NoRelease /\ os.mgr.restart /\ faults < MaxFault
    /\ proc' = Running(os.mgr.rel)
    /\ faults' = faults + 1
    /\ UNCHANGED <<plat, os, jrn, meta, ctl>>

ProcessLogs ==
    /\ proc.up /\ ~proc.logged /\ ~Idle
    /\ proc' = [proc EXCEPT !.logged = TRUE]
    /\ UNCHANGED <<plat, os, jrn, meta, ctl, faults>>

Reboot ==
    /\ faults < MaxFault
    /\ os' = Loaded(os)
    /\ proc' = IF os.start = "auto" THEN Running(os.rel) ELSE Stopped
    /\ ctl' = NoSession
    /\ faults' = faults + 1
    /\ UNCHANGED <<plat, jrn, meta>>

SessionStep ==
    \/ AppendEntry \/ WriteHead \/ CallPlatform \/ WriteStore \/ PassCheck \/ FailCheck
    \/ SkipSteps \/ CallFails \/ PersistManual \/ EndPlain \/ Finish

Next ==
    \/ \E op \in Ops, r \in Releases : Admit(op, r)
    \/ SessionStep
    \/ RecoverToManual \/ RecoverTornTail
    \/ Crash \/ ProcessExit \/ PlatformRestarts \/ ProcessLogs \/ Reboot

Spec == Init /\ [][Next]_vars

-----------------------------------------------------------------------------
(* Properties *)

ResourceType ==
    [rel : MaybeRelease, owned : BOOLEAN, restart : BOOLEAN,
     start : {"off", "demand", "auto"}, mgr : [rel : MaybeRelease, restart : BOOLEAN]]

\* The shapes of the state; in particular the platform never holds an entry
\* that starts at boot or restarts by itself without the product's marker.
TypeOK ==
    /\ plat \in {"linux", "win32"}
    /\ os \in ResourceType
    /\ (os.start = "auto" \/ os.restart) => os.owned
    /\ proc \in [up : BOOLEAN, rel : MaybeRelease, epoch : Nat, logged : BOOLEAN]
    /\ jrn \in [tx : 0..MaxTx, op : Ops, rel : MaybeRelease, phase : Phases,
                sub : Substeps, headed : BOOLEAN]
    /\ meta.proof \in [rel : MaybeRelease, tx : 0..MaxTx, epoch : Nat]
    /\ {meta.manifest, meta.resource, meta.current, meta.previous} \subseteq MaybeRelease
    /\ meta.boundary \in 0..MaxTx /\ meta.tombstone \in BOOLEAN /\ meta.manual \in BOOLEAN
    /\ ctl.mode \in {"idle", "run", "plain", "manual"}
    /\ faults \in 0..MaxFault

\* A release the platform would start by itself, at boot or after a failure, has
\* passed the startup gate: its proof is durable (runStartupGate publishes the
\* proof before armFinalRestart and enableFinal may run).
OnlyProvenReleasesActivate ==
    /\ os.start = "auto" => meta.proof.rel = os.rel
    /\ os.mgr.restart => meta.proof.rel = os.mgr.rel

\* When the journal is closed the platform, the manifest, the resource proof, the
\* references and the startup proof name one release, or nothing is left of any
\* of them; whatever a crash interrupts, a disagreement is under an open journal.
ClosedJournalAgrees ==
    ~JournalOpen =>
        /\ {meta.manifest, meta.resource, meta.current, meta.proof.rel} = {meta.manifest}
        /\ os = IF meta.manifest = NoRelease THEN Absent ELSE Final(meta.manifest)

\* The platform's resource changes by the controller's hand only while the
\* current journal head is the durable action entry of its own transaction
\* (actionMutation; ADR 0006: an intent is persisted before every call).
OsChangesUnderAction ==
    [][(os'.rel # os.rel \/ os'.restart # os.restart \/ os'.start # os.start
          \/ os'.owned # os.owned)
        => jrn.headed /\ jrn.sub = "action" /\ jrn.tx = ctl.tx]_vars

\* Once the manual-cleanup marker is published nothing touches the platform's
\* resource, the journal or the metadata again until an operator does.
ManualCleanupAbsorbs ==
    [][meta.manual => /\ UNCHANGED <<jrn, meta>>
                      /\ os' \in {os, Loaded(os)}]_vars

\* Every session ends, whatever the process does: no check waits for ever.
SessionsEnd == ~Idle ~> Idle

\* What stopAndQuiesce's comment says of the resource it stops: the exact T state
\* that the transaction declares (the candidate's suppressed resource) is accepted.
TrialResourceMayStop ==
    At("check") /\ Stp.what = "stop-predicate" /\ os = Trial(ctl.rel)
        => CheckHolds("stop-predicate")

=============================================================================
