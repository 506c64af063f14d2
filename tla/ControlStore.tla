---------------------------- MODULE ControlStore ----------------------------
(***************************************************************************)
(* One record of the management control directory, as the adapter          *)
(* (native-control/src/adapter.js: withManagementLocks, ensure, write and  *)
(* its cleanup) writes it through the native calls of addon.cc:            *)
(* acquire_native_lock, ensure_control_directory, create_absent_exclusive, *)
(* create_exclusive_temp, replace_existing_atomic and the flushes.         *)
(* Management processes compete; calls fail; processes die; power is lost. *)
(*                                                                         *)
(* POSIX creates the lock file and the directory first and gives them      *)
(* their exact ACL afterwards; whoever finds one without it is refused.    *)
(***************************************************************************)
EXTENDS DurableDir

CONSTANTS
    Managers,      \* management processes
    MaxTemp,       \* temporary names there are (128 in the code)
    MaxWrites,     \* bound: writes begun
    MaxCtlFault    \* bound: failed calls, dead processes and power losses

VARIABLES
    cPlatform,  \* "posix" or "windows"
    cDir,       \* the lock and the control root, and the record in the root
    cDisk,      \* the directory states a power loss may leave
    cProc,      \* what each process is doing
    cLitter,    \* temporary names no process will remove any more
    cTold,      \* history: the last write reported as done
    cSpent      \* writes begun and faults so far

controlVars == <<cPlatform, cDir, cDisk, cProc, cLitter, cTold, cSpent>>

CtlNames == {"lock", "root", "record"}

MaxCtlId == 3 + Cardinality(Managers)
CtlObject == [id : 1..(MaxCtlId + MaxWrites), sealed : BOOLEAN]

\* An absent name is no object.
ASSUME ControlAssumption ==
    /\ IsFiniteSet(Managers) /\ NoFile \notin CtlObject
    /\ MaxTemp \in Nat /\ MaxWrites \in Nat /\ MaxCtlFault \in Nat

CtlIdle == [pc |-> "idle", fd |-> 0, new |-> 0]

CtlFresh ==
    LET used == {d["lock"].id : d \in {e \in cDisk \cup {cDir} :
                                          e["lock"] # NoFile}}
                  \cup {cProc[p].fd : p \in Managers}
    IN  CHOOSE i \in (1..MaxCtlId) \ used :
            \A j \in (1..MaxCtlId) \ used : i <= j

CtlGo(p, pc) == cProc' = [cProc EXCEPT ![p].pc = pc]
CtlKeep == UNCHANGED <<cDir, cDisk>>
\* The record is inside the root: committing it commits the root's own name.
CtlFlush == cDisk' = Flushed(cDisk, cDir', CtlNames)
CtlNoFlush == cDisk' = Recorded(cDisk, cDir', CtlNames)
CtlSound == UNCHANGED cSpent
CtlFault == /\ cSpent.faults < MaxCtlFault
            /\ cSpent' = [cSpent EXCEPT !.faults = @ + 1]
CtlRest == <<cPlatform, cLitter, cTold>>

-----------------------------------------------------------------------------
(* The lock.                                                               *)

\* An existing lock must already carry its ACL; on Windows it is born with it.
AcquireNativeLock(p) ==
    LET lock == [id |-> CtlFresh, sealed |-> cPlatform = "windows"] IN
    /\ cProc[p].pc = "idle" /\ cSpent.writes < MaxWrites
    /\ \/ /\ cDir["lock"] # NoFile /\ cDir["lock"].sealed /\ CtlKeep
          /\ cProc' = [cProc EXCEPT ![p].pc = "lock", ![p].fd = cDir["lock"].id]
       \/ /\ cDir["lock"] = NoFile
          /\ cDir' = Named(cDir, "lock", lock) /\ CtlNoFlush
          /\ cProc' = [cProc EXCEPT ![p].fd = lock.id,
                 ![p].pc = IF lock.sealed THEN "lock" ELSE "sealLock"]
    /\ CtlSound /\ UNCHANGED CtlRest

SealLock(p) ==
    /\ cProc[p].pc = "sealLock"
    /\ \/ /\ cDir' = [cDir EXCEPT !["lock"].sealed = TRUE]
          /\ CtlNoFlush /\ CtlGo(p, "lockNew") /\ CtlSound
       \/ CtlKeep /\ CtlFault /\ cProc' = [cProc EXCEPT ![p] = CtlIdle]
    /\ UNCHANGED CtlRest

CtlHolds(p) == cProc[p].pc \in {"locked", "sealRoot", "rooted", "create",
                                "temp", "replace", "flush", "release"}
CtlBusy(p) == \E q \in Managers \ {p} :
                  CtlHolds(q) /\ cProc[q].fd = cProc[p].fd

\* Taken at once or refused; a creator also flushes the lock's name.
TryLock(p) ==
    /\ cProc[p].pc \in {"lock", "lockNew"}
    /\ \/ /\ ~ CtlBusy(p) /\ CtlGo(p, "locked") /\ CtlSound /\ UNCHANGED cDir
          /\ IF cProc[p].pc = "lockNew" THEN CtlFlush
                                       ELSE UNCHANGED cDisk
       \/ /\ cProc[p].pc = "lockNew" /\ CtlKeep /\ CtlFault
          /\ cProc' = [cProc EXCEPT ![p] = CtlIdle]
       \/ /\ CtlBusy(p) /\ CtlKeep /\ CtlSound
          /\ cProc' = [cProc EXCEPT ![p] = CtlIdle]
    /\ UNCHANGED CtlRest

\* The lock file stays: only the lock on it is given up.
ReleaseLock(p) ==
    /\ cProc[p].pc = "release" /\ cProc' = [cProc EXCEPT ![p] = CtlIdle]
    /\ CtlKeep /\ CtlSound /\ UNCHANGED CtlRest

-----------------------------------------------------------------------------
(* The control directory.                                                  *)

EnsureControlDirectory(p) ==
    LET root == [id |-> 1, sealed |-> cPlatform = "windows"] IN
    /\ cProc[p].pc = "locked" /\ CtlSound
    /\ IF cDir["root"] = NoFile
       THEN /\ cDir' = Named(cDir, "root", root) /\ CtlNoFlush
            /\ CtlGo(p, IF root.sealed THEN "rooted" ELSE "sealRoot")
       ELSE /\ CtlKeep
            /\ CtlGo(p, IF cDir["root"].sealed THEN "rooted" ELSE "release")
    /\ UNCHANGED CtlRest

SealRoot(p) ==
    /\ cProc[p].pc = "sealRoot"
    /\ \/ /\ cDir' = [cDir EXCEPT !["root"].sealed = TRUE]
          /\ \/ CtlFlush /\ CtlGo(p, "rooted") /\ CtlSound
             \/ CtlNoFlush /\ CtlGo(p, "release") /\ CtlFault
       \/ CtlKeep /\ CtlFault /\ CtlGo(p, "release")
    /\ UNCHANGED CtlRest

-----------------------------------------------------------------------------
(* write: absent records are created, present ones replaced.               *)

BeginWrite(p) ==
    /\ cProc[p].pc = "rooted" /\ cSpent.writes < MaxWrites
    /\ cSpent' = [cSpent EXCEPT !.writes = @ + 1]
    /\ cProc' = [cProc EXCEPT ![p].new = cSpent.writes + 1,
          ![p].pc = IF cDir["record"] = NoFile THEN "create" ELSE "temp"]
    /\ CtlKeep /\ UNCHANGED CtlRest

Record(p) == [id |-> cProc[p].new, sealed |-> TRUE]

\* The file is sealed and flushed under a private name and then linked; once
\* it is linked a failed flush leaves it there, and the write ambiguous.
CreateAbsentPosix(p) ==
    /\ cPlatform = "posix" /\ cProc[p].pc = "create"
    /\ \/ /\ cDir["record"] = NoFile /\ cDir' = Named(cDir, "record", Record(p))
          /\ \/ CtlFlush /\ CtlGo(p, "flush") /\ CtlSound
             \/ CtlNoFlush /\ CtlGo(p, "release") /\ CtlFault
       \/ CtlKeep /\ CtlGo(p, "release") /\ CtlFault
    /\ UNCHANGED CtlRest

\* Renamed without replacing, reopened, verified and flushed.
CreateAbsentWindows(p) ==
    /\ cPlatform = "windows" /\ cProc[p].pc = "create"
    /\ \/ /\ cDir["record"] = NoFile /\ cDir' = Named(cDir, "record", Record(p))
          /\ \/ CtlFlush /\ CtlGo(p, "flush") /\ CtlSound
             \/ CtlNoFlush /\ CtlGo(p, "release") /\ CtlFault
       \/ CtlKeep /\ CtlGo(p, "release") /\ CtlFault
    /\ UNCHANGED CtlRest

\* Temporary names are numbered; those that died processes left are taken.
CreateExclusiveTemp(p) ==
    /\ cProc[p].pc = "temp" /\ CtlKeep
    /\ \/ /\ cLitter < MaxTemp /\ CtlGo(p, "replace") /\ CtlSound
          /\ UNCHANGED cLitter
       \/ /\ cLitter < MaxTemp /\ CtlGo(p, "release") /\ CtlFault
          /\ cLitter' \in {cLitter, cLitter + 1}
       \/ /\ cLitter = MaxTemp /\ CtlGo(p, "release") /\ CtlSound
          /\ UNCHANGED cLitter
    /\ UNCHANGED <<cPlatform, cTold>>

\* A replacement that failed before the rename removes its temporary; one
\* that fails after it is ambiguous, with the new record in place.
ReplaceFailed(p) ==
    /\ CtlGo(p, "release") /\ CtlFault
    /\ \/ CtlKeep /\ cLitter' \in {cLitter, cLitter + 1}
       \/ /\ cDir' = Named(cDir, "record", Record(p)) /\ CtlNoFlush
          /\ UNCHANGED cLitter

\* Mutant: the old record is unlinked before the new one takes its name.
ReplaceExistingPosixUnlinking(p) ==
    LET gone == Unlinked(cDir, "record") IN
    /\ cPlatform = "posix" /\ cProc[p].pc = "replace"
    /\ \/ /\ cDir' = Named(gone, "record", Record(p)) /\ CtlFlush
          /\ CtlGo(p, "flush") /\ CtlSound /\ UNCHANGED cLitter
       \/ /\ cDir' = gone /\ CtlNoFlush /\ CtlFault
          /\ CtlGo(p, "release") /\ UNCHANGED cLitter
    /\ UNCHANGED <<cPlatform, cTold>>

\* Both names are checked twice against what was opened, and then renamed.
ReplaceExistingPosix(p) ==
    /\ cPlatform = "posix" /\ cProc[p].pc = "replace"
    /\ \/ /\ cDir' = Named(cDir, "record", Record(p)) /\ CtlFlush
          /\ CtlGo(p, "flush") /\ CtlSound /\ UNCHANGED cLitter
       \/ ReplaceFailed(p)
    /\ UNCHANGED <<cPlatform, cTold>>

ReplaceExistingWindows(p) ==
    /\ cPlatform = "windows" /\ cProc[p].pc = "replace"
    /\ \/ /\ cDir' = Named(cDir, "record", Record(p)) /\ CtlFlush
          /\ CtlGo(p, "flush") /\ CtlSound /\ UNCHANGED cLitter
       \/ ReplaceFailed(p)
    /\ UNCHANGED <<cPlatform, cTold>>

\* File and directory are flushed once more before the write is reported.
FlushWrite(p) ==
    /\ cProc[p].pc = "flush" /\ CtlGo(p, "release")
    /\ \/ /\ UNCHANGED cDir /\ CtlFlush /\ CtlSound
          /\ cTold' = cProc[p].new
       \/ CtlKeep /\ CtlFault /\ UNCHANGED cTold
    /\ UNCHANGED <<cPlatform, cLitter>>

-----------------------------------------------------------------------------
ManagerDies(p) ==
    /\ cProc[p].pc # "idle" /\ CtlFault /\ CtlKeep
    /\ cProc' = [cProc EXCEPT ![p] = CtlIdle]
    /\ cLitter' = IF cProc[p].pc = "replace" THEN cLitter + 1 ELSE cLitter
    /\ UNCHANGED <<cPlatform, cTold>>

ControlPowerLoss ==
    /\ CtlFault /\ cDir' \in cDisk /\ cDisk' = {cDir'}
    /\ cLitter' = cLitter + Cardinality(
                      {p \in Managers : cProc[p].pc = "replace"})
    /\ cProc' = [p \in Managers |-> CtlIdle] /\ UNCHANGED <<cPlatform, cTold>>

ControlInit ==
    /\ cPlatform \in {"posix", "windows"}
    /\ cDir = [n \in CtlNames |-> NoFile] /\ cDisk = {cDir}
    /\ cProc = [p \in Managers |-> CtlIdle]
    /\ cLitter = 0 /\ cTold = 0 /\ cSpent = [writes |-> 0, faults |-> 0]

ControlNext ==
    \/ \E p \in Managers :
        \/ AcquireNativeLock(p) \/ SealLock(p) \/ TryLock(p) \/ ReleaseLock(p)
        \/ EnsureControlDirectory(p) \/ SealRoot(p) \/ BeginWrite(p)
        \/ CreateAbsentPosix(p) \/ CreateAbsentWindows(p)
        \/ CreateExclusiveTemp(p) \/ ReplaceExistingPosix(p)
        \/ ReplaceExistingWindows(p) \/ FlushWrite(p) \/ ManagerDies(p)
    \/ ControlPowerLoss

ControlSpec == ControlInit /\ [][ControlNext]_controlVars

-----------------------------------------------------------------------------
(* Properties.                                                             *)

\* The names hold objects, and the present directory is a state a power loss
\* may leave.
ControlTypeOK ==
    /\ cPlatform \in {"posix", "windows"}
    /\ cDir \in [CtlNames -> CtlObject \cup {NoFile}]
    /\ cDisk \subseteq [CtlNames -> CtlObject \cup {NoFile}] /\ cDir \in cDisk
    /\ cLitter \in Nat /\ cTold \in 0..MaxWrites

\* AcquireNativeLock admits one manager at a time, also while the lock file is
\* being created and sealed and after its creator died.
ControlLockExclusive ==
    \A p, q \in Managers : CtlHolds(p) /\ CtlHolds(q) => p = q

\* A record the management runtime was told is written is there, in it or in a
\* later version, whatever a failed call, a dead process or a power loss leaves.
ToldRecordStands ==
    cTold > 0 => \A d \in cDisk \cup {cDir} :
        /\ d["root"] # NoFile /\ d["record"] # NoFile
        /\ d["record"].id >= cTold

\* What the management runtime relies on: one writer at a time, and no record
\* lost that was reported (adapter.js withManagementLocks and write).
ControlKeepsTold == ControlTypeOK /\ ControlLockExclusive /\ ToldRecordStands
=============================================================================
