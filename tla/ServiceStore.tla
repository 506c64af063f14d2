---------------------------- MODULE ServiceStore ----------------------------
(***************************************************************************)
(* The native service store (native-control/src/addon.cc): the container   *)
(* and the control root with the witnesses that name their identities, the *)
(* lock, the atomic publication of a record, and the streamed artifact     *)
(* that is sealed and published as a release.  Installer processes         *)
(* compete; calls fail; processes die; power is lost.                      *)
(*                                                                         *)
(* Nothing is repaired here: once a call has written anything it either    *)
(* completes or reports SERVICE_MANUAL_CLEANUP, and whoever finds an       *)
(* object without its witness, or a witness without its object, does so.   *)
(*                                                                         *)
(* A flush of a directory commits every name changed before it, as one     *)
(* journal does; the bytes of the artifact's file are not ordered with it. *)
(***************************************************************************)
EXTENDS DurableDir

CONSTANTS
    Installers,     \* processes that use the store
    Chunks,         \* chunks of the artifact
    MaxSvcOpen,     \* bound: stores opened
    MaxPublish,     \* bound: records published
    MaxSvcFault     \* bound: failed calls, dead processes and power losses

VARIABLES
    sPlatform,  \* "posix" or "windows"
    sDir,       \* the names of the store
    sDisk,      \* the directory states a power loss may leave
    sProc,      \* what each process is doing
    sTold,      \* history: the last record reported as published
    sManual,    \* history: a call reported manual cleanup
    sSpent      \* stores opened, records published and faults so far

serviceVars == <<sPlatform, sDir, sDisk, sProc, sTold, sManual, sSpent>>

Data == {"file"}
Directories == {"pending", "container", "witness", "root", "rootWitness",
                "lock", "lockWitness", "record", "stage", "release"}
SvcNames == Data \cup Directories

\* A witness is "of" the identity it names, a record of its publication, the
\* artifact's file of the chunks written; an external container is of itself.
\* An object is whole once its ACL and bytes are right; a directory or file of
\* a release is sealed.
SvcObject == [id : Nat, of : Nat, whole : BOOLEAN, sealed : BOOLEAN]

ASSUME ServiceAssumption ==
    /\ NoFile \notin SvcObject
    /\ Chunks \in Nat \ {0} /\ MaxSvcOpen \in Nat
    /\ MaxPublish \in Nat /\ MaxSvcFault \in Nat

SvcIdle == [pc |-> "idle", half |-> FALSE, create |-> FALSE, wrote |-> FALSE,
            fd |-> 0, mode |-> "none", before |-> NoFile]

\* An identity that is not in use: a new file is no other file.
SvcFresh ==
    LET used == Identities(sDisk \cup {sDir})
    IN  CHOOSE i \in 1..(Cardinality(used) + 1) : i \notin used
SvcNew(of, whole) ==
    [id |-> SvcFresh, of |-> of, whole |-> whole, sealed |-> FALSE]

SvcSet(p, s) == sProc' = [sProc EXCEPT ![p] = s]
SvcGo(p, pc) == sProc' = [sProc EXCEPT ![p].pc = pc]
SvcKeep == UNCHANGED <<sDir, sDisk>>
SvcFlush == sDisk' = Flushed(sDisk, sDir', Directories)
SvcNoFlush == sDisk' = Recorded(sDisk, sDir', Directories)
SvcSound == UNCHANGED sSpent
SvcFault == /\ sSpent.faults < MaxSvcFault
            /\ sSpent' = [sSpent EXCEPT !.faults = @ + 1]
SvcQuiet == UNCHANGED <<sPlatform, sTold, sManual>>

\* A call that does not succeed is refused or reports manual cleanup; the
\* process then closes what it holds.
Refused(p) == SvcSet(p, SvcIdle) /\ SvcQuiet
ManualCleanup(p) ==
    /\ SvcSet(p, SvcIdle) /\ sManual' = TRUE /\ UNCHANGED <<sPlatform, sTold>>
FailedBy(p) == IF sProc[p].wrote THEN ManualCleanup(p) ELSE Refused(p)

\* The witness w names the object n, and both are exact.
Witnessed(d, w, n) ==
    /\ d[w] # NoFile /\ d[n] # NoFile /\ d[w].whole /\ d[n].whole
    /\ d[w].of = d[n].id

-----------------------------------------------------------------------------
(* Creating an object: its name, then its ACL, bytes and both flushes.     *)

CreateObject(p, at, n, of, next) ==
    /\ sProc[p].pc = at /\ ~ sProc[p].half
    /\ \/ /\ sDir[n] = NoFile
          /\ sDir' = Named(sDir, n, SvcNew(of, FALSE)) /\ SvcNoFlush
          /\ SvcSet(p, [sProc[p] EXCEPT !.half = TRUE, !.wrote = TRUE])
          /\ SvcSound /\ SvcQuiet
       \/ sDir[n] # NoFile /\ SvcKeep /\ SvcSound /\ FailedBy(p)
       \/ SvcFault /\ SvcKeep /\ FailedBy(p)

CompleteObject(p, at, n, next) ==
    LET done == [sDir EXCEPT ![n].whole = TRUE] IN
    /\ sProc[p].pc = at /\ sProc[p].half
    /\ \/ /\ sDir' = done /\ SvcFlush /\ SvcSound /\ SvcQuiet
          /\ SvcSet(p, [sProc[p] EXCEPT !.half = FALSE, !.pc = next,
                 !.fd = IF n = "lock" THEN sDir["lock"].id ELSE @])
       \/ sDir' \in {sDir, done} /\ SvcNoFlush /\ SvcFault /\ ManualCleanup(p)

Make(p, at, n, of, next) ==
    CreateObject(p, at, n, of, next) \/ CompleteObject(p, at, n, next)

-----------------------------------------------------------------------------
(* open_service_root: the container, and the control root inside it.       *)

OpenServiceRoot(p) ==
    /\ sProc[p].pc = "idle" /\ sSpent.opens < MaxSvcOpen
    /\ sSpent' = [sSpent EXCEPT !.opens = @ + 1]
    /\ \E create \in BOOLEAN :
           SvcSet(p, [SvcIdle EXCEPT !.pc = "container", !.create = create])
    /\ SvcKeep /\ SvcQuiet

External(d) == d["container"] # NoFile /\ d["container"].of = d["container"].id

\* A container that is not the store's own and shows no trace of a store.
Adoptable(d) ==
    /\ External(d) /\ d["witness"] = NoFile /\ d["pending"] = NoFile
    /\ d["root"] = NoFile /\ d["rootWitness"] = NoFile

\* A container needs its witness; an adoptable one is registered as external;
\* an absent one is created.
PrepareServiceBaseContainer(p) ==
    LET vacant == \A n \in {"container", "witness", "pending"} :
                      sDir[n] = NoFile
    IN
    /\ sProc[p].pc = "container" /\ SvcKeep /\ SvcSound
    /\ CASE Witnessed(sDir, "witness", "container") ->
              SvcGo(p, "rootLook") /\ SvcQuiet
         [] Adoptable(sDir) /\ sProc[p].create ->
              SvcGo(p, "external") /\ SvcQuiet
         [] vacant /\ sProc[p].create -> SvcGo(p, "pending") /\ SvcQuiet
         [] vacant /\ ~ sProc[p].create -> Refused(p)
         [] OTHER -> ManualCleanup(p)

\* Everything must still be absent when the pending directory is made.
CreatePendingContainer(p) ==
    \/ /\ sDir["container"] = NoFile /\ sDir["witness"] = NoFile
       /\ Make(p, "pending", "pending", 0, "witness")
    \/ /\ sProc[p].pc = "pending" /\ ~ sProc[p].half
       /\ sDir["container"] # NoFile \/ sDir["witness"] # NoFile
       /\ SvcKeep /\ SvcSound /\ ManualCleanup(p)

WriteContainerWitness(p) ==
    /\ sProc[p].pc = "witness" => sDir["pending"] # NoFile
    /\ Make(p, "witness", "witness", sDir["pending"].id, "rename")

PublishContainer(p) ==
    LET moved == Moved(sDir, "pending", "container") IN
    /\ sProc[p].pc = "rename" /\ sDir["container"] = NoFile
    /\ \/ /\ sDir' = moved /\ SvcFlush /\ SvcSound
          /\ SvcGo(p, "rootLook") /\ SvcQuiet
       \/ sDir' \in {sDir, moved} /\ SvcNoFlush /\ SvcFault /\ ManualCleanup(p)

RegisterExternalContainer(p) ==
    Make(p, "external", "witness", sDir["container"].id, "rootLook")

\* An existing root is opened by its exact witness, and never created again.
OpenExistingRoot(p) ==
    CASE sProc[p].create -> FailedBy(p)
      [] Witnessed(sDir, "rootWitness", "root") /\ ~ sProc[p].create ->
           SvcGo(p, "open") /\ SvcQuiet
      [] OTHER -> ManualCleanup(p)

\* The root and its witness are both there or both absent.
OpenControlRoot(p) ==
    LET missing == {n \in {"root", "rootWitness"} : sDir[n] = NoFile} IN
    /\ sProc[p].pc = "rootLook" /\ SvcKeep /\ SvcSound
    /\ CASE Cardinality(missing) = 2 /\ sProc[p].create ->
              SvcGo(p, "root") /\ SvcQuiet
         [] Cardinality(missing) = 2 /\ ~ sProc[p].create -> Refused(p)
         [] missing = {} -> OpenExistingRoot(p)
         [] OTHER -> ManualCleanup(p)

CreateControlRoot(p) == Make(p, "root", "root", 0, "rootWitness")
WriteRootWitness(p) ==
    Make(p, "rootWitness", "rootWitness", sDir["root"].id, "open")

-----------------------------------------------------------------------------
(* The lock.                                                               *)

RevalidateServiceStoreHandle ==
    /\ Witnessed(sDir, "witness", "container")
    /\ Witnessed(sDir, "rootWitness", "root")

AcquireServiceLock(p) ==
    LET vacant == sDir["lock"] = NoFile /\ sDir["lockWitness"] = NoFile
    IN
    /\ sProc[p].pc = "open" /\ SvcKeep /\ SvcSound
    /\ \E mode \in {"shared", "exclusive"} :
         CASE ~ RevalidateServiceStoreHandle -> ManualCleanup(p)
           [] vacant /\ mode = "shared" -> Refused(p)
           [] vacant /\ mode = "exclusive" -> SvcQuiet /\
                SvcSet(p, [sProc[p] EXCEPT !.pc = "lock", !.mode = mode,
                                           !.wrote = TRUE])
           [] Witnessed(sDir, "lockWitness", "lock") -> SvcQuiet /\
                SvcSet(p, [sProc[p] EXCEPT !.pc = "flock", !.mode = mode,
                                           !.fd = sDir["lock"].id])
           [] OTHER -> ManualCleanup(p)

CreateLock(p) == Make(p, "lock", "lock", 0, "lockWitness")
WriteLockWitness(p) ==
    /\ sProc[p].pc = "lockWitness" => sDir["lock"] # NoFile
    /\ Make(p, "lockWitness", "lockWitness", sDir["lock"].id, "flock")

HeldPcs == {"held", "candidate", "publish", "settle", "drop", "stage",
            "stream"}
SvcHolds(p) == sProc[p].pc \in HeldPcs
LockConflict(p) ==
    \E q \in Installers \ {p} :
        /\ SvcHolds(q) /\ sProc[q].fd = sProc[p].fd
        /\ "exclusive" \in {sProc[p].mode, sProc[q].mode}

\* Taken at once or SERVICE_PENDING, and revalidated.
LockService(p) ==
    /\ sProc[p].pc = "flock" /\ SvcKeep
    /\ \/ ~ LockConflict(p) /\ SvcSound /\ SvcQuiet
          /\ SvcSet(p, [sProc[p] EXCEPT !.pc = "held", !.wrote = FALSE])
       \/ LockConflict(p) /\ SvcSound /\ Refused(p)
       \/ SvcFault /\ Refused(p)

CloseServiceHandle(p) ==
    /\ sProc[p].pc \in {"open", "held"} /\ SvcSet(p, SvcIdle)
    /\ SvcKeep /\ SvcSound /\ SvcQuiet

ServiceLockAuthorizes(p) ==
    /\ sProc[p].pc = "held" /\ sProc[p].mode = "exclusive"
    /\ RevalidateServiceStoreHandle

-----------------------------------------------------------------------------
(* publish_service_file_atomic.                                            *)

PublishServiceFileAtomic(p) ==
    /\ ServiceLockAuthorizes(p) /\ sSpent.published < MaxPublish
    /\ SvcKeep /\ SvcQuiet
    /\ sSpent' = [sSpent EXCEPT !.published = @ + 1]
    /\ SvcSet(p, [sProc[p] EXCEPT !.pc = "candidate",
                                  !.before = sDir["record"]])

\* The candidate is written whole under a random name; one that is not is
\* left where it is.
CreateCandidate(p) ==
    /\ sProc[p].pc = "candidate" /\ SvcKeep
    /\ \/ /\ SvcSound /\ SvcQuiet
          /\ SvcGo(p, "publish")
       \/ SvcFault /\ Refused(p)
       \/ SvcFault /\ ManualCleanup(p)

\* A rename that did not happen: the candidate is removed again if nothing
\* else changed.  ReplaceFileW may also have moved the old record aside.
UnpublishedCandidate(p) ==
    /\ SvcFault
    /\ \/ UNCHANGED sDir /\ SvcFlush /\ Refused(p)
       \/ SvcKeep /\ ManualCleanup(p)
       \/ /\ sPlatform = "windows" /\ sProc[p].before # NoFile
          /\ sDir' = Unlinked(sDir, "record") /\ SvcNoFlush /\ ManualCleanup(p)

\* Exchanged with the record it replaces, or renamed where none was.
PublishCandidate(p) ==
    /\ sProc[p].pc = "publish"
    /\ \/ /\ sDir' = Named(sDir, "record", SvcNew(sSpent.published, TRUE))
          /\ SvcNoFlush /\ SvcSound /\ SvcQuiet
          /\ SvcGo(p, "settle")
       \/ UnpublishedCandidate(p)

Published(p) ==
    /\ sTold' = sDir["record"].of /\ UNCHANGED <<sPlatform, sManual>>
    /\ SvcSet(p, [sProc[p] EXCEPT !.pc = "held", !.before = NoFile])

\* Mutant: the record is reported before its directory is flushed.
SettlePublishedUnflushed(p) ==
    /\ sProc[p].pc = "settle" /\ SvcKeep /\ SvcSound
    /\ IF sProc[p].before = NoFile THEN Published(p)
       ELSE SvcGo(p, "drop") /\ SvcQuiet

\* Read back and flushed; then the displaced record goes.
SettlePublished(p) ==
    /\ sProc[p].pc = "settle"
    /\ \/ /\ UNCHANGED sDir /\ SvcFlush /\ SvcSound
          /\ IF sProc[p].before = NoFile THEN Published(p)
             ELSE SvcGo(p, "drop") /\ SvcQuiet
       \/ SvcKeep /\ SvcFault /\ ManualCleanup(p)

RemoveServiceStoreNamedFile(p) ==
    /\ sProc[p].pc = "drop"
    /\ \/ UNCHANGED sDir /\ SvcFlush /\ SvcSound /\ Published(p)
       \/ SvcKeep /\ SvcFault /\ ManualCleanup(p)

-----------------------------------------------------------------------------
(* The artifact: streamed into a staging directory, sealed and published.  *)

OpenServiceDirectory(p) ==
    \/ /\ ServiceLockAuthorizes(p)
       /\ sDir["stage"] = NoFile /\ sDir["release"] = NoFile
       /\ SvcGo(p, "stage") /\ SvcKeep /\ SvcSound /\ SvcQuiet
    \/ Make(p, "stage", "stage", 0, "held")

StagedFor(p) == /\ ServiceLockAuthorizes(p) /\ sDir["stage"] # NoFile
                /\ sDir["stage"].whole /\ ~ sDir["stage"].sealed

BeginServiceArtifactWrite(p) ==
    LET begun == Named(sDir, "file", SvcNew(0, TRUE)) IN
    /\ StagedFor(p)
    /\ \/ /\ sDir["file"] = NoFile /\ sDir' = begun /\ SvcSound
          /\ sDisk' = Flushed(sDisk, sDir', Data)
          /\ SvcGo(p, "stream") /\ SvcQuiet
       \/ sDir["file"] # NoFile /\ SvcKeep /\ SvcSound /\ Refused(p)
       \/ /\ sDir["file"] = NoFile /\ sDir' = begun /\ SvcFault
          /\ sDisk' = Recorded(sDisk, sDir', Data) /\ ManualCleanup(p)

\* One more chunk, with the right bytes or others.
Appended(file, right) == [file EXCEPT !.of = @ + 1, !.whole = @ /\ right]

\* The bytes may not be the ones the caller expects; a chunk that was not
\* written completely poisons the stream.
WriteServiceArtifactChunk(p) ==
    /\ sProc[p].pc = "stream" /\ sDir["file"].of < Chunks
    /\ \/ \E right \in BOOLEAN :
             /\ sDir' = [sDir EXCEPT !["file"] = Appended(@, right)]
             /\ sDisk' = Recorded(sDisk, sDir', Data)
             /\ SvcGo(p, "stream") /\ SvcSound /\ SvcQuiet
       \/ /\ sDir' = [sDir EXCEPT !["file"].whole = FALSE]
          /\ sDisk' = Recorded(sDisk, sDir', Data)
          /\ SvcFault /\ ManualCleanup(p)

\* Mutant: the final ACL is set before the bytes are flushed.
FinishServiceArtifactWriteSealing(p) ==
    LET final == [sDir EXCEPT !["file"].sealed = TRUE] IN
    /\ sProc[p].pc = "stream"
    /\ sDir["file"].of = Chunks /\ sDir["file"].whole /\ sDir' = final
    /\ \/ /\ sDisk' = Flushed(sDisk, sDir', Data)
          /\ SvcGo(p, "held") /\ SvcSound /\ SvcQuiet
       \/ /\ sDisk' = Recorded(sDisk, sDir', Data)
          /\ SvcFault /\ ManualCleanup(p)

\* Size and digest decide; the bytes are flushed before the file gets its
\* final ACL, and everything once more after it.
FinishServiceArtifactWrite(p) ==
    LET file == sDir["file"]
        exact == file.of = Chunks /\ file.whole
        final == [sDir EXCEPT !["file"].sealed = TRUE]
    IN
    /\ sProc[p].pc = "stream"
    /\ \/ /\ exact /\ sDir' = final /\ sDisk' = Flushed(sDisk, sDir', Data)
          /\ SvcGo(p, "held") /\ SvcSound /\ SvcQuiet
       \/ ~ exact /\ SvcKeep /\ SvcSound /\ Refused(p)
       \/ exact /\ SvcKeep /\ SvcFault /\ ManualCleanup(p)
       \/ /\ exact /\ sDir' = final /\ SvcFault
          /\ sDisk' = Recorded(Flushed(sDisk, sDir, Data), sDir', Data)
          /\ ManualCleanup(p)

\* A subtree is sealed when it has files and every one of them is.
VerifyCompleteSealedServiceSubtree ==
    sDir["file"] # NoFile /\ sDir["file"].sealed

SealServiceDirectory(p) ==
    LET sealed == [sDir EXCEPT !["stage"].sealed = TRUE] IN
    /\ StagedFor(p)
    /\ IF ~ VerifyCompleteSealedServiceSubtree
       THEN SvcKeep /\ SvcSound /\ Refused(p)
       ELSE \/ /\ sDir' = sealed /\ SvcFlush /\ SvcSound
               /\ SvcGo(p, "held") /\ SvcQuiet
            \/ /\ sDir' \in {sDir, sealed} /\ SvcNoFlush
               /\ SvcFault /\ ManualCleanup(p)

PublishServiceDirectoryNoReplace(p) ==
    LET moved == Moved(sDir, "stage", "release") IN
    /\ ServiceLockAuthorizes(p) /\ sDir["stage"] # NoFile
    /\ sDir["stage"].sealed /\ sDir["release"] = NoFile
    /\ \/ ~ VerifyCompleteSealedServiceSubtree /\ SvcKeep /\ SvcSound
          /\ Refused(p)
       \/ /\ VerifyCompleteSealedServiceSubtree
          /\ sDir' = moved /\ SvcFlush /\ SvcSound
          /\ SvcGo(p, "held") /\ SvcQuiet
       \/ SvcKeep /\ SvcFault /\ Refused(p)
       \/ /\ VerifyCompleteSealedServiceSubtree
          /\ sDir' = moved /\ SvcNoFlush /\ SvcFault /\ ManualCleanup(p)

\* A staged file, then its empty directory, are renamed aside and removed.
RemoveServiceArtifactFileExact(p) ==
    LET gone == Unlinked(sDir, "file") IN
    /\ ServiceLockAuthorizes(p) /\ sDir["stage"] # NoFile
    /\ sDir["file"] # NoFile /\ sDir' = gone
    /\ \/ /\ sDisk' = Flushed(sDisk, sDir', Data) /\ SvcSound
          /\ SvcGo(p, "held") /\ SvcQuiet
       \/ /\ sDisk' = Recorded(sDisk, sDir', Data)
          /\ SvcFault /\ ManualCleanup(p)

RemoveServiceObjectExact(p) ==
    LET gone == Unlinked(sDir, "stage") IN
    /\ ServiceLockAuthorizes(p) /\ sDir["stage"] # NoFile
    /\ \/ sDir["file"] # NoFile /\ SvcKeep /\ SvcSound /\ Refused(p)
       \/ /\ sDir["file"] = NoFile /\ sDir' = gone
          /\ \/ SvcFlush /\ SvcSound /\ SvcGo(p, "held") /\ SvcQuiet
             \/ SvcNoFlush /\ SvcFault /\ ManualCleanup(p)

-----------------------------------------------------------------------------
InstallerDies(p) ==
    /\ sProc[p].pc # "idle" /\ SvcFault /\ SvcKeep /\ SvcQuiet
    /\ SvcSet(p, SvcIdle)

ServicePowerLoss ==
    /\ SvcFault /\ sDir' \in sDisk /\ sDisk' = {sDir'} /\ SvcQuiet
    /\ sProc' = [p \in Installers |-> SvcIdle]

ServiceInit ==
    /\ sPlatform \in {"posix", "windows"}
    /\ \E external \in {NoFile, [id |-> 1, of |-> 1, whole |-> TRUE,
                                 sealed |-> FALSE]} :
           sDir = [n \in SvcNames |->
                      IF n = "container" THEN external ELSE NoFile]
    /\ sDisk = {sDir} /\ sProc = [p \in Installers |-> SvcIdle] /\ sTold = 0
    /\ sManual = FALSE
    /\ sSpent = [opens |-> 0, published |-> 0, faults |-> 0]

RootStep(p) ==
    \/ OpenServiceRoot(p) \/ PrepareServiceBaseContainer(p)
    \/ CreatePendingContainer(p) \/ WriteContainerWitness(p)
    \/ PublishContainer(p) \/ RegisterExternalContainer(p)
    \/ OpenControlRoot(p) \/ CreateControlRoot(p) \/ WriteRootWitness(p)

LockStep(p) ==
    \/ AcquireServiceLock(p) \/ CreateLock(p) \/ WriteLockWitness(p)
    \/ LockService(p) \/ CloseServiceHandle(p)

RecordStep(p) ==
    \/ PublishServiceFileAtomic(p) \/ CreateCandidate(p) \/ PublishCandidate(p)
    \/ SettlePublished(p) \/ RemoveServiceStoreNamedFile(p)

ArtifactStep(p) ==
    \/ OpenServiceDirectory(p) \/ BeginServiceArtifactWrite(p)
    \/ WriteServiceArtifactChunk(p) \/ FinishServiceArtifactWrite(p)
    \/ SealServiceDirectory(p) \/ PublishServiceDirectoryNoReplace(p)
    \/ RemoveServiceArtifactFileExact(p) \/ RemoveServiceObjectExact(p)

ServiceNext ==
    \/ \E p \in Installers :
        RootStep(p) \/ LockStep(p) \/ RecordStep(p) \/ ArtifactStep(p)
          \/ InstallerDies(p)
    \/ ServicePowerLoss

ServiceSpec == ServiceInit /\ [][ServiceNext]_serviceVars

-----------------------------------------------------------------------------
(* Properties.                                                             *)

\* The names hold objects, and the present directories are a state a power
\* loss may leave.
ServiceTypeOK ==
    /\ sPlatform \in {"posix", "windows"}
    /\ sDir \in [SvcNames -> SvcObject \cup {NoFile}] /\ sDir \in sDisk
    /\ sDisk \subseteq [SvcNames -> SvcObject \cup {NoFile}]
    /\ sTold \in 0..MaxPublish /\ sManual \in BOOLEAN

\* The exclusive holder of the lock is alone, also while a lock is created,
\* after its creator died and after a power loss.
ServiceLockExclusive ==
    \A p, q \in Installers :
        SvcHolds(p) /\ SvcHolds(q) /\ sProc[p].mode = "exclusive" => p = q

\* Directory states in which open_service_root would build a new store, and
\* ones it accepts.
Vacant(d) ==
    \/ \A n \in {"container", "witness", "pending"} : d[n] = NoFile
    \/ Adoptable(d)
    \/ /\ Witnessed(d, "witness", "container")
       /\ d["root"] = NoFile /\ d["rootWitness"] = NoFile
Accepted(d) == /\ Witnessed(d, "witness", "container")
               /\ Witnessed(d, "rootWitness", "root")

\* A store that reported a record as published never starts over: whatever
\* died, failed or lost power, the next open_service_root finds a state it
\* refuses as manual cleanup, or that record or a later one.  Only ReplaceFileW
\* may lose it, and that is reported as manual cleanup.
ServiceNeverForgets ==
    sTold > 0 => \A d \in sDisk \cup {sDir} :
        /\ ~ Vacant(d)
        /\ Accepted(d) /\ (sPlatform = "windows" => ~ sManual) =>
              d["record"] # NoFile /\ d["record"].of >= sTold

\* A release that has its name is complete: sealed, with every byte that the
\* digest covered, in memory and in every state a power loss may leave, also
\* when a process finishes what another one left half done.
PublishedReleaseWhole ==
    \A d \in sDisk \cup {sDir} : d["release"] # NoFile =>
        /\ d["release"].sealed /\ d["file"] # NoFile
        /\ d["file"].of = Chunks /\ d["file"].whole

\* The service store loses nothing that it reported, shows nothing that is not
\* whole, and has one installer at a time (service-store records, release
\* artifacts, the store's lock).
ServiceStoreDurable ==
    /\ ServiceTypeOK /\ ServiceLockExclusive
    /\ ServiceNeverForgets /\ PublishedReleaseWhole
=============================================================================
