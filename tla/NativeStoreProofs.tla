-------------------------- MODULE NativeStoreProofs --------------------------
(***************************************************************************)
(* Proofs about the native stores (native-control/src): of ControlStore    *)
(* and ServiceStore that what they reported endures, for any number of     *)
(* processes and any bounds; of ArtifactSpace that what references name    *)
(* stays whole, for any services, digests and transactions.                *)
(*                                                                         *)
(* ControlStore.  The lock excludes because its file is never unlinked:    *)
(* whoever is past the open has the descriptor of the file that carries    *)
(* the name.  A reported record stands because the holder's own write is   *)
(* the newest there is: what any failure leaves under the name is the      *)
(* record reported before or a later one.                                  *)
(*                                                                         *)
(* ServiceStore.  One installer builds the container, because the pending  *)
(* directory is made exclusively and stays until it is renamed; holders    *)
(* of the lock have the file that is named, which is never unlinked.  A    *)
(* release is whole in every state a power loss may leave, because a file  *)
(* is sealed only after its bytes were flushed and a directory only after  *)
(* its file.  A reported record stands because it is reported after the    *)
(* flush, and no flushed name of the store is ever taken away.             *)
(*                                                                         *)
(* ArtifactSpace.  ReferencedWhole is not inductive by itself: a slot is   *)
(* written from the publication that the session holds, which stands       *)
(* because no collection starts before every transaction is committed      *)
(* (PublicationHeld), and was whole because the access sealed what it      *)
(* wrote (AccessKept, ScratchKept).  CollectionRecoverable needs the order *)
(* in which a scratch was filled (ScratchOrdered): what is removed last    *)
(* was written first.                                                      *)
(***************************************************************************)
EXTENDS ControlStore, ServiceStore, ArtifactSpace, FiniteSetTheorems, TLAPS

-----------------------------------------------------------------------------
(* ControlStore: the inductive invariant.                                  *)

HoldPcs == {"locked", "sealRoot", "rooted", "create", "temp", "replace",
            "flush", "release"}
RootPcs == {"sealRoot", "rooted", "create", "temp", "replace", "flush"}
WritePcs == {"create", "temp", "replace", "flush"}
CtlProc == [pc : {"idle", "lock", "sealLock", "lockNew"} \cup HoldPcs,
            fd : Nat, new : Nat]
CtlDirs == [CtlNames -> CtlObject \cup {NoFile}]
CtlSpentType == [writes : 0..MaxWrites, faults : Nat]

\* What a process at its place relies on: it has the lock file that is named,
\* the root exists, its own write is the last one begun and, before the last
\* flush, what the name shows.
ProcKept(x, dir, writes) ==
    /\ x \in CtlProc
    /\ x.pc = "idle" => x = CtlIdle
    /\ x.pc # "idle" => dir["lock"] # NoFile /\ x.fd = dir["lock"].id
    /\ x.pc \in RootPcs => dir["root"] # NoFile
    /\ x.pc \in WritePcs => x.new = writes /\ writes >= 1
    /\ x.pc = "flush" =>
          dir["record"] # NoFile /\ dir["record"].id = x.new

\* The lock's name is not on the disk before it is in memory, and no record is
\* newer than the last write begun.
DiskKept ==
    /\ \A d \in cDisk : d["lock"] # NoFile => cDir["lock"] # NoFile
    /\ \A d \in cDisk : d["record"] # NoFile => d["record"].id <= cSpent.writes

CtlInv ==
    /\ ControlTypeOK /\ cSpent \in CtlSpentType /\ cTold <= cSpent.writes
    /\ cProc \in [Managers -> CtlProc]
    /\ \A p \in Managers : ProcKept(cProc[p], cDir, cSpent.writes)
    /\ ControlLockExclusive /\ DiskKept /\ ToldRecordStands

-----------------------------------------------------------------------------
(* Facts about the directory.                                              *)

\* All three names live in directories one flush commits: a change adds the
\* present state, a flush leaves nothing else.
LEMMA DirectoryStates ==
    ASSUME CtlInv, cDir' \in CtlDirs
    PROVE  /\ Recorded(cDisk, cDir', CtlNames) = cDisk \cup {cDir'}
           /\ Flushed(cDisk, cDir', CtlNames) = {cDir'}
<1>1. \A d \in cDisk : Overlaid(d, cDir', CtlNames) = cDir'
  BY DEF Overlaid, CtlDirs
<1>2. cDisk # {}
  BY DEF CtlInv, ControlTypeOK
<1> QED
  BY <1>1, <1>2 DEF Recorded, Flushed

\* Objects fit their type.
LEMMA ObjectsTyped ==
    /\ MaxCtlId \in Nat /\ MaxCtlId >= 3
    /\ \A i \in Nat : \A b \in BOOLEAN :
          /\ i >= 1 /\ (i <= MaxCtlId \/ i <= MaxWrites) =>
                [id |-> i, sealed |-> b] \in CtlObject
<1>1. MaxCtlId \in Nat /\ MaxCtlId >= 3
  BY ControlAssumption, FS_CardinalityType DEF MaxCtlId
<1> QED
  BY <1>1, ControlAssumption DEF CtlObject

\* Before the lock exists its identity is free: nobody has a descriptor.
LEMMA FreshLock ==
    ASSUME CtlInv, cDir["lock"] = NoFile
    PROVE  CtlFresh \in 1..MaxCtlId
<1> DEFINE used == {d["lock"].id : d \in {e \in cDisk \cup {cDir} :
                                             e["lock"] # NoFile}}
                     \cup {cProc[p].fd : p \in Managers}
<1>1. \A d \in cDisk \cup {cDir} : d["lock"] = NoFile
  BY DEF CtlInv, DiskKept
<1>2. \A p \in Managers : cProc[p].fd = 0
  BY DEF CtlInv, ProcKept, CtlIdle
<1>3. 1 \notin used
  BY <1>1, <1>2
<1>4. 1 \in (1..MaxCtlId) \ used
  BY <1>3, ObjectsTyped
<1>5. \A j \in (1..MaxCtlId) \ used : 1 <= j
  BY ObjectsTyped
<1> HIDE DEF used
<1>6. \E i \in (1..MaxCtlId) \ used : \A j \in (1..MaxCtlId) \ used : i <= j
  BY <1>4, <1>5
<1>7. CtlFresh = CHOOSE i \in (1..MaxCtlId) \ used :
                    \A j \in (1..MaxCtlId) \ used : i <= j
  BY DEF CtlFresh, used
<1> QED
  BY <1>6, <1>7

\* The holder is alone, so that nobody else minds what it does to the root
\* and to the record.
LEMMA OthersMindLock ==
    ASSUME CtlInv, NEW p \in Managers, cProc[p].pc \in HoldPcs,
           NEW dir, dir["lock"] = cDir["lock"], NEW n,
           NEW q \in Managers, q # p
    PROVE  ProcKept(cProc[q], dir, n) /\ cProc[q].pc \notin HoldPcs
<1>1. cProc[q].pc \notin HoldPcs
  BY DEF CtlInv, ControlLockExclusive, CtlHolds, HoldPcs
<1>2. ProcKept(cProc[q], cDir, cSpent.writes)
  BY DEF CtlInv
<1> QED
  BY <1>1, <1>2 DEF ProcKept, HoldPcs, RootPcs, WritePcs

-----------------------------------------------------------------------------
(* What a step of one process has to keep.                                 *)

\* The told record survives a change that leaves it, or a later one, in place.
LEMMA ToldFrame ==
    ASSUME CtlInv, cTold' = cTold, cDisk' \subseteq cDisk \cup {cDir'},
           cTold > 0 => /\ cDir'["root"] # NoFile /\ cDir'["record"] # NoFile
                        /\ cDir'["record"].id >= cTold
    PROVE  ToldRecordStands'
BY DEF CtlInv, ToldRecordStands

\* One process moves to x.
LEMMA ManagerMoves ==
    ASSUME CtlInv, NEW p \in Managers, NEW x,
           cProc' = [cProc EXCEPT ![p] = x],
           cPlatform' = cPlatform, cLitter' \in Nat,
           cSpent' \in CtlSpentType, cSpent.writes <= cSpent'.writes,
           cTold' \in 0..MaxWrites, cTold' <= cSpent'.writes,
           cDir' \in CtlDirs, cDisk' \subseteq cDisk \cup {cDir'}, cDir' \in cDisk',
           cDir["lock"] # NoFile => cDir'["lock"] # NoFile,
           cDir'["record"] # NoFile => cDir'["record"].id <= cSpent'.writes,
           ProcKept(x, cDir', cSpent'.writes),
           \A q \in Managers \ {p} : ProcKept(cProc[q], cDir', cSpent'.writes),
           x.pc \in HoldPcs => \A q \in Managers \ {p} : cProc[q].pc \notin HoldPcs,
           ToldRecordStands'
    PROVE  CtlInv'
<1>1. /\ cProc \in [Managers -> CtlProc] /\ x \in CtlProc
  BY DEF CtlInv, ProcKept
<1>2. /\ cProc' \in [Managers -> CtlProc] /\ cProc'[p] = x
      /\ \A q \in Managers \ {p} : cProc'[q] = cProc[q]
  BY <1>1
<1>3. \A q \in Managers : ProcKept(cProc[q], cDir, cSpent.writes)'
  BY <1>2 DEF ProcKept
<1>4. ControlTypeOK'
  BY DEF CtlInv, ControlTypeOK, CtlDirs
<1>5. ControlLockExclusive'
  BY <1>2 DEF CtlInv, ControlLockExclusive, CtlHolds, HoldPcs
<1>6. DiskKept'
  <2>1. \A d \in cDisk : d["record"] # NoFile =>
           d["record"].id \in Nat /\ d["record"].id <= cSpent.writes
    BY DEF CtlInv, DiskKept, ControlTypeOK, CtlObject, CtlNames
  <2>2. cSpent.writes \in Nat /\ cSpent'.writes \in Nat
    BY DEF CtlInv, CtlSpentType
  <2> QED
    BY <2>1, <2>2 DEF CtlInv, DiskKept
<1> QED
  BY <1>2, <1>3, <1>4, <1>5, <1>6 DEF CtlInv

\* Directory and writes stay; the process only changes its place.
LEMMA ManagerOnly ==
    ASSUME CtlInv, NEW p \in Managers, NEW x,
           cProc' = [cProc EXCEPT ![p] = x],
           UNCHANGED <<cPlatform, cDir, cTold>>,
           cDisk' = cDisk \/ cDisk' = {cDir'}, cLitter' \in Nat,
           cSpent' \in CtlSpentType, cSpent'.writes = cSpent.writes,
           ProcKept(x, cDir, cSpent.writes),
           x.pc \in HoldPcs => \A q \in Managers \ {p} : cProc[q].pc \notin HoldPcs
    PROVE  CtlInv'
<1>1. /\ cDir' \in CtlDirs /\ cDir \in cDisk /\ cTold \in 0..MaxWrites
      /\ cDisk' \subseteq cDisk \cup {cDir'} /\ cDir' \in cDisk'
  BY DEF CtlInv, ControlTypeOK, CtlDirs
<1>2. /\ cTold <= cSpent.writes /\ cSpent.writes \in Nat
      /\ \A q \in Managers : ProcKept(cProc[q], cDir, cSpent.writes)
      /\ cDir["record"] # NoFile => cDir["record"].id <= cSpent.writes
  BY <1>1 DEF CtlInv, DiskKept, CtlSpentType
<1>3. ToldRecordStands'
  BY <1>1, ToldFrame DEF CtlInv, ToldRecordStands
<1>4. /\ ProcKept(x, cDir', cSpent'.writes)
      /\ \A q \in Managers \ {p} : ProcKept(cProc[q], cDir', cSpent'.writes)
  BY <1>2
<1>5. /\ cPlatform' = cPlatform /\ cSpent.writes <= cSpent'.writes
      /\ cTold' \in 0..MaxWrites /\ cTold' <= cSpent'.writes
      /\ cDir["lock"] # NoFile => cDir'["lock"] # NoFile
      /\ cDir'["record"] # NoFile => cDir'["record"].id <= cSpent'.writes
  BY <1>1, <1>2
<1> QED
  BY <1>1, <1>3, <1>4, <1>5, ManagerMoves

\* The process changes a name, by at most the record of the last write begun,
\* and moves to x.
LEMMA DirectoryMoves ==
    ASSUME CtlInv, NEW p \in Managers, NEW x,
           cProc' = [cProc EXCEPT ![p] = x],
           UNCHANGED <<cPlatform, cTold>>, cLitter' \in Nat,
           cSpent' \in CtlSpentType, cSpent'.writes = cSpent.writes,
           cDir' \in CtlDirs,
           cDisk' = cDisk \cup {cDir'} \/ cDisk' = {cDir'},
           cDir["lock"] # NoFile => cDir'["lock"] # NoFile,
           cDir["root"] # NoFile => cDir'["root"] # NoFile,
           \/ cDir'["record"] = cDir["record"]
           \/ cDir'["record"] # NoFile /\ cDir'["record"].id = cSpent.writes,
           ProcKept(x, cDir', cSpent.writes),
           \A q \in Managers \ {p} : ProcKept(cProc[q], cDir', cSpent.writes),
           x.pc \in HoldPcs => \A q \in Managers \ {p} : cProc[q].pc \notin HoldPcs
    PROVE  CtlInv'
<1>1. /\ cDir \in cDisk /\ cTold \in 0..MaxWrites /\ cTold <= cSpent.writes
      /\ cSpent.writes \in Nat /\ cTold \in Nat
      /\ cDir["record"] # NoFile => cDir["record"].id <= cSpent.writes
  BY ControlAssumption DEF CtlInv, ControlTypeOK, DiskKept, CtlSpentType
<1>2. ToldRecordStands'
  <2>1. cTold > 0 => /\ cDir["root"] # NoFile /\ cDir["record"] # NoFile
                     /\ cDir["record"].id >= cTold
    BY <1>1 DEF CtlInv, ToldRecordStands
  <2> QED
    BY <1>1, <2>1, ToldFrame
<1>3. /\ cPlatform' = cPlatform /\ cSpent.writes <= cSpent'.writes
      /\ cTold' \in 0..MaxWrites /\ cTold' <= cSpent'.writes
      /\ cDisk' \subseteq cDisk \cup {cDir'} /\ cDir' \in cDisk'
      /\ cDir'["record"] # NoFile => cDir'["record"].id <= cSpent'.writes
  BY <1>1
<1>4. /\ ProcKept(x, cDir', cSpent'.writes)
      /\ \A q \in Managers \ {p} : ProcKept(cProc[q], cDir', cSpent'.writes)
  OBVIOUS
<1> QED
  BY <1>2, <1>3, <1>4, ManagerMoves

\* A failed call is counted; other steps spend nothing.
LEMMA SpentKept ==
    ASSUME CtlInv, CtlSound \/ CtlFault
    PROVE  cSpent' \in CtlSpentType /\ cSpent'.writes = cSpent.writes
BY DEF CtlInv, CtlSound, CtlFault, CtlSpentType

\* A step that only moves the program counter of p.
LEMMA GoTo ==
    ASSUME CtlInv, NEW p \in Managers, NEW pc, CtlGo(p, pc),
           pc \in {"lock", "sealLock", "lockNew"} \cup HoldPcs
    PROVE  \E x \in CtlProc :
              /\ cProc' = [cProc EXCEPT ![p] = x]
              /\ x.pc = pc /\ x.fd = cProc[p].fd /\ x.new = cProc[p].new
<1>1. cProc \in [Managers -> CtlProc] /\ cProc[p] \in CtlProc
  BY DEF CtlInv
<1> DEFINE x == [cProc[p] EXCEPT !.pc = pc]
<1>2. x \in CtlProc /\ x.pc = pc /\ x.fd = cProc[p].fd /\ x.new = cProc[p].new
  BY <1>1 DEF CtlProc
<1>3. cProc' = [cProc EXCEPT ![p] = x]
  BY <1>1 DEF CtlGo
<1> QED
  BY <1>2, <1>3

\* The directory stays and p goes to a place whose needs are met.
LEMMA GoOnly ==
    ASSUME CtlInv, NEW p \in Managers, NEW pc, CtlGo(p, pc),
           pc \in {"lock", "sealLock", "lockNew"} \cup HoldPcs,
           cProc[p].pc # "idle",
           UNCHANGED <<cPlatform, cDir, cTold>>,
           cDisk' = cDisk \/ cDisk' = {cDir'}, cLitter' \in Nat,
           CtlSound \/ CtlFault,
           pc \in RootPcs => cDir["root"] # NoFile,
           pc \in WritePcs => cProc[p].pc \in WritePcs,
           pc # "flush",
           pc \in HoldPcs => \A q \in Managers \ {p} : cProc[q].pc \notin HoldPcs
    PROVE  CtlInv'
<1>1. PICK x \in CtlProc :
         /\ cProc' = [cProc EXCEPT ![p] = x]
         /\ x.pc = pc /\ x.fd = cProc[p].fd /\ x.new = cProc[p].new
  BY GoTo
<1>2. ProcKept(x, cDir, cSpent.writes)
  <2>1. ProcKept(cProc[p], cDir, cSpent.writes)
    BY DEF CtlInv
  <2> QED
    BY <1>1, <2>1 DEF ProcKept, HoldPcs
<1> QED
  BY <1>1, <1>2, SpentKept, ManagerOnly

\* The process ends its command, or dies.
LEMMA GoesIdle ==
    ASSUME CtlInv, NEW p \in Managers, cProc' = [cProc EXCEPT ![p] = CtlIdle],
           UNCHANGED <<cPlatform, cDir, cDisk, cTold>>, cLitter' \in Nat,
           CtlSound \/ CtlFault
    PROVE  CtlInv'
<1>1. ProcKept(CtlIdle, cDir, cSpent.writes) /\ CtlIdle.pc \notin HoldPcs
  BY DEF ProcKept, CtlIdle, CtlProc, HoldPcs, RootPcs, WritePcs
<1> QED
  BY <1>1, SpentKept, ManagerOnly

\* The others are not in the section that the lock guards.
LEMMA HolderAlone ==
    ASSUME CtlInv, NEW p \in Managers, cProc[p].pc \in HoldPcs
    PROVE  \A q \in Managers \ {p} : cProc[q].pc \notin HoldPcs
BY DEF CtlInv, ControlLockExclusive, CtlHolds, HoldPcs

-----------------------------------------------------------------------------
(* The lock.                                                               *)

\* The open finds the lock that everybody has, or makes the first one.
LEMMA AcquireNativeLockStep ==
    ASSUME CtlInv, NEW p \in Managers, AcquireNativeLock(p)
    PROVE  CtlInv'
<1> DEFINE lock == [id |-> CtlFresh, sealed |-> cPlatform = "windows"]
<1>1. /\ cProc[p].pc = "idle" /\ cProc[p] = CtlIdle
      /\ cProc \in [Managers -> CtlProc] /\ cLitter \in Nat
      /\ cDir \in CtlDirs /\ cDir \in cDisk
      /\ UNCHANGED <<cPlatform, cLitter, cTold, cSpent>>
  BY DEF AcquireNativeLock, CtlInv, ProcKept, CtlRest, CtlSound, ControlTypeOK,
     CtlDirs
<1>2. cSpent' \in CtlSpentType /\ cSpent'.writes = cSpent.writes
  BY <1>1 DEF CtlInv
<1>3. CASE /\ cDir["lock"] # NoFile /\ CtlKeep
           /\ cProc' = [cProc EXCEPT ![p].pc = "lock",
                                     ![p].fd = cDir["lock"].id]
  <2> DEFINE f == cDir["lock"].id
             x == [cProc[p] EXCEPT !.pc = "lock", !.fd = f]
  <2>1. f \in Nat
    BY <1>1, <1>3, ObjectsTyped, ControlAssumption DEF CtlDirs, CtlObject, CtlNames
  <2>2. cProc' = [cProc EXCEPT ![p].pc = "lock", ![p].fd = f]
    BY <1>3
  <2>3. cProc[p] \in CtlProc
    BY <1>1
  <2> HIDE DEF f
  <2>4. x \in CtlProc /\ x.pc = "lock" /\ x.fd = f
    BY <2>1, <2>3 DEF CtlProc
  <2>5. cProc' = [cProc EXCEPT ![p] = x]
    BY <1>1, <2>2
  <2> HIDE DEF x
  <2>6. ProcKept(x, cDir, cSpent.writes) /\ x.pc \notin HoldPcs
    BY <1>3, <2>4 DEF f, ProcKept, HoldPcs, RootPcs, WritePcs
  <2> QED
    BY <1>1, <1>2, <1>3, <2>6, <2>5, ManagerOnly DEF CtlKeep
<1>4. CASE /\ cDir["lock"] = NoFile
           /\ cDir' = Named(cDir, "lock", lock) /\ CtlNoFlush
           /\ cProc' = [cProc EXCEPT ![p].fd = lock.id,
                  ![p].pc = IF lock.sealed THEN "lock" ELSE "sealLock"]
  <2>1. CtlFresh \in 1..MaxCtlId
    BY <1>4, FreshLock
  <2>2. lock \in CtlObject /\ lock.id \in Nat /\ lock # NoFile
    <3>1. CtlFresh \in Nat /\ CtlFresh >= 1 /\ CtlFresh <= MaxCtlId
      BY <2>1, ObjectsTyped
    <3>2. lock \in CtlObject
      BY <3>1, ObjectsTyped
    <3> QED
      BY <3>1, <3>2, ControlAssumption
  <2> HIDE DEF lock
  <2> DEFINE x == [pc |-> IF lock.sealed THEN "lock" ELSE "sealLock",
                   fd |-> lock.id, new |-> 0]
  <2>3. cProc' = [cProc EXCEPT ![p] = x]
    BY <1>1, <1>4 DEF CtlIdle, CtlProc
  <2>4. /\ cDir' \in CtlDirs /\ cDir'["lock"] = lock
        /\ cDir'["root"] = cDir["root"] /\ cDir'["record"] = cDir["record"]
    BY <1>1, <1>4, <2>2 DEF Named, CtlDirs, CtlNames
  <2>5. cDisk' = cDisk \cup {cDir'}
    BY <1>4, <2>4, DirectoryStates DEF CtlNoFlush
  <2>6. ProcKept(x, cDir', cSpent.writes) /\ x.pc \notin HoldPcs
    BY <2>2, <2>4 DEF ProcKept, CtlProc, HoldPcs, RootPcs, WritePcs
  <2> HIDE DEF x
  <2>7. \A q \in Managers : ProcKept(cProc[q], cDir', cSpent.writes)
    BY <1>4, <2>4 DEF CtlInv, ProcKept, CtlIdle, RootPcs, WritePcs
  <2> QED
    BY <1>1, <1>2, <1>4, <2>2, <2>3, <2>4, <2>5, <2>6, <2>7, DirectoryMoves
<1> QED
  BY <1>3, <1>4 DEF AcquireNativeLock

\* Sealing changes an attribute of an object that keeps its identity.
LEMMA SealedAlone ==
    ASSUME CtlInv, NEW n \in CtlNames, cDir[n] # NoFile,
           cDir' = [cDir EXCEPT ![n].sealed = TRUE]
    PROVE  /\ cDir' \in CtlDirs
           /\ \A m \in CtlNames : /\ cDir'[m] = NoFile <=> cDir[m] = NoFile
                                  /\ m # n => cDir'[m] = cDir[m]
           /\ cDir'[n].id = cDir[n].id
<1>1. cDir \in CtlDirs /\ cDir[n] \in CtlObject
  BY DEF CtlInv, ControlTypeOK, CtlDirs
<1> DEFINE o == [cDir[n] EXCEPT !.sealed = TRUE]
<1>2. o \in CtlObject /\ o.id = cDir[n].id /\ o # NoFile
  BY <1>1, ControlAssumption DEF CtlObject
<1>3. cDir' = [cDir EXCEPT ![n] = o]
  BY <1>1 DEF CtlDirs
<1> HIDE DEF o
<1> QED
  BY <1>1, <1>2, <1>3 DEF CtlDirs

\* The creator gives the lock its exact ACL, or fails.
LEMMA SealLockStep ==
    ASSUME CtlInv, NEW p \in Managers, SealLock(p)
    PROVE  CtlInv'
<1>1. /\ cProc[p].pc = "sealLock" /\ UNCHANGED <<cPlatform, cLitter, cTold>>
      /\ cDir["lock"] # NoFile /\ cLitter \in Nat /\ cSpent.writes \in Nat
      /\ ProcKept(cProc[p], cDir, cSpent.writes)
  BY DEF SealLock, CtlRest, CtlInv, ProcKept, ControlTypeOK, CtlSpentType
<1>2. CASE /\ cDir' = [cDir EXCEPT !["lock"].sealed = TRUE]
           /\ CtlNoFlush /\ CtlGo(p, "lockNew") /\ CtlSound
  <2>1. /\ cDir' \in CtlDirs /\ cDir'["lock"] # NoFile
        /\ cDir'["lock"].id = cDir["lock"].id
        /\ cDir'["root"] = cDir["root"] /\ cDir'["record"] = cDir["record"]
    BY <1>1, <1>2, SealedAlone DEF CtlNames
  <2>2. cDisk' = cDisk \cup {cDir'}
    BY <1>2, <2>1, DirectoryStates DEF CtlNoFlush
  <2>3. PICK x \in CtlProc :
           /\ cProc' = [cProc EXCEPT ![p] = x]
           /\ x.pc = "lockNew" /\ x.fd = cProc[p].fd /\ x.new = cProc[p].new
    BY <1>2, GoTo
  <2>4. ProcKept(x, cDir', cSpent.writes) /\ x.pc \notin HoldPcs
    BY <1>1, <2>1, <2>3 DEF ProcKept, HoldPcs, RootPcs, WritePcs
  <2>5. \A q \in Managers : ProcKept(cProc[q], cDir', cSpent.writes)
    BY <2>1 DEF CtlInv, ProcKept
  <2>6. cSpent' \in CtlSpentType /\ cSpent'.writes = cSpent.writes
    BY <1>2, SpentKept
  <2> QED
    BY <1>1, <1>2, <2>1, <2>2, <2>3, <2>4, <2>5, <2>6, DirectoryMoves
<1>3. CASE CtlKeep /\ CtlFault /\ cProc' = [cProc EXCEPT ![p] = CtlIdle]
  BY <1>1, <1>3, GoesIdle DEF CtlKeep
<1> QED
  BY <1>2, <1>3 DEF SealLock

\* The lock is granted if no other process holds the one lock file there is.
LEMMA TryLockStep ==
    ASSUME CtlInv, NEW p \in Managers, TryLock(p)
    PROVE  CtlInv'
<1>1. /\ cProc[p].pc \in {"lock", "lockNew"}
      /\ UNCHANGED <<cPlatform, cLitter, cTold>> /\ cLitter \in Nat
      /\ cDir \in CtlDirs
  BY DEF TryLock, CtlRest, CtlInv, ControlTypeOK, CtlDirs
<1>2. CASE /\ ~ CtlBusy(p) /\ CtlGo(p, "locked") /\ CtlSound /\ UNCHANGED cDir
           /\ IF cProc[p].pc = "lockNew" THEN CtlFlush ELSE UNCHANGED cDisk
  <2>1. \A q \in Managers \ {p} : cProc[q].pc \notin HoldPcs
    <3>1. \A q \in Managers : cProc[q].pc # "idle" =>
             cProc[q].fd = cDir["lock"].id
      BY DEF CtlInv, ProcKept
    <3> QED
      BY <1>1, <1>2, <3>1 DEF CtlBusy, CtlHolds, HoldPcs
  <2>2. cDisk' = cDisk \/ cDisk' = {cDir'}
    BY <1>1, <1>2, DirectoryStates DEF CtlFlush
  <2> QED
    BY <1>1, <1>2, <2>1, <2>2, GoOnly DEF HoldPcs, RootPcs, WritePcs
<1>3. CASE CtlKeep /\ CtlFault /\ cProc' = [cProc EXCEPT ![p] = CtlIdle]
  BY <1>1, <1>3, GoesIdle DEF CtlKeep
<1>4. CASE CtlKeep /\ CtlSound /\ cProc' = [cProc EXCEPT ![p] = CtlIdle]
  BY <1>1, <1>4, GoesIdle DEF CtlKeep
<1> QED
  BY <1>2, <1>3, <1>4 DEF TryLock

\* The lock file stays behind.
LEMMA ReleaseLockStep ==
    ASSUME CtlInv, NEW p \in Managers, ReleaseLock(p)
    PROVE  CtlInv'
BY GoesIdle DEF ReleaseLock, CtlKeep, CtlRest, CtlInv, ControlTypeOK

-----------------------------------------------------------------------------
(* The control directory.                                                  *)

\* The holder moves to pc, changing root or record; the others mind the lock.
LEMMA HolderMoves ==
    ASSUME CtlInv, NEW p \in Managers, cProc[p].pc \in HoldPcs,
           NEW pc \in HoldPcs, CtlGo(p, pc),
           UNCHANGED <<cPlatform, cTold>>, cLitter' \in Nat,
           CtlSound \/ CtlFault,
           cDir' \in CtlDirs, cDir'["lock"] = cDir["lock"],
           CtlFlush \/ CtlNoFlush,
           cDir["root"] # NoFile => cDir'["root"] # NoFile,
           \/ cDir'["record"] = cDir["record"]
           \/ /\ cDir'["record"] # NoFile /\ cProc[p].pc \in WritePcs
              /\ cDir'["record"].id = cProc[p].new,
           pc \in RootPcs => cDir'["root"] # NoFile,
           pc \in WritePcs => cProc[p].pc \in WritePcs,
           pc = "flush" => /\ cDir'["record"] # NoFile
                           /\ cDir'["record"].id = cProc[p].new
    PROVE  CtlInv'
<1>1. PICK x \in CtlProc :
         /\ cProc' = [cProc EXCEPT ![p] = x]
         /\ x.pc = pc /\ x.fd = cProc[p].fd /\ x.new = cProc[p].new
  BY GoTo
<1>2. ProcKept(cProc[p], cDir, cSpent.writes)
  BY DEF CtlInv
<1>3. ProcKept(x, cDir', cSpent.writes)
  BY <1>1, <1>2 DEF ProcKept, HoldPcs
<1>4. \A q \in Managers \ {p} : /\ ProcKept(cProc[q], cDir', cSpent.writes)
                                /\ cProc[q].pc \notin HoldPcs
  BY OthersMindLock
<1>5. cDisk' = cDisk \cup {cDir'} \/ cDisk' = {cDir'}
  BY DirectoryStates DEF CtlFlush, CtlNoFlush
<1>6. cSpent' \in CtlSpentType /\ cSpent'.writes = cSpent.writes
  BY SpentKept
<1>7. \/ cDir'["record"] = cDir["record"]
      \/ cDir'["record"] # NoFile /\ cDir'["record"].id = cSpent.writes
  BY <1>2 DEF ProcKept
<1> QED
  BY <1>1, <1>3, <1>4, <1>5, <1>6, <1>7, DirectoryMoves

\* The root is made, or found sealed, or refused.
LEMMA EnsureControlDirectoryStep ==
    ASSUME CtlInv, NEW p \in Managers, EnsureControlDirectory(p)
    PROVE  CtlInv'
<1> DEFINE root == [id |-> 1, sealed |-> cPlatform = "windows"]
<1>1. /\ cProc[p].pc = "locked" /\ CtlSound /\ cDir \in CtlDirs
      /\ cLitter' \in Nat /\ UNCHANGED <<cPlatform, cTold>>
  BY DEF EnsureControlDirectory, CtlRest, CtlInv, ControlTypeOK, CtlDirs
<1>2. root \in CtlObject /\ root # NoFile
  <2>1. (cPlatform = "windows") \in BOOLEAN /\ 1 \in Nat /\ 1 <= MaxCtlId
    BY ObjectsTyped
  <2>2. root \in CtlObject
    BY <2>1, ObjectsTyped, ControlAssumption DEF CtlObject
  <2> QED
    BY <2>2, ControlAssumption
<1>3. CASE cDir["root"] = NoFile
  <2>1. /\ cDir' = Named(cDir, "root", root) /\ CtlNoFlush
        /\ \E pc \in {"rooted", "sealRoot"} : CtlGo(p, pc)
    BY <1>3 DEF EnsureControlDirectory
  <2> HIDE DEF root
  <2>2. PICK pc \in {"rooted", "sealRoot"} : CtlGo(p, pc)
    BY <2>1
  <2>3. /\ cDir' \in CtlDirs /\ cDir'["root"] # NoFile
        /\ cDir'["lock"] = cDir["lock"] /\ cDir'["record"] = cDir["record"]
    BY <1>1, <1>2, <2>1 DEF Named, CtlDirs, CtlNames
  <2>4. /\ cProc[p].pc \in HoldPcs /\ pc \in HoldPcs
        /\ pc \notin WritePcs /\ pc # "flush"
    BY <1>1 DEF HoldPcs, WritePcs
  <2> QED
    BY <1>1, <2>1, <2>2, <2>3, <2>4, HolderMoves
<1>4. CASE cDir["root"] # NoFile
  <2>1. /\ CtlKeep /\ \E pc \in {"rooted", "release"} : CtlGo(p, pc)
    BY <1>4 DEF EnsureControlDirectory
  <2>2. PICK pc \in {"rooted", "release"} : CtlGo(p, pc)
    BY <2>1
  <2>3. \A q \in Managers \ {p} : cProc[q].pc \notin HoldPcs
    BY <1>1, HolderAlone DEF HoldPcs
  <2> QED
    BY <1>1, <1>4, <2>1, <2>2, <2>3, GoOnly DEF CtlKeep, HoldPcs, RootPcs, WritePcs
<1> QED
  BY <1>3, <1>4

\* A holder that gives up keeps what is named.
LEMMA HolderGivesUp ==
    ASSUME CtlInv, NEW p \in Managers, cProc[p].pc \in HoldPcs,
           CtlGo(p, "release"), CtlKeep, UNCHANGED <<cPlatform, cTold>>,
           cLitter' \in Nat, CtlSound \/ CtlFault
    PROVE  CtlInv'
<1>1. \A q \in Managers \ {p} : cProc[q].pc \notin HoldPcs
  BY HolderAlone
<1> QED
  BY <1>1, GoOnly DEF CtlKeep, HoldPcs, RootPcs, WritePcs

\* The root gets its exact ACL and is flushed, or the call fails.
LEMMA SealRootStep ==
    ASSUME CtlInv, NEW p \in Managers, SealRoot(p)
    PROVE  CtlInv'
<1>1. /\ cProc[p].pc = "sealRoot" /\ cProc[p].pc \in HoldPcs
      /\ cLitter' \in Nat /\ UNCHANGED <<cPlatform, cTold>>
  BY DEF SealRoot, CtlRest, CtlInv, ControlTypeOK, HoldPcs
<1>2. cDir["root"] # NoFile
  BY <1>1 DEF CtlInv, ProcKept, RootPcs
<1>3. CASE /\ cDir' = [cDir EXCEPT !["root"].sealed = TRUE]
           /\ \/ CtlFlush /\ CtlGo(p, "rooted") /\ CtlSound
              \/ CtlNoFlush /\ CtlGo(p, "release") /\ CtlFault
  <2>1. /\ cDir' \in CtlDirs /\ cDir'["root"] # NoFile
        /\ cDir'["lock"] = cDir["lock"] /\ cDir'["record"] = cDir["record"]
    BY <1>2, <1>3, SealedAlone DEF CtlNames
  <2>2. PICK pc \in {"rooted", "release"} : CtlGo(p, pc)
    BY <1>3
  <2>3. pc \in HoldPcs /\ pc \notin WritePcs /\ pc # "flush"
    BY DEF HoldPcs, WritePcs
  <2>4. (CtlFlush \/ CtlNoFlush) /\ (CtlSound \/ CtlFault)
    BY <1>3
  <2> QED
    BY <1>1, <2>1, <2>2, <2>3, <2>4, HolderMoves
<1>4. CASE CtlKeep /\ CtlFault /\ CtlGo(p, "release")
  BY <1>1, <1>4, HolderGivesUp
<1> QED
  BY <1>3, <1>4 DEF SealRoot

-----------------------------------------------------------------------------
(* Writing.                                                                *)

\* A write is numbered when it begins, under the lock: it is the newest.
LEMMA BeginWriteStep ==
    ASSUME CtlInv, NEW p \in Managers, BeginWrite(p)
    PROVE  CtlInv'
<1>1. /\ cProc[p].pc = "rooted" /\ cProc[p].pc \in HoldPcs
      /\ cSpent.writes < MaxWrites
      /\ cSpent' = [cSpent EXCEPT !.writes = @ + 1]
      /\ UNCHANGED <<cPlatform, cTold, cLitter, cDir, cDisk>>
      /\ cDir \in CtlDirs /\ cLitter \in Nat /\ cDir \in cDisk
      /\ cTold \in 0..MaxWrites /\ cTold <= cSpent.writes
      /\ cProc \in [Managers -> CtlProc]
  BY DEF BeginWrite, CtlRest, CtlKeep, CtlInv, ControlTypeOK, HoldPcs, CtlDirs
<1>2. /\ cSpent' \in CtlSpentType /\ cSpent'.writes = cSpent.writes + 1
      /\ cSpent.writes \in Nat
  BY <1>1, ControlAssumption DEF CtlInv, CtlSpentType
<1> DEFINE pc == IF cDir["record"] = NoFile THEN "create" ELSE "temp"
           x == [cProc[p] EXCEPT !.new = cSpent.writes + 1, !.pc = pc]
<1>3. cProc' = [cProc EXCEPT ![p] = x]
  BY <1>1 DEF BeginWrite, CtlProc
<1>4. cProc[p] \in CtlProc /\ cSpent.writes + 1 \in Nat
  BY <1>1, <1>2
<1>5. pc \in {"create", "temp"}
  OBVIOUS
<1> HIDE DEF pc
<1>6. /\ x \in CtlProc /\ x.pc \in {"create", "temp"}
      /\ x.fd = cProc[p].fd /\ x.new = cSpent.writes + 1
  BY <1>4, <1>5 DEF CtlProc, HoldPcs
<1> HIDE DEF x
<1>7. ProcKept(x, cDir, cSpent.writes + 1)
  <2>1. ProcKept(cProc[p], cDir, cSpent.writes)
    BY DEF CtlInv
  <2> QED
    BY <1>1, <1>2, <1>6, <2>1 DEF ProcKept, RootPcs
<1>8. \A q \in Managers \ {p} : /\ ProcKept(cProc[q], cDir, cSpent.writes + 1)
                                /\ cProc[q].pc \notin HoldPcs
  BY <1>1, OthersMindLock
<1>9. /\ ProcKept(x, cDir', cSpent'.writes)
      /\ \A q \in Managers \ {p} : ProcKept(cProc[q], cDir', cSpent'.writes)
  BY <1>1, <1>2, <1>7, <1>8
<1>10. ToldRecordStands'
  BY <1>1 DEF CtlInv, ToldRecordStands
<1>11. /\ cPlatform' = cPlatform /\ cSpent.writes <= cSpent'.writes
       /\ cTold' \in 0..MaxWrites /\ cTold' <= cSpent'.writes
       /\ cDisk' \subseteq cDisk \cup {cDir'} /\ cDir' \in cDisk'
       /\ cDir' \in CtlDirs /\ cLitter' \in Nat
       /\ cDir["lock"] # NoFile => cDir'["lock"] # NoFile
  BY <1>1, <1>2
<1>12. cDir'["record"] # NoFile => cDir'["record"].id <= cSpent'.writes
  <2>1. cDir["record"] # NoFile =>
           cDir["record"].id \in Nat /\ cDir["record"].id <= cSpent.writes
    BY <1>1 DEF CtlInv, DiskKept, CtlDirs, CtlObject, CtlNames
  <2> QED
    BY <1>1, <1>2, <2>1
<1> QED
  BY <1>2, <1>3, <1>8, <1>9, <1>10, <1>11, <1>12, ManagerMoves

\* The new record takes the name: flushed at once, or after a failed flush
\* left to whatever reaches the disk.
LEMMA RecordPlaced ==
    ASSUME CtlInv, NEW p \in Managers, cProc[p].pc \in {"create", "replace"},
           cDir' = Named(cDir, "record", Record(p)),
           \/ CtlFlush /\ CtlGo(p, "flush") /\ CtlSound
           \/ CtlNoFlush /\ CtlGo(p, "release") /\ CtlFault,
           UNCHANGED <<cPlatform, cTold>>, cLitter' \in Nat
    PROVE  CtlInv'
<1>1. /\ cProc[p].pc \in HoldPcs /\ cProc[p].pc \in WritePcs
      /\ cProc[p].pc \in RootPcs /\ cDir \in CtlDirs
      /\ ProcKept(cProc[p], cDir, cSpent.writes)
      /\ cSpent.writes \in 0..MaxWrites
  BY DEF HoldPcs, WritePcs, RootPcs, CtlInv, ControlTypeOK, CtlDirs, CtlSpentType
<1>2. /\ cProc[p].new \in Nat /\ cProc[p].new >= 1 /\ cProc[p].new <= MaxWrites
      /\ cDir["root"] # NoFile
  BY <1>1, ControlAssumption DEF ProcKept
<1>3. Record(p) \in CtlObject /\ Record(p).id = cProc[p].new
  BY <1>2, ObjectsTyped DEF Record
<1>4. Record(p) # NoFile
  BY <1>3, ControlAssumption
<1>5. /\ cDir' \in CtlDirs /\ cDir'["record"] = Record(p)
      /\ cDir'["lock"] = cDir["lock"] /\ cDir'["root"] = cDir["root"]
  BY <1>1, <1>3 DEF Named, CtlDirs, CtlNames
<1>6. PICK pc \in {"flush", "release"} : CtlGo(p, pc)
  OBVIOUS
<1>7. pc \in HoldPcs /\ (CtlFlush \/ CtlNoFlush) /\ (CtlSound \/ CtlFault)
  BY DEF HoldPcs
<1> QED
  BY <1>1, <1>2, <1>3, <1>4, <1>5, <1>6, <1>7, HolderMoves

\* A record is created under a name that was free, on either platform.
LEMMA CreateAbsentStep ==
    ASSUME CtlInv, NEW p \in Managers,
           CreateAbsentPosix(p) \/ CreateAbsentWindows(p)
    PROVE  CtlInv'
<1>1. /\ cProc[p].pc = "create" /\ cProc[p].pc \in HoldPcs
      /\ UNCHANGED <<cPlatform, cTold>> /\ cLitter' \in Nat
  BY DEF CreateAbsentPosix, CreateAbsentWindows, CtlRest, CtlInv,
     ControlTypeOK, HoldPcs
<1>2. CASE /\ cDir' = Named(cDir, "record", Record(p))
           /\ \/ CtlFlush /\ CtlGo(p, "flush") /\ CtlSound
              \/ CtlNoFlush /\ CtlGo(p, "release") /\ CtlFault
  BY <1>1, <1>2, RecordPlaced
<1>3. CASE CtlKeep /\ CtlGo(p, "release") /\ CtlFault
  BY <1>1, <1>3, HolderGivesUp
<1> QED
  BY <1>2, <1>3 DEF CreateAbsentPosix, CreateAbsentWindows

\* The temporary is made; the record is as it was.
LEMMA CreateExclusiveTempStep ==
    ASSUME CtlInv, NEW p \in Managers, CreateExclusiveTemp(p)
    PROVE  CtlInv'
<1>1. /\ cProc[p].pc = "temp" /\ cProc[p].pc \in HoldPcs
      /\ UNCHANGED <<cPlatform, cTold>> /\ CtlKeep
      /\ cLitter' \in Nat /\ (CtlSound \/ CtlFault)
      /\ cDir["root"] # NoFile
  BY DEF CreateExclusiveTemp, CtlInv, ControlTypeOK, HoldPcs, RootPcs, ProcKept
<1>2. CtlGo(p, "replace") \/ CtlGo(p, "release")
  BY DEF CreateExclusiveTemp
<1>3. \A q \in Managers \ {p} : cProc[q].pc \notin HoldPcs
  BY <1>1, HolderAlone
<1>4. CASE CtlGo(p, "replace")
  BY <1>1, <1>3, <1>4, GoOnly DEF CtlKeep, HoldPcs, RootPcs, WritePcs
<1>5. CASE CtlGo(p, "release")
  BY <1>1, <1>5, HolderGivesUp
<1> QED
  BY <1>2, <1>4, <1>5

\* The record is replaced, on either platform, or the call fails before or
\* after the rename.
LEMMA ReplaceExistingStep ==
    ASSUME CtlInv, NEW p \in Managers,
           ReplaceExistingPosix(p) \/ ReplaceExistingWindows(p)
    PROVE  CtlInv'
<1>1. /\ cProc[p].pc = "replace" /\ cProc[p].pc \in HoldPcs
      /\ UNCHANGED <<cPlatform, cTold>> /\ cLitter' \in Nat
  BY DEF ReplaceExistingPosix, ReplaceExistingWindows, ReplaceFailed, CtlInv,
     ControlTypeOK, HoldPcs
<1>2. CASE /\ cDir' = Named(cDir, "record", Record(p))
           /\ \/ CtlFlush /\ CtlGo(p, "flush") /\ CtlSound
              \/ CtlNoFlush /\ CtlGo(p, "release") /\ CtlFault
  BY <1>1, <1>2, RecordPlaced
<1>3. CASE CtlKeep /\ CtlGo(p, "release") /\ CtlFault
  BY <1>1, <1>3, HolderGivesUp
<1> QED
  BY <1>2, <1>3 DEF ReplaceExistingPosix, ReplaceExistingWindows, ReplaceFailed

\* The last flush leaves one directory state, and the write is reported.
LEMMA FlushWriteStep ==
    ASSUME CtlInv, NEW p \in Managers, FlushWrite(p)
    PROVE  CtlInv'
<1>1. /\ cProc[p].pc = "flush" /\ cProc[p].pc \in HoldPcs
      /\ CtlGo(p, "release") /\ UNCHANGED <<cPlatform, cLitter>>
      /\ cLitter \in Nat /\ cDir \in CtlDirs
      /\ ProcKept(cProc[p], cDir, cSpent.writes)
      /\ cSpent.writes \in 0..MaxWrites
  BY DEF FlushWrite, CtlInv, ControlTypeOK, HoldPcs, CtlDirs, CtlSpentType
<1>2. CASE UNCHANGED cDir /\ CtlFlush /\ CtlSound /\ cTold' = cProc[p].new
  <2>1. cDisk' = {cDir'}
    BY <1>1, <1>2, DirectoryStates DEF CtlFlush
  <2>2. /\ cProc[p].new = cSpent.writes /\ cSpent.writes >= 1
        /\ cDir["root"] # NoFile /\ cDir["record"] # NoFile
        /\ cDir["record"].id = cSpent.writes
    BY <1>1 DEF ProcKept, RootPcs, WritePcs
  <2>3. PICK x \in CtlProc :
           /\ cProc' = [cProc EXCEPT ![p] = x]
           /\ x.pc = "release" /\ x.fd = cProc[p].fd /\ x.new = cProc[p].new
    BY <1>1, GoTo DEF HoldPcs
  <2>4. ProcKept(x, cDir, cSpent.writes)
    BY <1>1, <2>3 DEF ProcKept, RootPcs, WritePcs
  <2>5. \A q \in Managers \ {p} : /\ ProcKept(cProc[q], cDir, cSpent.writes)
                                  /\ cProc[q].pc \notin HoldPcs
    BY <1>1, OthersMindLock
  <2>6. cSpent' = cSpent /\ cSpent' \in CtlSpentType
    BY <1>2 DEF CtlSound, CtlInv
  <2>7. /\ ProcKept(x, cDir', cSpent'.writes)
        /\ \A q \in Managers \ {p} : ProcKept(cProc[q], cDir', cSpent'.writes)
    BY <1>2, <2>4, <2>5, <2>6
  <2>8. ToldRecordStands'
    BY <1>1, <1>2, <2>1, <2>2 DEF ToldRecordStands
  <2>9. /\ cPlatform' = cPlatform /\ cSpent.writes <= cSpent'.writes
        /\ cTold' \in 0..MaxWrites /\ cTold' <= cSpent'.writes
        /\ cDisk' \subseteq cDisk \cup {cDir'} /\ cDir' \in cDisk'
        /\ cDir' \in CtlDirs /\ cLitter' \in Nat
        /\ cDir["lock"] # NoFile => cDir'["lock"] # NoFile
        /\ cDir'["record"] # NoFile => cDir'["record"].id <= cSpent'.writes
    BY <1>1, <1>2, <2>1, <2>2, <2>6
  <2> QED
    BY <2>3, <2>5, <2>6, <2>7, <2>8, <2>9, ManagerMoves
<1>3. CASE CtlKeep /\ CtlFault /\ UNCHANGED cTold
  BY <1>1, <1>3, HolderGivesUp
<1> QED
  BY <1>2, <1>3 DEF FlushWrite

-----------------------------------------------------------------------------
(* Deaths and power losses.                                                *)

\* A manager may die anywhere; the lock falls free and its file stays.
LEMMA ManagerDiesStep ==
    ASSUME CtlInv, NEW p \in Managers, ManagerDies(p)
    PROVE  CtlInv'
<1>1. cLitter' \in Nat
  BY DEF ManagerDies, CtlInv, ControlTypeOK
<1> QED
  BY <1>1, GoesIdle DEF ManagerDies, CtlKeep

\* The directory comes back as one of the states the disk could hold; nobody
\* survives to rely on the others.
LEMMA ControlPowerLossStep ==
    ASSUME CtlInv, ControlPowerLoss
    PROVE  CtlInv'
<1>1. /\ cDir' \in cDisk /\ cDisk' = {cDir'} /\ cTold' = cTold
      /\ cPlatform' = cPlatform /\ cProc' = [p \in Managers |-> CtlIdle]
      /\ cSpent' \in CtlSpentType /\ cSpent'.writes = cSpent.writes
  BY SpentKept DEF ControlPowerLoss
<1>2. cLitter' \in Nat
  <2>1. IsFiniteSet({p \in Managers : cProc[p].pc = "replace"})
    BY ControlAssumption, FS_Subset
  <2>2. Cardinality({p \in Managers : cProc[p].pc = "replace"}) \in Nat
    BY <2>1, FS_CardinalityType
  <2> QED
    BY <2>2 DEF ControlPowerLoss, CtlInv, ControlTypeOK
<1>3. ControlTypeOK' /\ cTold' <= cSpent'.writes
  BY <1>1, <1>2 DEF CtlInv, ControlTypeOK
<1>4. CtlIdle \in CtlProc /\ CtlIdle.pc = "idle"
  BY DEF CtlIdle, CtlProc
<1>5. /\ cProc' \in [Managers -> CtlProc]
      /\ \A p \in Managers : ProcKept(cProc[p], cDir, cSpent.writes)'
  BY <1>1, <1>4 DEF ProcKept, RootPcs, WritePcs
<1>6. ControlLockExclusive'
  BY <1>1, <1>4 DEF ControlLockExclusive, CtlHolds
<1>7. DiskKept' /\ ToldRecordStands'
  BY <1>1 DEF CtlInv, DiskKept, ToldRecordStands
<1> QED
  BY <1>1, <1>3, <1>5, <1>6, <1>7 DEF CtlInv

-----------------------------------------------------------------------------
(* The theorems.                                                           *)

\* An empty directory and idle managers.
LEMMA CtlInvInit == ControlInit => CtlInv
<1> SUFFICES ASSUME ControlInit PROVE CtlInv
  OBVIOUS
<1>1. /\ cPlatform \in {"posix", "windows"} /\ cDir \in CtlDirs
      /\ \A n \in CtlNames : cDir[n] = NoFile
      /\ cDisk = {cDir} /\ cProc = [p \in Managers |-> CtlIdle]
      /\ cLitter = 0 /\ cTold = 0 /\ cSpent \in CtlSpentType
      /\ cSpent.writes = 0
  BY ControlAssumption DEF ControlInit, CtlDirs, CtlSpentType
<1>2. CtlIdle \in CtlProc /\ CtlIdle.pc = "idle"
  BY DEF CtlIdle, CtlProc
<1>3. ControlTypeOK /\ cTold <= cSpent.writes
  BY <1>1, ControlAssumption DEF ControlTypeOK, CtlDirs
<1>4. /\ cProc \in [Managers -> CtlProc]
      /\ \A p \in Managers : ProcKept(cProc[p], cDir, cSpent.writes)
  BY <1>1, <1>2 DEF ProcKept, RootPcs, WritePcs
<1>5. ControlLockExclusive
  BY <1>1, <1>2 DEF ControlLockExclusive, CtlHolds
<1>6. DiskKept /\ ToldRecordStands
  BY <1>1 DEF DiskKept, ToldRecordStands, CtlNames
<1> QED
  BY <1>1, <1>3, <1>4, <1>5, <1>6 DEF CtlInv

\* Every step of the store keeps the invariant.
LEMMA CtlInvStep ==
    ASSUME CtlInv, [ControlNext]_controlVars
    PROVE  CtlInv'
<1>1. CASE ControlPowerLoss
  BY <1>1, ControlPowerLossStep
<1>2. CASE UNCHANGED controlVars
  BY <1>2 DEF controlVars, CtlInv, ControlTypeOK, ProcKept,
     ControlLockExclusive, CtlHolds, DiskKept, ToldRecordStands
<1>3. ASSUME NEW p \in Managers,
             \/ AcquireNativeLock(p) \/ SealLock(p) \/ TryLock(p)
             \/ ReleaseLock(p) \/ EnsureControlDirectory(p) \/ SealRoot(p)
             \/ BeginWrite(p) \/ CreateAbsentPosix(p) \/ CreateAbsentWindows(p)
             \/ CreateExclusiveTemp(p) \/ ReplaceExistingPosix(p)
             \/ ReplaceExistingWindows(p) \/ FlushWrite(p) \/ ManagerDies(p)
      PROVE  CtlInv'
  BY <1>3, AcquireNativeLockStep, SealLockStep, TryLockStep, ReleaseLockStep,
     EnsureControlDirectoryStep, SealRootStep, BeginWriteStep,
     CreateAbsentStep, CreateExclusiveTempStep, ReplaceExistingStep,
     FlushWriteStep, ManagerDiesStep
<1> QED
  BY <1>1, <1>2, <1>3 DEF ControlNext

\* The store's inductive invariant, for every set of managers and bound.
THEOREM ControlInvariance == ControlSpec => []CtlInv
<1>1. ControlInit => CtlInv
  BY CtlInvInit
<1>2. CtlInv /\ [ControlNext]_controlVars => CtlInv'
  BY CtlInvStep
<1> QED
  BY <1>1, <1>2, PTL DEF ControlSpec

\* A record that write (adapter.js) reported is kept, in it or in a later
\* version, and one manager at a time is past withManagementLocks: whatever
\* calls fail, processes die or power losses there are.
THEOREM ReportedRecordsStand == ControlSpec => []ControlKeepsTold
<1>1. CtlInv => ControlKeepsTold
  BY DEF CtlInv, ControlKeepsTold
<1> QED
  BY <1>1, ControlInvariance, PTL

-----------------------------------------------------------------------------
(* ServiceStore: the inductive invariant.                                  *)

\* Where an installer makes an object, and the object's name.
MakePcs == {"pending", "witness", "external", "root", "rootWitness", "lock",
            "lockWitness", "stage"}
MadeName(pc) == IF pc = "external" THEN "witness" ELSE pc
SvcPcs == MakePcs \cup HeldPcs \cup {"idle", "container", "rename", "rootLook",
                                     "open", "flock"}
RecordPcs == {"candidate", "publish", "settle", "drop"}
SvcProc == [pc : SvcPcs, half : BOOLEAN, create : BOOLEAN, wrote : BOOLEAN,
            fd : Nat, mode : {"none", "shared", "exclusive"},
            before : SvcObject \cup {NoFile}]
SvcDirs == [SvcNames -> SvcObject \cup {NoFile}]
SvcSpentType == [opens : Nat, published : 0..MaxPublish, faults : Nat]

\* The one process that builds the container.
Builds(x) == (x.pc = "pending" /\ x.half) \/ x.pc \in {"witness", "rename"}

\* The exclusive holder in the middle of a publication or of an artifact.
Busy(x) == x.pc \in HeldPcs \ {"held"}

\* What an installer at its place relies on: the objects it made or found are
\* named, its descriptor is that of the named lock, the record in the directory
\* is the one it published, the artifact it streams is there.
InstallerKept(x, dir, published) ==
    /\ x \in SvcProc
    /\ x.half => x.pc \in MakePcs /\ dir[MadeName(x.pc)] # NoFile
    /\ Builds(x) => dir["pending"] # NoFile
    /\ x.pc = "external" => dir["container"] # NoFile
    /\ x.pc = "rootWitness" => dir["root"] # NoFile
    /\ x.pc = "lockWitness" => dir["lock"] # NoFile
    /\ x.pc \in {"lockWitness", "flock"} \cup HeldPcs =>
          dir["lock"] # NoFile /\ x.fd = dir["lock"].id
    /\ Busy(x) => x.mode = "exclusive"
    /\ x.pc \in RecordPcs =>
          dir["witness"] # NoFile /\ dir["root"] # NoFile /\ published >= 1
    /\ x.pc \in {"settle", "drop"} =>
          dir["record"] # NoFile /\ dir["record"].of = published
    /\ x.pc = "stage" => dir["release"] = NoFile
    /\ x.pc = "stream" => dir["file"] # NoFile

Complete(o) == o # NoFile /\ o.of = Chunks /\ o.whole
Sealed(o) == o # NoFile /\ o.sealed

\* A release has its bytes in every state that a power loss may leave, because
\* a file is sealed after its bytes were flushed and a directory after its file.
ArtifactOnDisk(dir, disk) ==
    /\ \A d \in disk : Sealed(d["file"]) => Complete(d["file"])
    /\ Sealed(dir["file"]) => \A d \in disk : Complete(d["file"])
    /\ \A d \in disk : d["release"] # NoFile =>
          /\ d["release"].sealed /\ d["stage"] = NoFile
          /\ dir["release"] # NoFile
    /\ dir["release"] # NoFile => \A d \in disk : Complete(d["file"])

\* Nothing a power loss may leave forgets the record that was reported.
ToldOnDisk(disk, told, platform, manual) ==
    told > 0 => \A d \in disk :
        /\ d["witness"] # NoFile /\ d["root"] # NoFile
        /\ (platform = "windows" => ~ manual) =>
              d["record"] # NoFile /\ d["record"].of >= told

SvcInv ==
    /\ ServiceTypeOK /\ IsFiniteSet(sDisk)
    /\ sSpent \in SvcSpentType /\ sTold <= sSpent.published
    /\ sProc \in [Installers -> SvcProc]
    /\ \A p \in Installers : InstallerKept(sProc[p], sDir, sSpent.published)
    /\ \A p, q \in Installers : Builds(sProc[p]) /\ Builds(sProc[q]) => p = q
    /\ ServiceLockExclusive
    /\ ArtifactOnDisk(sDir, sDisk)
    /\ ToldOnDisk(sDisk, sTold, sPlatform, sManual)

-----------------------------------------------------------------------------
(* Finite sets of directory states, and identities.                        *)

\* The values of a function on a finite set are finitely many.
LEMMA FiniteValues ==
    ASSUME NEW f, IsFiniteSet(DOMAIN f), f = [x \in DOMAIN f |-> f[x]]
    PROVE  IsFiniteSet({f[x] : x \in DOMAIN f})
<1> DEFINE T == {f[x] : x \in DOMAIN f}
<1>1. f \in Surjection(DOMAIN f, T)
  BY DEF Surjection
<1> QED
  BY <1>1, FS_Surjection

\* The store has finitely many names.
LEMMA FiniteNames == IsFiniteSet(SvcNames)
<1> DEFINE place == [n \in SvcNames |->
             CASE n = "file" -> 1 [] n = "pending" -> 2 [] n = "container" -> 3
               [] n = "witness" -> 4 [] n = "root" -> 5 [] n = "rootWitness" -> 6
               [] n = "lock" -> 7 [] n = "lockWitness" -> 8 [] n = "record" -> 9
               [] n = "stage" -> 10 [] n = "release" -> 11]
<1>1. \A m, n \in SvcNames : place[m] = place[n] => m = n
  BY DEF SvcNames, Data, Directories
<1>2. place \in [SvcNames -> 1..11]
  BY DEF SvcNames, Data, Directories
<1>3. place \in Injection(SvcNames, 1..11)
  BY <1>1, <1>2 DEF Injection, IsInjective
<1>4. IsFiniteSet(1..11)
  <2>1. 1 \in Int /\ 11 \in Int
    OBVIOUS
  <2> QED
    BY <2>1, FS_Interval
<1> QED
  BY <1>3, <1>4, FS_Injection

\* Finitely many directory states use finitely many identities.
LEMMA FiniteIdentities ==
    ASSUME NEW dirs, IsFiniteSet(dirs), dirs \subseteq SvcDirs
    PROVE  IsFiniteSet(Identities(dirs))
<1> DEFINE names(d) == {m \in DOMAIN d : d[m] # NoFile}
           ids == [d \in dirs |-> {d[n].id : n \in names(d)}]
<1>1. \A d \in dirs : IsFiniteSet(ids[d])
  <2>1. TAKE d \in dirs
  <2>2. DOMAIN d = SvcNames
    BY DEF SvcDirs
  <2>3. IsFiniteSet(names(d))
    BY <2>2, FiniteNames, FS_Subset
  <2> DEFINE g == [n \in names(d) |-> d[n].id]
  <2>4. IsFiniteSet({g[n] : n \in DOMAIN g})
    BY <2>3, FiniteValues
  <2>5. {g[n] : n \in DOMAIN g} = ids[d]
    BY <2>1
  <2> QED
    BY <2>4, <2>5
<1>2. IsFiniteSet({ids[d] : d \in DOMAIN ids})
  BY FiniteValues
<1>3. \A T \in {ids[d] : d \in DOMAIN ids} : IsFiniteSet(T)
  BY <1>1
<1>4. IsFiniteSet(UNION {ids[d] : d \in DOMAIN ids})
  BY <1>2, <1>3, FS_UNION
<1>5. UNION {ids[d] : d \in DOMAIN ids} = Identities(dirs)
  BY DEF Identities
<1> QED
  BY <1>4, <1>5

\* A finite set leaves one of the first numbers free.
LEMMA OneFree ==
    ASSUME NEW used, IsFiniteSet(used)
    PROVE  \E i \in 1..(Cardinality(used) + 1) : i \notin used
<1> DEFINE n == Cardinality(used) + 1
<1>1. n \in Nat /\ n >= 1 /\ n - 1 = Cardinality(used)
  BY FS_CardinalityType
<1> HIDE DEF n
<1>2. SUFFICES ASSUME 1..n \subseteq used PROVE FALSE
  BY DEF n
<1>3. Cardinality(1..n) <= Cardinality(used)
  <2>1. (1..n) \in SUBSET used
    BY <1>2
  <2> QED  BY <2>1, FS_Subset
<1>4. Cardinality(1..n) = n
  <2>1. n \in Int /\ 1 \in Int /\ ~(1 > n) /\ n - 1 + 1 = n
    BY <1>1
  <2> QED  BY <2>1, FS_Interval
<1> QED
  BY <1>1, <1>3, <1>4

\* A new object is an object.
LEMMA NewObject ==
    ASSUME SvcInv, NEW of \in Nat, NEW whole \in BOOLEAN
    PROVE  /\ SvcNew(of, whole) \in SvcObject /\ SvcNew(of, whole) # NoFile
           /\ SvcNew(of, whole).of = of /\ SvcNew(of, whole).whole = whole
           /\ SvcNew(of, whole).sealed = FALSE
<1> DEFINE used == Identities(sDisk \cup {sDir})
<1>1. sDisk \cup {sDir} = sDisk /\ sDisk \subseteq SvcDirs /\ IsFiniteSet(sDisk)
  BY DEF SvcInv, ServiceTypeOK, SvcDirs
<1>2. IsFiniteSet(used)
  BY <1>1, FiniteIdentities
<1>3. SvcFresh = CHOOSE i \in 1..(Cardinality(used) + 1) : i \notin used
  BY DEF SvcFresh
<1> HIDE DEF used
<1>4. SvcFresh \in 1..(Cardinality(used) + 1)
  BY <1>2, <1>3, OneFree
<1>5. SvcFresh \in Nat
  BY <1>2, <1>4, FS_CardinalityType
<1> DEFINE o == [id |-> SvcFresh, of |-> of, whole |-> whole, sealed |-> FALSE]
<1>6. o \in SvcObject
  BY <1>5 DEF SvcObject
<1>7. o # NoFile
  BY <1>6, ServiceAssumption
<1> QED
  BY <1>6, <1>7 DEF SvcNew

-----------------------------------------------------------------------------
(* What a change of names leaves on the disk.                              *)

\* Each state that may remain has the names of the directory that changed as they
\* are now and the others as they were in a state before, or it was there before.
LEMMA DiskStates ==
    ASSUME NEW disk, IsFiniteSet(disk), disk \subseteq SvcDirs,
           NEW old \in disk, NEW dir \in SvcDirs, NEW names, names \subseteq SvcNames,
           \A n \in SvcNames \ names : dir[n] = old[n],
           NEW disk2,
           disk2 = Recorded(disk, dir, names) \/ disk2 = Flushed(disk, dir, names)
    PROVE  /\ IsFiniteSet(disk2) /\ disk2 \subseteq SvcDirs /\ dir \in disk2
           /\ \A d \in disk2 :
                 \/ d \in disk /\ disk2 # Flushed(disk, dir, names)
                 \/ \E e \in disk :
                       /\ \A n \in names : d[n] = dir[n]
                       /\ \A n \in SvcNames \ names : d[n] = e[n]
<1> DEFINE over == [d \in disk |-> Overlaid(d, dir, names)]
           new == {over[d] : d \in DOMAIN over}
<1>1. IsFiniteSet(new)
  BY FiniteValues
<1>2. new = Flushed(disk, dir, names)
  BY DEF Flushed
<1>3. IsFiniteSet(disk \cup new)
  BY <1>1, FS_Union
<1>4. \A d \in disk : /\ over[d] \in SvcDirs
                      /\ \A n \in names : over[d][n] = dir[n]
                      /\ \A n \in SvcNames \ names : over[d][n] = d[n]
  BY DEF SvcDirs, Overlaid
<1>5. over[old] = dir
  <2>1. DOMAIN dir = SvcNames /\ dir = [n \in SvcNames |-> dir[n]]
    BY DEF SvcDirs
  <2>2. over[old] = [n \in SvcNames |-> IF n \in names THEN dir[n] ELSE old[n]]
    BY <2>1 DEF Overlaid
  <2> QED
    BY <2>1, <2>2
<1>6. disk2 = new \/ (disk2 = disk \cup new)
  BY <1>2 DEF Recorded, Flushed
<1>7. disk2 = new => disk2 = Flushed(disk, dir, names)
  BY <1>2
<1> HIDE DEF new
<1>8. new = {over[d] : d \in disk}
  BY DEF new
<1>9. \A d \in new : /\ d \in SvcDirs
                     /\ \E e \in disk : /\ \A n \in names : d[n] = dir[n]
                                        /\ \A n \in SvcNames \ names : d[n] = e[n]
  BY <1>4, <1>8
<1>10. dir \in new
  BY <1>5, <1>8
<1> HIDE DEF over
<1> QED
  <2>1. IsFiniteSet(disk2) /\ disk2 \subseteq SvcDirs /\ dir \in disk2
    BY <1>1, <1>3, <1>6, <1>9, <1>10
  <2>2. ASSUME NEW d \in disk2, ~(\E e \in disk : /\ \A n \in names : d[n] = dir[n]
                                        /\ \A n \in SvcNames \ names : d[n] = e[n])
        PROVE d \in disk /\ disk2 # Flushed(disk, dir, names)
    BY <1>2, <1>6, <1>9, <2>2
  <2> QED
    BY <2>1, <2>2

-----------------------------------------------------------------------------
(* What a step of one installer has to keep.                               *)

\* The holders beside a process that is about to hold the lock share it.
Shares(p, x) ==
    /\ Builds(x) => \A q \in Installers \ {p} : ~ Builds(sProc[q])
    /\ x.pc \in HeldPcs => \A q \in Installers \ {p} : sProc[q].pc \in HeldPcs =>
          x.mode # "exclusive" /\ sProc[q].mode # "exclusive"

\* Names that no other installer minds: those the store never takes away stay,
\* the builder alone renames its directory, the exclusive holder alone changes
\* the record and the artifact.
Spares(y, dir, published) ==
    /\ \A n \in {"container", "witness", "root", "rootWitness", "lock", "lockWitness"} :
          sDir[n] # NoFile => dir[n] # NoFile
    /\ sDir["lock"] # NoFile => dir["lock"].id = sDir["lock"].id
    /\ Builds(y) \/ (sDir["pending"] # NoFile => dir["pending"] # NoFile)
    /\ \/ y.pc \in HeldPcs /\ y.mode = "exclusive"
       \/ /\ published = sSpent.published
          /\ \A n \in {"record", "stage", "release", "file"} : dir[n] = sDir[n]

\* The types and counts of the store.
StoreTyped ==
    /\ sPlatform \in {"posix", "windows"} /\ sManual \in BOOLEAN
    /\ sDir \in SvcDirs /\ sDir \in sDisk /\ sDisk \subseteq SvcDirs /\ IsFiniteSet(sDisk)
    /\ sSpent \in SvcSpentType /\ sSpent.published \in Nat
    /\ sTold \in 0..MaxPublish /\ sTold \in Nat /\ sTold <= sSpent.published

\* They follow from the invariant.
LEMMA Typed == ASSUME SvcInv PROVE StoreTyped
<1>1. sSpent.published \in 0..MaxPublish
  BY DEF SvcInv, SvcSpentType
<1> QED
  BY <1>1, ServiceAssumption DEF SvcInv, ServiceTypeOK, SvcDirs, StoreTyped

\* A report of manual cleanup is never taken back.
LEMMA ManualStays ==
    ASSUME SvcInv, sManual' \in {sManual, TRUE}
    PROVE  (sPlatform = "windows" => ~ sManual') => (sPlatform = "windows" => ~ sManual)
<1>1. sManual \in BOOLEAN
  BY Typed DEF StoreTyped
<1>2. CASE sManual' = TRUE
  BY <1>2
<1>3. CASE sManual' = sManual
  BY <1>1, <1>3
<1> QED
  BY <1>2, <1>3

\* Whoever is not p stays as it was.
LEMMA OthersSpared ==
    ASSUME SvcInv, NEW p \in Installers, NEW dir, NEW published,
           Spares(sProc[p], dir, published)
    PROVE  \A q \in Installers \ {p} : InstallerKept(sProc[q], dir, published)
<1>1. SUFFICES ASSUME NEW q \in Installers, q # p
              PROVE  InstallerKept(sProc[q], dir, published)
  OBVIOUS
<1>2. InstallerKept(sProc[q], sDir, sSpent.published)
  BY DEF SvcInv
<1>3. /\ Builds(sProc[p]) => ~ Builds(sProc[q])
      /\ sProc[p].pc \in HeldPcs /\ sProc[p].mode = "exclusive" => sProc[q].pc \notin HeldPcs
  BY <1>1 DEF SvcInv, ServiceLockExclusive, SvcHolds
<1> DEFINE y == sProc[q]
<1>4. y.half => dir[MadeName(y.pc)] # NoFile
  <2>1. CASE y.pc = "pending"
    BY <1>2, <1>3, <2>1 DEF InstallerKept, Spares, Builds, MadeName
  <2>2. CASE y.pc = "stage"
    BY <1>2, <1>3, <2>2 DEF InstallerKept, Spares, MadeName, HeldPcs
  <2>3. CASE y.pc \notin {"pending", "stage"}
    BY <1>2, <2>3 DEF InstallerKept, Spares, MadeName, MakePcs
  <2> QED
    BY <2>1, <2>2, <2>3
<1>5. Builds(y) => dir["pending"] # NoFile
  BY <1>2, <1>3 DEF InstallerKept, Spares
<1>6. y.pc \in {"lockWitness", "flock"} \cup HeldPcs =>
          dir["lock"] # NoFile /\ y.fd = dir["lock"].id
  BY <1>2 DEF InstallerKept, Spares
<1>7. /\ y.pc = "external" => dir["container"] # NoFile
      /\ y.pc = "rootWitness" => dir["root"] # NoFile
      /\ y.pc = "lockWitness" => dir["lock"] # NoFile
  BY <1>2 DEF InstallerKept, Spares
<1>8. y.pc \in HeldPcs => published = sSpent.published
           /\ \A n \in {"record", "stage", "release", "file"} : dir[n] = sDir[n]
  BY <1>3 DEF Spares
<1>9. /\ y.pc \in RecordPcs => dir["witness"] # NoFile /\ dir["root"] # NoFile /\ published >= 1
      /\ y.pc \in {"settle", "drop"} => dir["record"] # NoFile /\ dir["record"].of = published
      /\ y.pc = "stage" => dir["release"] = NoFile
      /\ y.pc = "stream" => dir["file"] # NoFile
  BY <1>2, <1>8 DEF InstallerKept, Spares, RecordPcs, HeldPcs
<1> QED
  BY <1>2, <1>4, <1>5, <1>6, <1>7, <1>9 DEF InstallerKept

\* An installer moves to x.
LEMMA InstallerMoves ==
    ASSUME SvcInv, NEW p \in Installers, NEW x,
           sProc' = [sProc EXCEPT ![p] = x], sPlatform' = sPlatform,
           StoreTyped',
           ArtifactOnDisk(sDir', sDisk'), ToldOnDisk(sDisk', sTold', sPlatform', sManual'),
           Spares(sProc[p], sDir', sSpent'.published),
           InstallerKept(x, sDir', sSpent'.published), Shares(p, x)
    PROVE  SvcInv'
<1>1. /\ sProc' \in [Installers -> SvcProc] /\ sProc'[p] = x
      /\ \A q \in Installers \ {p} : sProc'[q] = sProc[q]
  BY DEF SvcInv, InstallerKept
<1>2. \A q \in Installers : InstallerKept(sProc'[q], sDir', sSpent'.published)
  BY <1>1, OthersSpared
<1>3. \A q, r \in Installers : Builds(sProc'[q]) /\ Builds(sProc'[r]) => q = r
  BY <1>1 DEF SvcInv, Shares
<1>4. ServiceLockExclusive'
  <2> SUFFICES ASSUME NEW q \in Installers, NEW r \in Installers,
                      sProc'[q].pc \in HeldPcs, sProc'[r].pc \in HeldPcs,
                      sProc'[q].mode = "exclusive", q # r
               PROVE  FALSE
    BY DEF ServiceLockExclusive, SvcHolds
  <2> QED
    BY <1>1 DEF SvcInv, ServiceLockExclusive, SvcHolds, Shares
<1>5. ServiceTypeOK'
  BY DEF StoreTyped, ServiceTypeOK, SvcDirs
<1>6. \A q, r \in Installers : (Builds(sProc[q]) /\ Builds(sProc[r]) => q = r)'
  BY <1>3 DEF Builds
<1>7. \A q \in Installers : InstallerKept(sProc[q], sDir, sSpent.published)'
  BY <1>2 DEF InstallerKept, Builds, Busy
<1>8. ArtifactOnDisk(sDir, sDisk)'
  BY DEF ArtifactOnDisk, Sealed, Complete
<1>9. ToldOnDisk(sDisk, sTold, sPlatform, sManual)'
  BY DEF ToldOnDisk
<1> QED
  BY <1>1, <1>4, <1>5, <1>6, <1>7, <1>8, <1>9 DEF SvcInv, StoreTyped

\* The directories stay.
LEMMA InstallerOnly ==
    ASSUME SvcInv, NEW p \in Installers, NEW x,
           sProc' = [sProc EXCEPT ![p] = x],
           UNCHANGED <<sPlatform, sDir, sDisk, sTold>>,
           sManual' \in {sManual, TRUE},
           sSpent' \in SvcSpentType, sSpent'.published = sSpent.published,
           InstallerKept(x, sDir, sSpent.published), Shares(p, x)
    PROVE  SvcInv'
<1>1. StoreTyped'
  BY Typed DEF StoreTyped
<1>2. ArtifactOnDisk(sDir', sDisk')
  BY DEF SvcInv
<1>3. ToldOnDisk(sDisk', sTold', sPlatform', sManual')
  BY ManualStays DEF SvcInv, ToldOnDisk
<1>4. Spares(sProc[p], sDir', sSpent'.published)
  BY DEF Spares
<1> QED
  BY <1>1, <1>2, <1>3, <1>4, InstallerMoves

\* Names of the directories change, not the bytes of the artifact: what was
\* published stays, a release is a sealed directory with a sealed file.
LEMMA NamesMove ==
    ASSUME SvcInv, NEW p \in Installers, NEW x,
           sProc' = [sProc EXCEPT ![p] = x],
           UNCHANGED <<sPlatform, sTold>>, sManual' \in {sManual, TRUE},
           sSpent' \in SvcSpentType, sSpent'.published = sSpent.published,
           sDir' \in SvcDirs, sDir'["file"] = sDir["file"], SvcFlush \/ SvcNoFlush,
           \/ sDir'["release"] = sDir["release"]
                /\ (sDir["release"] # NoFile => sDir'["stage"] = NoFile)
           \/ /\ sDir["release"] = NoFile /\ sDir'["release"] # NoFile
              /\ sDir'["release"].sealed /\ sDir'["stage"] = NoFile /\ Sealed(sDir["file"]),
           \/ sDir'["record"] = sDir["record"]
           \/ sDir'["record"] # NoFile /\ sDir'["record"].of = sSpent.published
           \/ sPlatform = "windows" /\ sManual',
           Spares(sProc[p], sDir', sSpent.published),
           InstallerKept(x, sDir', sSpent.published), Shares(p, x)
    PROVE  SvcInv'
<1>0. StoreTyped
  BY Typed
<1>1. Directories \subseteq SvcNames /\ SvcNames \ Directories = {"file"}
  BY DEF SvcNames, Directories, Data
<1>2. /\ IsFiniteSet(sDisk') /\ sDisk' \subseteq SvcDirs /\ sDir' \in sDisk'
      /\ \A d \in sDisk' : d \in sDisk \/ \E e \in sDisk :
            (\A n \in Directories : d[n] = sDir'[n]) /\ d["file"] = e["file"]
  BY <1>0, <1>1, DiskStates DEF SvcFlush, SvcNoFlush, StoreTyped
<1>3. StoreTyped'
  BY <1>0, <1>2 DEF StoreTyped, SvcSpentType
<1>4. ArtifactOnDisk(sDir', sDisk')
  <2>1. ArtifactOnDisk(sDir, sDisk) /\ sDir \in sDisk
    BY <1>0 DEF SvcInv, StoreTyped
  <2>2. \A d \in sDisk' : \E e \in sDisk : d["file"] = e["file"]
    BY <1>2
  <2>3. \A d \in sDisk' : Sealed(d["file"]) => Complete(d["file"])
    BY <2>1, <2>2 DEF ArtifactOnDisk
  <2>4. Sealed(sDir'["file"]) => \A d \in sDisk' : Complete(d["file"])
    BY <2>1, <2>2 DEF ArtifactOnDisk
  <2>5. sDir'["release"] # NoFile => \A d \in sDisk' : Complete(d["file"])
    BY <2>1, <2>2 DEF ArtifactOnDisk
  <2>6. ASSUME NEW d \in sDisk', d["release"] # NoFile
        PROVE  d["release"].sealed /\ d["stage"] = NoFile /\ sDir'["release"] # NoFile
    <3>1. CASE d \in sDisk
      BY <2>1, <2>6, <3>1 DEF ArtifactOnDisk
    <3>2. CASE \A n \in Directories : d[n] = sDir'[n]
      <4>1. d["release"] = sDir'["release"] /\ d["stage"] = sDir'["stage"]
        BY <3>2 DEF Directories
      <4> QED
        BY <2>1, <2>6, <4>1 DEF ArtifactOnDisk
    <3> QED
      BY <1>2, <3>1, <3>2
  <2> QED
    BY <2>3, <2>4, <2>5, <2>6 DEF ArtifactOnDisk
<1>5. ToldOnDisk(sDisk', sTold', sPlatform', sManual')
  <2>1. ToldOnDisk(sDisk, sTold, sPlatform, sManual) /\ sDir \in sDisk
    BY <1>0 DEF SvcInv, StoreTyped
  <2>2. SUFFICES ASSUME sTold > 0, NEW d \in sDisk'
                PROVE  /\ d["witness"] # NoFile /\ d["root"] # NoFile
                       /\ (sPlatform = "windows" => ~ sManual') =>
                             d["record"] # NoFile /\ d["record"].of >= sTold
    BY DEF ToldOnDisk
  <2>3. CASE d \in sDisk
    BY <2>1, <2>2, <2>3, ManualStays DEF ToldOnDisk
  <2>4. CASE \A n \in Directories : d[n] = sDir'[n]
    <3>1. /\ d["witness"] = sDir'["witness"] /\ d["root"] = sDir'["root"]
          /\ d["record"] = sDir'["record"]
      BY <2>4 DEF Directories
    <3>2. /\ sDir["witness"] # NoFile /\ sDir["root"] # NoFile
          /\ (sPlatform = "windows" => ~ sManual) =>
                 sDir["record"] # NoFile /\ sDir["record"].of >= sTold
      BY <2>1, <2>2 DEF ToldOnDisk
    <3>3. sDir'["witness"] # NoFile /\ sDir'["root"] # NoFile
      BY <3>2 DEF Spares
    <3>4. sSpent.published >= sTold
      BY <1>0 DEF StoreTyped
    <3> QED
      BY <3>1, <3>2, <3>3, <3>4
  <2> QED
    BY <1>2, <2>3, <2>4
<1>6. Spares(sProc[p], sDir', sSpent'.published)
  OBVIOUS
<1> QED
  BY <1>3, <1>4, <1>5, <1>6, InstallerMoves

\* The artifact's file changes.
LEMMA BytesMove ==
    ASSUME SvcInv, NEW p \in Installers, NEW x,
           sProc' = [sProc EXCEPT ![p] = x],
           UNCHANGED <<sPlatform, sTold>>, sManual' \in {sManual, TRUE},
           sSpent' \in SvcSpentType, sSpent'.published = sSpent.published,
           sDir' \in SvcDirs, \A n \in Directories : sDir'[n] = sDir[n],
           IsFiniteSet(sDisk'), sDisk' \subseteq SvcDirs, sDir' \in sDisk',
           \A d \in sDisk' : \E e \in sDisk : \A n \in Directories : d[n] = e[n],
           sDir["release"] = NoFile \/ \A d \in sDisk' : Complete(d["file"]),
           \A d \in sDisk' : Sealed(d["file"]) => Complete(d["file"]),
           Sealed(sDir'["file"]) => \A d \in sDisk' : Complete(d["file"]),
           sProc[p].pc \in HeldPcs, sProc[p].mode = "exclusive",
           InstallerKept(x, sDir', sSpent.published), Shares(p, x)
    PROVE  SvcInv'
<1>0. StoreTyped
  BY Typed
<1>1. StoreTyped'
  BY <1>0 DEF StoreTyped
<1>2. ArtifactOnDisk(sDir', sDisk')
  <2>1. ArtifactOnDisk(sDir, sDisk)
    BY DEF SvcInv
  <2>2. sDir'["release"] = sDir["release"]
    BY DEF Directories
  <2>3. ASSUME NEW d \in sDisk', d["release"] # NoFile
        PROVE  d["release"].sealed /\ d["stage"] = NoFile /\ sDir'["release"] # NoFile
    <3>1. PICK e \in sDisk : \A n \in Directories : d[n] = e[n]
      OBVIOUS
    <3>2. d["release"] = e["release"] /\ d["stage"] = e["stage"]
      BY <3>1 DEF Directories
    <3> QED
      BY <2>1, <2>2, <2>3, <3>2 DEF ArtifactOnDisk
  <2> QED
    BY <2>2, <2>3 DEF ArtifactOnDisk
<1>3. ToldOnDisk(sDisk', sTold', sPlatform', sManual')
  <2>1. ToldOnDisk(sDisk, sTold, sPlatform, sManual)
    BY DEF SvcInv
  <2>2. \A d \in sDisk' : \E e \in sDisk :
           d["witness"] = e["witness"] /\ d["root"] = e["root"] /\ d["record"] = e["record"]
    BY DEF Directories
  <2>3. (sPlatform = "windows" => ~ sManual') => (sPlatform = "windows" => ~ sManual)
    BY ManualStays
  <2> QED
    BY <2>1, <2>2, <2>3 DEF ToldOnDisk
<1>4. Spares(sProc[p], sDir', sSpent'.published)
  BY DEF Spares, Directories
<1> QED
  BY <1>1, <1>2, <1>3, <1>4, InstallerMoves

-----------------------------------------------------------------------------
(* Steps that leave the directories alone.                                 *)

\* A closed process relies on nothing.
LEMMA IdleInstaller ==
    /\ SvcIdle.pc = "idle"
    /\ \A dir, n : InstallerKept(SvcIdle, dir, n)
    /\ \A p : Shares(p, SvcIdle)
<1>1. SvcIdle \in SvcProc
  BY DEF SvcIdle, SvcProc, SvcPcs
<1>2. SvcIdle.pc = "idle" /\ SvcIdle.half = FALSE
  BY DEF SvcIdle
<1> HIDE DEF SvcIdle
<1>3. SvcIdle.pc \notin HeldPcs \cup MakePcs \cup RecordPcs \cup {"rename", "flock"}
  BY <1>2 DEF HeldPcs, MakePcs, RecordPcs
<1>4. ~ Builds(SvcIdle) /\ ~ Busy(SvcIdle)
  BY <1>2 DEF Builds, Busy, HeldPcs
<1> QED
  BY <1>1, <1>2, <1>3, <1>4 DEF InstallerKept, Shares, MakePcs

\* A call that is refused or reports manual cleanup ends the same way.
Ends(p) == FailedBy(p) \/ Refused(p) \/ ManualCleanup(p)

\* What such an end leaves of the state.
LEMMA Ending ==
    ASSUME SvcInv, NEW p \in Installers, Ends(p)
    PROVE  /\ sProc' = [sProc EXCEPT ![p] = SvcIdle]
           /\ UNCHANGED <<sPlatform, sTold>> /\ sManual' \in {sManual, TRUE}
BY DEF Ends, FailedBy, Refused, ManualCleanup, SvcSet, SvcQuiet

\* A failed call is counted; nothing else is.
LEMMA Counted ==
    ASSUME SvcInv, SvcSound \/ SvcFault
    PROVE  sSpent' \in SvcSpentType /\ sSpent'.published = sSpent.published
BY Typed DEF StoreTyped, SvcSound, SvcFault, SvcSpentType

\* It keeps the invariant when the directories stay.
LEMMA EndsOnly ==
    ASSUME SvcInv, NEW p \in Installers, Ends(p), SvcKeep, SvcSound \/ SvcFault
    PROVE  SvcInv'
BY Ending, Counted, IdleInstaller, InstallerOnly DEF SvcKeep

\* The process an installer is, and the one it is at another place.
LEMMA Standing ==
    ASSUME SvcInv, NEW p \in Installers
    PROVE  /\ sProc[p] \in SvcProc /\ InstallerKept(sProc[p], sDir, sSpent.published)
           /\ Shares(p, sProc[p])
BY DEF SvcInv, Shares, ServiceLockExclusive, SvcHolds

\* An installer at its next place has what it had.
LEMMA Going ==
    ASSUME SvcInv, NEW p \in Installers, NEW pc \in SvcPcs, SvcGo(p, pc)
    PROVE  \E x \in SvcProc :
              /\ sProc' = [sProc EXCEPT ![p] = x]
              /\ x.pc = pc /\ x.half = sProc[p].half /\ x.fd = sProc[p].fd
              /\ x.mode = sProc[p].mode
<1>1. sProc \in [Installers -> SvcProc] /\ sProc[p] \in SvcProc
  BY DEF SvcInv
<1> DEFINE x == [sProc[p] EXCEPT !.pc = pc]
<1>2. /\ x \in SvcProc /\ x.pc = pc /\ x.half = sProc[p].half /\ x.fd = sProc[p].fd
      /\ x.mode = sProc[p].mode
  BY <1>1 DEF SvcProc
<1>3. sProc' = [sProc EXCEPT ![p] = x]
  BY <1>1 DEF SvcGo
<1> QED
  BY <1>2, <1>3

\* Places an installer may go to with nothing but what it has found.
LEMMA GoFree ==
    ASSUME SvcInv, NEW p \in Installers, NEW pc, SvcGo(p, pc),
           pc \in {"container", "external", "pending", "rootLook", "root", "open"},
           ~ sProc[p].half, pc = "external" => sDir["container"] # NoFile,
           SvcKeep, SvcQuiet, SvcSound \/ SvcFault
    PROVE  SvcInv'
<1>1. pc \in SvcPcs
  BY DEF SvcPcs, MakePcs
<1>2. PICK x \in SvcProc :
              /\ sProc' = [sProc EXCEPT ![p] = x]
              /\ x.pc = pc /\ x.half = sProc[p].half /\ x.fd = sProc[p].fd
              /\ x.mode = sProc[p].mode
  BY <1>1, Going
<1>3. InstallerKept(x, sDir, sSpent.published) /\ Shares(p, x)
  BY <1>2 DEF InstallerKept, Shares, Builds, Busy, HeldPcs, RecordPcs
<1> QED
  BY <1>2, <1>3, Counted, InstallerOnly DEF SvcKeep, SvcQuiet

\* A process opens the store.
LEMMA OpenServiceRootStep ==
    ASSUME SvcInv, NEW p \in Installers, OpenServiceRoot(p)
    PROVE  SvcInv'
<1>1. PICK create \in BOOLEAN :
         sProc' = [sProc EXCEPT ![p] = [SvcIdle EXCEPT !.pc = "container", !.create = create]]
  BY DEF OpenServiceRoot, SvcSet
<1> DEFINE x == [SvcIdle EXCEPT !.pc = "container", !.create = create]
<1>2. x \in SvcProc /\ x.pc = "container" /\ x.half = FALSE
  BY DEF SvcIdle, SvcProc, SvcPcs
<1> HIDE DEF x
<1>3. InstallerKept(x, sDir, sSpent.published) /\ Shares(p, x)
  BY <1>2 DEF InstallerKept, Shares, Builds, Busy, HeldPcs, RecordPcs
<1>4. sSpent' \in SvcSpentType /\ sSpent'.published = sSpent.published
  BY Typed DEF StoreTyped, OpenServiceRoot, SvcSpentType
<1>5. sProc' = [sProc EXCEPT ![p] = x]
  BY <1>1 DEF x
<1> QED
  BY <1>3, <1>4, <1>5, InstallerOnly DEF OpenServiceRoot, SvcKeep, SvcQuiet

\* What it finds of the container decides where it goes.
LEMMA PrepareServiceBaseContainerStep ==
    ASSUME SvcInv, NEW p \in Installers, PrepareServiceBaseContainer(p)
    PROVE  SvcInv'
<1>1. ~ sProc[p].half
  BY Standing DEF PrepareServiceBaseContainer, InstallerKept, MakePcs, SvcProc
<1>2. SvcKeep /\ SvcSound
  BY DEF PrepareServiceBaseContainer
<1>3. \/ SvcGo(p, "rootLook") /\ SvcQuiet
      \/ External(sDir) /\ SvcGo(p, "external") /\ SvcQuiet
      \/ SvcGo(p, "pending") /\ SvcQuiet
      \/ Ends(p)
  BY DEF PrepareServiceBaseContainer, Adoptable, Ends
<1> QED
  BY <1>1, <1>2, <1>3, GoFree, EndsOnly DEF External

\* What it finds of the control root does so too.
LEMMA OpenControlRootStep ==
    ASSUME SvcInv, NEW p \in Installers, OpenControlRoot(p)
    PROVE  SvcInv'
<1>1. ~ sProc[p].half
  BY Standing DEF OpenControlRoot, InstallerKept, MakePcs, SvcProc
<1>2. SvcKeep /\ SvcSound
  BY DEF OpenControlRoot
<1>3. OpenExistingRoot(p) => Ends(p) \/ (SvcGo(p, "open") /\ SvcQuiet)
  BY DEF OpenExistingRoot, Ends
<1>4. \/ SvcGo(p, "root") /\ SvcQuiet
      \/ OpenExistingRoot(p)
      \/ Ends(p)
  BY DEF OpenControlRoot, Ends
<1> QED
  BY <1>1, <1>2, <1>3, <1>4, GoFree, EndsOnly

\* The lock file is made or opened.
LEMMA AcquireServiceLockStep ==
    ASSUME SvcInv, NEW p \in Installers, AcquireServiceLock(p)
    PROVE  SvcInv'
<1>1. /\ sProc[p].pc = "open" /\ sProc[p].half = FALSE /\ sProc[p] \in SvcProc
      /\ SvcKeep /\ SvcSound
  BY Standing DEF AcquireServiceLock, InstallerKept, MakePcs, SvcProc
<1>2. PICK mode \in {"shared", "exclusive"} :
         \/ Ends(p)
         \/ SvcQuiet /\ SvcSet(p, [sProc[p] EXCEPT !.pc = "lock", !.mode = mode, !.wrote = TRUE])
         \/ /\ Witnessed(sDir, "lockWitness", "lock") /\ SvcQuiet
            /\ SvcSet(p, [sProc[p] EXCEPT !.pc = "flock", !.mode = mode, !.fd = sDir["lock"].id])
  BY DEF AcquireServiceLock, Ends
<1>3. CASE Ends(p)
  BY <1>1, <1>3, EndsOnly
<1>4. CASE SvcQuiet /\ SvcSet(p, [sProc[p] EXCEPT !.pc = "lock", !.mode = mode, !.wrote = TRUE])
  <2> DEFINE x == [sProc[p] EXCEPT !.pc = "lock", !.mode = mode, !.wrote = TRUE]
  <2>1. x \in SvcProc /\ x.pc = "lock" /\ x.half = FALSE
    BY <1>1 DEF SvcProc, SvcPcs, MakePcs
  <2>2. sProc' = [sProc EXCEPT ![p] = x]
    BY <1>4 DEF SvcSet
  <2> HIDE DEF x
  <2>3. InstallerKept(x, sDir, sSpent.published) /\ Shares(p, x)
    BY <2>1 DEF InstallerKept, Shares, Builds, Busy, HeldPcs, RecordPcs
  <2> QED
    BY <1>1, <1>4, <2>2, <2>3, Counted, InstallerOnly DEF SvcKeep, SvcQuiet
<1>5. CASE /\ Witnessed(sDir, "lockWitness", "lock") /\ SvcQuiet
           /\ SvcSet(p, [sProc[p] EXCEPT !.pc = "flock", !.mode = mode, !.fd = sDir["lock"].id])
  <2> DEFINE f == sDir["lock"].id
             x == [sProc[p] EXCEPT !.pc = "flock", !.mode = mode, !.fd = f]
  <2>1. sDir["lock"] # NoFile /\ f \in Nat
    BY <1>5, Typed DEF Witnessed, StoreTyped, SvcDirs, SvcNames, Directories, SvcObject
  <2>2. sProc' = [sProc EXCEPT ![p] = x]
    BY <1>5 DEF SvcSet
  <2> HIDE DEF f
  <2>3. x \in SvcProc /\ x.pc = "flock" /\ x.half = FALSE /\ x.fd = f
    BY <1>1, <2>1 DEF SvcProc, SvcPcs
  <2> HIDE DEF x
  <2>4. InstallerKept(x, sDir, sSpent.published) /\ Shares(p, x)
    BY <2>1, <2>3 DEF f, InstallerKept, Shares, Builds, Busy, HeldPcs, RecordPcs
  <2> QED
    BY <1>1, <1>5, <2>2, <2>4, Counted, InstallerOnly DEF SvcKeep, SvcQuiet
<1> QED
  BY <1>2, <1>3, <1>4, <1>5

\* The lock is taken, alone if exclusive, or pending.
LEMMA LockServiceStep ==
    ASSUME SvcInv, NEW p \in Installers, LockService(p)
    PROVE  SvcInv'
<1>1. /\ sProc[p].pc = "flock" /\ sProc[p].half = FALSE /\ sProc[p] \in SvcProc
      /\ sDir["lock"] # NoFile /\ sProc[p].fd = sDir["lock"].id /\ SvcKeep
  BY Standing DEF LockService, InstallerKept, MakePcs, SvcProc
<1>2. \/ ~ LockConflict(p) /\ SvcSound /\ SvcQuiet
           /\ SvcSet(p, [sProc[p] EXCEPT !.pc = "held", !.wrote = FALSE])
      \/ Ends(p) /\ (SvcSound \/ SvcFault)
  BY DEF LockService, Ends
<1>3. CASE Ends(p) /\ (SvcSound \/ SvcFault)
  BY <1>1, <1>3, EndsOnly
<1>4. CASE ~ LockConflict(p) /\ SvcSound /\ SvcQuiet
           /\ SvcSet(p, [sProc[p] EXCEPT !.pc = "held", !.wrote = FALSE])
  <2> DEFINE x == [sProc[p] EXCEPT !.pc = "held", !.wrote = FALSE]
  <2>1. /\ x \in SvcProc /\ x.pc = "held" /\ x.half = FALSE /\ x.fd = sProc[p].fd
        /\ x.mode = sProc[p].mode
    BY <1>1 DEF SvcProc, SvcPcs, HeldPcs
  <2>2. sProc' = [sProc EXCEPT ![p] = x]
    BY <1>4 DEF SvcSet
  <2> HIDE DEF x
  <2>3. InstallerKept(x, sDir, sSpent.published)
    BY <1>1, <2>1 DEF InstallerKept, Builds, Busy, RecordPcs
  <2>4. Shares(p, x)
    <3>1. \A q \in Installers \ {p} : sProc[q].pc \in HeldPcs =>
             sProc[q].fd = sProc[p].fd
      BY <1>1, Standing DEF InstallerKept
    <3>2. \A q \in Installers \ {p} : sProc[q].pc \in HeldPcs =>
             sProc[p].mode # "exclusive" /\ sProc[q].mode # "exclusive"
      BY <1>4, <3>1 DEF LockConflict, SvcHolds
    <3>3. ~ Builds(x)
      BY <2>1 DEF Builds
    <3> QED
      BY <2>1, <3>2, <3>3 DEF Shares
  <2> QED
    BY <1>1, <1>4, <2>2, <2>3, <2>4, Counted, InstallerOnly DEF SvcKeep, SvcQuiet
<1> QED
  BY <1>2, <1>3, <1>4

\* A handle is closed, a process dies.
LEMMA ClosingStep ==
    ASSUME SvcInv, NEW p \in Installers, CloseServiceHandle(p) \/ InstallerDies(p)
    PROVE  SvcInv'
<1>1. Refused(p) /\ SvcKeep /\ (SvcSound \/ SvcFault)
  BY DEF CloseServiceHandle, InstallerDies, Refused
<1> QED
  BY <1>1, EndsOnly DEF Ends

-----------------------------------------------------------------------------
(* Making an object: its name first, then its bytes and both flushes.      *)

Makings == {<<"pending", "witness">>, <<"witness", "rename">>, <<"external", "rootLook">>,
            <<"root", "rootWitness">>, <<"rootWitness", "open">>, <<"lock", "lockWitness">>,
            <<"lockWitness", "flock">>, <<"stage", "held">>}

\* A name is given to an object that is not finished.
LEMMA CreateStep ==
    ASSUME SvcInv, NEW p \in Installers, NEW at \in MakePcs, NEW of, NEW next,
           sDir[MadeName(at)] = NoFile /\ sProc[p].pc = at => of \in Nat,
           CreateObject(p, at, MadeName(at), of, next)
    PROVE  SvcInv'
<1> DEFINE n == MadeName(at)
           o == SvcNew(of, FALSE)
           x == [sProc[p] EXCEPT !.half = TRUE, !.wrote = TRUE]
<1>1. /\ sProc[p].pc = at /\ sProc[p].half = FALSE /\ sProc[p] \in SvcProc
      /\ InstallerKept(sProc[p], sDir, sSpent.published) /\ Shares(p, sProc[p])
  BY Standing DEF CreateObject, SvcProc
<1>2. \/ /\ sDir[n] = NoFile /\ sDir' = Named(sDir, n, o) /\ SvcNoFlush
         /\ sProc' = [sProc EXCEPT ![p] = x] /\ SvcSound /\ SvcQuiet
      \/ SvcKeep /\ SvcSound /\ FailedBy(p)
      \/ SvcFault /\ SvcKeep /\ FailedBy(p)
  BY DEF CreateObject, SvcSet
<1>3. CASE SvcKeep /\ FailedBy(p) /\ (SvcSound \/ SvcFault)
  BY <1>3, EndsOnly DEF Ends
<1>4. CASE /\ sDir[n] = NoFile /\ sDir' = Named(sDir, n, o) /\ SvcNoFlush
           /\ sProc' = [sProc EXCEPT ![p] = x] /\ SvcSound /\ SvcQuiet
  <2>1. o \in SvcObject /\ o # NoFile
    BY <1>1, <1>4, NewObject
  <2>2. n \in Directories \ {"release", "record", "container"} /\ n \in SvcNames
    BY DEF MakePcs, MadeName, Directories, SvcNames
  <2>3. x \in SvcProc /\ x.pc = at /\ x.half = TRUE /\ x.fd = sProc[p].fd /\ x.mode = sProc[p].mode
    BY <1>1 DEF SvcProc
  <2>4. sDir \in SvcDirs
    BY Typed DEF StoreTyped
  <2>5. /\ sDir' \in SvcDirs /\ sDir'[n] # NoFile
        /\ \A m \in SvcNames \ {n} : sDir'[m] = sDir[m]
    BY <1>4, <2>1, <2>2, <2>4 DEF Named, SvcDirs
  <2> HIDE DEF x, o
  <2>6. at = "stage" => sProc[p].mode = "exclusive" /\ sDir["release"] = NoFile /\ n = "stage"
    BY <1>1 DEF InstallerKept, Busy, HeldPcs, MadeName
  <2>7. Spares(sProc[p], sDir', sSpent.published)
    <3>1. n = "stage" <=> at = "stage"
      BY DEF MadeName
    <3>2. \A m \in SvcNames : sDir[m] # NoFile => sDir'[m] = sDir[m]
      BY <1>4, <2>5
    <3>3. {"container", "witness", "root", "rootWitness", "lock", "lockWitness", "pending",
           "record", "stage", "release", "file"} = SvcNames
      BY DEF SvcNames, Data, Directories
    <3>4. CASE at = "stage"
      BY <1>1, <2>6, <3>2, <3>3, <3>4 DEF Spares, HeldPcs
    <3>5. CASE at # "stage"
      <4>1. n \notin {"record", "stage", "release", "file"}
        BY <2>2, <3>1, <3>5 DEF Directories
      <4> QED
        BY <2>5, <3>2, <3>3, <4>1 DEF Spares
    <3> QED
      BY <3>4, <3>5
  <2>8. InstallerKept(x, sDir', sSpent.published)
    <3>1. /\ sDir'["record"] = sDir["record"] /\ sDir'["release"] = sDir["release"]
          /\ sDir'["file"] = sDir["file"] /\ sDir'["container"] = sDir["container"]
      BY <2>2, <2>5 DEF SvcNames, Data, Directories
    <3>2. at \notin RecordPcs \cup {"stream", "rename", "flock"}
      BY DEF RecordPcs, MakePcs
    <3>3. at \in HeldPcs => at = "stage"
      BY DEF HeldPcs, MakePcs
    <3>4. Builds(x) => sDir'["pending"] # NoFile
      <4>1. CASE at = "pending"
        BY <2>5, <4>1 DEF MadeName
      <4>2. CASE at # "pending"
        <5>1. Builds(x) => Builds(sProc[p])
          BY <1>1, <2>3, <4>2 DEF Builds
        <5>2. Builds(sProc[p]) => sDir["pending"] # NoFile /\ n # "pending"
          BY <1>1, <4>2 DEF InstallerKept, MadeName
        <5> QED
          BY <2>5, <5>1, <5>2 DEF SvcNames, Directories
      <4> QED
        BY <4>1, <4>2
    <3>5. \A m \in {"root", "lock"} : sDir[m] # NoFile => sDir'[m] = sDir[m]
      BY <1>4, <2>5 DEF SvcNames, Directories
    <3>6. Busy(x) => x.mode = "exclusive"
      BY <1>1, <2>3 DEF InstallerKept, Busy
    <3>7. /\ at = "external" => sDir'["container"] # NoFile
          /\ at = "rootWitness" => sDir'["root"] # NoFile
          /\ at = "lockWitness" => sDir'["lock"] # NoFile
          /\ at = "stage" => sDir'["release"] = NoFile
          /\ at \in {"lockWitness"} \cup HeldPcs => sDir'["lock"] # NoFile /\ x.fd = sDir'["lock"].id
      BY <1>1, <2>3, <3>1, <3>5 DEF InstallerKept
    <3> QED
      <4>1. x.half => x.pc \in MakePcs /\ sDir'[MadeName(x.pc)] # NoFile
        BY <2>3, <2>5
      <4>2. x.pc \notin RecordPcs /\ x.pc \notin {"settle", "drop", "stream", "flock"}
        BY <2>3, <3>2 DEF RecordPcs
      <4> QED
        BY <2>3, <3>4, <3>6, <3>7, <4>1, <4>2 DEF InstallerKept
  <2>9. Shares(p, x)
    <3>1. at = "pending" => \A q \in Installers \ {p} : ~ Builds(sProc[q])
      BY <1>4, Standing DEF InstallerKept, MadeName
    <3>2. at # "pending" => (Builds(x) => Builds(sProc[p]))
      BY <1>1, <2>3 DEF Builds
    <3> QED
      BY <1>1, <2>3, <3>1, <3>2 DEF Shares
  <2>10. /\ sDir'["file"] = sDir["file"] /\ sDir'["release"] = sDir["release"]
         /\ sDir'["record"] = sDir["record"]
         /\ sDir["release"] # NoFile => sDir'["stage"] = NoFile
    <3>1. sDir["release"] # NoFile => sDir["stage"] = NoFile
      BY Typed DEF StoreTyped, SvcInv, ArtifactOnDisk
    <3>2. n # "stage" => sDir'["stage"] = sDir["stage"]
      BY <2>5 DEF SvcNames, Directories
    <3>3. n = "stage" => at = "stage"
      BY DEF MadeName
    <3> QED
      BY <2>2, <2>5, <2>6, <3>1, <3>2, <3>3 DEF SvcNames, Data, Directories
  <2> QED
    BY <1>4, <2>5, <2>7, <2>8, <2>9, <2>10, Counted, NamesMove DEF SvcQuiet
<1> QED
  BY <1>2, <1>3, <1>4

\* The place after an object is finished, and what holds there.
LEMMA CompleteStep ==
    ASSUME SvcInv, NEW p \in Installers, NEW at \in MakePcs, NEW next,
           <<at, next>> \in Makings, CompleteObject(p, at, MadeName(at), next)
    PROVE  SvcInv'
<1> DEFINE n == MadeName(at)
           done == [sDir EXCEPT ![n].whole = TRUE]
           f == IF n = "lock" THEN sDir["lock"].id ELSE sProc[p].fd
           x == [sProc[p] EXCEPT !.half = FALSE, !.pc = next, !.fd = f]
<1>1. /\ sProc[p].pc = at /\ sProc[p].half = TRUE /\ sProc[p] \in SvcProc
      /\ InstallerKept(sProc[p], sDir, sSpent.published) /\ Shares(p, sProc[p])
  BY Standing DEF CompleteObject, SvcProc
<1>2. \/ /\ sDir' = done /\ SvcFlush /\ SvcSound /\ SvcQuiet
         /\ sProc' = [sProc EXCEPT ![p] = x]
      \/ sDir' \in {sDir, done} /\ SvcNoFlush /\ SvcFault /\ ManualCleanup(p)
  BY DEF CompleteObject, SvcSet
<1>3. n \in Directories \ {"release", "record", "container"} /\ n \in SvcNames
  BY DEF MakePcs, MadeName, Directories, SvcNames
<1>4. sDir \in SvcDirs /\ sDir[n] # NoFile
  BY <1>1, Typed DEF StoreTyped, InstallerKept
<1>5. PICK o \in SvcObject : o = sDir[n]
  BY <1>3, <1>4 DEF SvcDirs
<1>6. [o EXCEPT !.whole = TRUE] \in SvcObject /\ [o EXCEPT !.whole = TRUE].id = o.id
  BY DEF SvcObject
<1>7. /\ done \in SvcDirs /\ done[n] # NoFile /\ done[n].id = sDir[n].id
      /\ \A m \in SvcNames \ {n} : done[m] = sDir[m]
  <2>1. done = [sDir EXCEPT ![n] = [o EXCEPT !.whole = TRUE]]
    BY <1>5
  <2>2. [o EXCEPT !.whole = TRUE] # NoFile
    BY <1>6, ServiceAssumption
  <2> QED
    BY <1>3, <1>4, <1>5, <1>6, <2>1, <2>2 DEF SvcDirs
<1> HIDE DEF done
<1>8. /\ sDir' \in SvcDirs /\ sDir'[n] # NoFile /\ sDir'[n].id = sDir[n].id
      /\ \A m \in SvcNames \ {n} : sDir'[m] = sDir[m]
  BY <1>2, <1>4, <1>7
<1>9. \A m \in SvcNames : sDir[m] # NoFile => sDir'[m] # NoFile /\ sDir'[m].id = sDir[m].id
  BY <1>8
<1>10. at = "stage" => sProc[p].mode = "exclusive" /\ sDir["release"] = NoFile /\ at \in HeldPcs
  BY <1>1 DEF InstallerKept, Busy, HeldPcs
<1>11. Spares(sProc[p], sDir', sSpent.published)
  <2>1. \A m \in {"container", "witness", "root", "rootWitness", "lock", "lockWitness", "pending"} :
           m \in SvcNames
    BY DEF SvcNames, Directories
  <2>2. at # "stage" => \A m \in {"record", "stage", "release", "file"} : sDir'[m] = sDir[m]
    BY <1>3, <1>8 DEF MadeName, SvcNames, Data, Directories
  <2> QED
    BY <1>1, <1>9, <1>10, <2>1, <2>2 DEF Spares
<1>12. /\ sDir'["file"] = sDir["file"] /\ sDir'["release"] = sDir["release"]
       /\ sDir'["record"] = sDir["record"]
       /\ sDir["release"] # NoFile => sDir'["stage"] = NoFile
  <2>1. sDir["release"] # NoFile => sDir["stage"] = NoFile
    BY Typed DEF StoreTyped, SvcInv, ArtifactOnDisk
  <2>2. n = "stage" => at = "stage"
    BY DEF MadeName
  <2>3. n # "stage" => sDir'["stage"] = sDir["stage"]
    BY <1>8 DEF SvcNames, Directories
  <2> QED
    BY <1>3, <1>8, <1>10, <2>1, <2>2, <2>3 DEF SvcNames, Data, Directories
<1>13. CASE sDir' \in {sDir, done} /\ SvcNoFlush /\ SvcFault /\ ManualCleanup(p)
  <2>1. Ends(p)
    BY <1>13 DEF Ends
  <2> QED
    BY <1>8, <1>11, <1>12, <1>13, <2>1, Ending, Counted, IdleInstaller, NamesMove
<1>14. CASE /\ sDir' = done /\ SvcFlush /\ SvcSound /\ SvcQuiet
            /\ sProc' = [sProc EXCEPT ![p] = x]
  <2>1. f \in Nat /\ next \in SvcPcs
    <3>1. next \in SvcPcs
      BY DEF Makings, SvcPcs, MakePcs, HeldPcs
    <3>2. n = "lock" => f = o.id
      BY <1>5
    <3> QED
      BY <1>1, <3>1, <3>2 DEF SvcProc, SvcObject
  <2> HIDE DEF f
  <2>2. x \in SvcProc /\ x.pc = next /\ x.half = FALSE /\ x.fd = f /\ x.mode = sProc[p].mode
    BY <1>1, <2>1 DEF SvcProc
  <2> HIDE DEF x
  <2>3. InstallerKept(x, sDir', sSpent.published)
    <3>1. next \notin RecordPcs \cup {"external", "stage", "stream"}
      BY DEF Makings, RecordPcs
    <3>2. Builds(x) => Builds(sProc[p]) /\ sDir'["pending"] # NoFile
      <4>1. Builds(x) => Builds(sProc[p])
        BY <1>1, <2>2 DEF Makings, Builds
      <4>2. Builds(sProc[p]) => sDir["pending"] # NoFile
        BY <1>1 DEF InstallerKept
      <4> QED
        BY <1>9, <4>1, <4>2 DEF SvcNames, Directories
    <3>3. next = "rootWitness" => sDir'["root"] # NoFile
      <4>1. next = "rootWitness" => at = "root"
        BY DEF Makings
      <4> QED
        BY <1>8, <4>1 DEF MadeName
    <3>4. next \in {"lockWitness", "flock"} \cup HeldPcs =>
             sDir'["lock"] # NoFile /\ f = sDir'["lock"].id
      <4>1. CASE at = "lock"
        <5>1. f = sDir["lock"].id /\ n = "lock"
          BY <4>1 DEF f, MadeName
        <5> QED
          BY <1>8, <5>1
      <4>2. CASE at \in {"lockWitness", "stage"}
        <5>1. f = sProc[p].fd
          BY <4>2 DEF f, MadeName
        <5>2. sDir["lock"] # NoFile /\ sProc[p].fd = sDir["lock"].id
          BY <1>1, <4>2 DEF InstallerKept, HeldPcs
        <5> QED
          BY <1>9, <5>1, <5>2 DEF SvcNames, Directories
      <4>3. CASE at \notin {"lock", "lockWitness", "stage"}
        BY <4>3 DEF Makings, HeldPcs
      <4> QED
        BY <4>1, <4>2, <4>3
    <3>5. ~ Busy(x)
      BY <2>2 DEF Busy, Makings, HeldPcs
    <3>6. next = "lockWitness" => sDir'["lock"] # NoFile
      BY <3>4
    <3> QED
      BY <2>2, <3>1, <3>2, <3>3, <3>4, <3>5, <3>6 DEF InstallerKept, RecordPcs
  <2>4. Shares(p, x)
    <3>1. Builds(x) => Builds(sProc[p])
      BY <1>1, <2>2 DEF Makings, Builds
    <3>2. next \in HeldPcs => at = "stage"
      BY DEF Makings, HeldPcs
    <3> QED
      BY <1>1, <1>10, <2>2, <3>1, <3>2 DEF Shares
  <2> QED
    BY <1>8, <1>11, <1>12, <1>14, <2>3, <2>4, Counted, NamesMove DEF SvcQuiet
<1> QED
  BY <1>2, <1>13, <1>14

\* Each making of the store's objects.
LEMMA MakeSteps ==
    ASSUME SvcInv, NEW p \in Installers,
           \/ CreatePendingContainer(p) \/ WriteContainerWitness(p)
           \/ RegisterExternalContainer(p) \/ CreateControlRoot(p) \/ WriteRootWitness(p)
           \/ CreateLock(p) \/ WriteLockWitness(p)
           \/ Make(p, "stage", "stage", 0, "held")
    PROVE  SvcInv'
<1>1. /\ MadeName("pending") = "pending" /\ MadeName("witness") = "witness"
      /\ MadeName("external") = "witness" /\ MadeName("root") = "root"
      /\ MadeName("rootWitness") = "rootWitness" /\ MadeName("lock") = "lock"
      /\ MadeName("lockWitness") = "lockWitness" /\ MadeName("stage") = "stage"
  BY DEF MadeName
<1>2. \A m \in SvcNames : sDir[m] # NoFile => sDir[m].id \in Nat
  BY Typed DEF StoreTyped, SvcDirs, SvcObject
<1>3. InstallerKept(sProc[p], sDir, sSpent.published)
  BY Standing
<1>4. ASSUME NEW at \in MakePcs, NEW of, NEW next, <<at, next>> \in Makings,
             sDir[MadeName(at)] = NoFile /\ sProc[p].pc = at => of \in Nat,
             Make(p, at, MadeName(at), of, next)
      PROVE  SvcInv'
  BY <1>4, CreateStep, CompleteStep DEF Make
<1>5. CASE CreatePendingContainer(p)
  <2>1. CASE Make(p, "pending", "pending", 0, "witness")
    <3>1. "pending" \in MakePcs /\ <<"pending", "witness">> \in Makings
      BY DEF MakePcs, Makings
    <3> QED
      BY <1>1, <1>4, <2>1, <3>1
  <2>2. CASE SvcKeep /\ SvcSound /\ ManualCleanup(p)
    BY <2>2, EndsOnly DEF Ends
  <2> QED
    BY <1>5, <2>1, <2>2 DEF CreatePendingContainer
<1>6. CASE WriteContainerWitness(p)
  <2>1. "witness" \in MakePcs /\ <<"witness", "rename">> \in Makings
    BY DEF MakePcs, Makings
  <2>2. sProc[p].pc = "witness" => sDir["pending"].id \in Nat
    BY <1>2, <1>6 DEF WriteContainerWitness, SvcNames, Directories
  <2> QED
    BY <1>1, <1>4, <1>6, <2>1, <2>2 DEF WriteContainerWitness
<1>7. CASE RegisterExternalContainer(p)
  <2>1. "external" \in MakePcs /\ <<"external", "rootLook">> \in Makings
    BY DEF MakePcs, Makings
  <2>2. sProc[p].pc = "external" => sDir["container"].id \in Nat
    BY <1>2, <1>3 DEF InstallerKept, SvcNames, Directories
  <2> QED
    BY <1>1, <1>4, <1>7, <2>1, <2>2 DEF RegisterExternalContainer
<1>8. CASE CreateControlRoot(p)
  <2>1. "root" \in MakePcs /\ <<"root", "rootWitness">> \in Makings
    BY DEF MakePcs, Makings
  <2> QED
    BY <1>1, <1>4, <1>8, <2>1 DEF CreateControlRoot
<1>9. CASE WriteRootWitness(p)
  <2>1. "rootWitness" \in MakePcs /\ <<"rootWitness", "open">> \in Makings
    BY DEF MakePcs, Makings
  <2>2. sProc[p].pc = "rootWitness" => sDir["root"].id \in Nat
    BY <1>2, <1>3 DEF InstallerKept, SvcNames, Directories
  <2> QED
    BY <1>1, <1>4, <1>9, <2>1, <2>2 DEF WriteRootWitness
<1>10. CASE CreateLock(p)
  <2>1. "lock" \in MakePcs /\ <<"lock", "lockWitness">> \in Makings
    BY DEF MakePcs, Makings
  <2> QED
    BY <1>1, <1>4, <1>10, <2>1 DEF CreateLock
<1>11. CASE WriteLockWitness(p)
  <2>1. "lockWitness" \in MakePcs /\ <<"lockWitness", "flock">> \in Makings
    BY DEF MakePcs, Makings
  <2>2. sProc[p].pc = "lockWitness" => sDir["lock"].id \in Nat
    BY <1>2, <1>11 DEF WriteLockWitness, SvcNames, Directories
  <2> QED
    BY <1>1, <1>4, <1>11, <2>1, <2>2 DEF WriteLockWitness
<1>12. CASE Make(p, "stage", "stage", 0, "held")
  <2>1. "stage" \in MakePcs /\ <<"stage", "held">> \in Makings
    BY DEF MakePcs, Makings
  <2> QED
    BY <1>1, <1>4, <1>12, <2>1
<1> QED
  BY <1>5, <1>6, <1>7, <1>8, <1>9, <1>10, <1>11, <1>12

\* The directory gets the container's name.
LEMMA PublishContainerStep ==
    ASSUME SvcInv, NEW p \in Installers, PublishContainer(p)
    PROVE  SvcInv'
<1> DEFINE moved == Moved(sDir, "pending", "container")
<1>1. /\ sProc[p].pc = "rename" /\ sProc[p].half = FALSE /\ sProc[p] \in SvcProc
      /\ sDir["pending"] # NoFile /\ Builds(sProc[p]) /\ Shares(p, sProc[p])
      /\ sDir["container"] = NoFile
  BY Standing DEF PublishContainer, InstallerKept, Builds, MakePcs, SvcProc
<1>2. \/ sDir' = moved /\ SvcFlush /\ SvcSound /\ SvcGo(p, "rootLook") /\ SvcQuiet
      \/ sDir' \in {sDir, moved} /\ SvcNoFlush /\ SvcFault /\ Ends(p)
  BY DEF PublishContainer, Ends
<1>3. sDir \in SvcDirs
  BY Typed DEF StoreTyped
<1>4. /\ moved \in SvcDirs /\ moved["pending"] = NoFile /\ moved["container"] = sDir["pending"]
      /\ \A m \in SvcNames \ {"pending", "container"} : moved[m] = sDir[m]
  BY <1>3 DEF Moved, SvcDirs, SvcNames, Directories
<1> HIDE DEF moved
<1>5. /\ sDir' \in SvcDirs
      /\ \A m \in SvcNames \ {"pending", "container"} : sDir'[m] = sDir[m]
  BY <1>2, <1>3, <1>4
<1>6. Spares(sProc[p], sDir', sSpent.published)
  BY <1>1, <1>5 DEF Spares, SvcNames, Data, Directories
<1>7. /\ sDir'["file"] = sDir["file"] /\ sDir'["release"] = sDir["release"]
      /\ sDir'["record"] = sDir["record"] /\ sDir'["stage"] = sDir["stage"]
      /\ sDir["release"] # NoFile => sDir'["stage"] = NoFile
  <2>1. sDir["release"] # NoFile => sDir["stage"] = NoFile
    BY Typed DEF StoreTyped, SvcInv, ArtifactOnDisk
  <2> QED
    BY <1>5, <2>1 DEF SvcNames, Data, Directories
<1>8. CASE SvcNoFlush /\ SvcFault /\ Ends(p)
  BY <1>5, <1>6, <1>7, <1>8, Ending, Counted, IdleInstaller, NamesMove
<1>9. CASE SvcFlush /\ SvcSound /\ SvcGo(p, "rootLook") /\ SvcQuiet
  <2>1. "rootLook" \in SvcPcs
    BY DEF SvcPcs
  <2>2. PICK x \in SvcProc :
              /\ sProc' = [sProc EXCEPT ![p] = x]
              /\ x.pc = "rootLook" /\ x.half = sProc[p].half /\ x.fd = sProc[p].fd
              /\ x.mode = sProc[p].mode
    BY <1>9, <2>1, Going
  <2>3. InstallerKept(x, sDir', sSpent.published) /\ Shares(p, x)
    BY <1>1, <2>2 DEF InstallerKept, Shares, Builds, Busy, HeldPcs, RecordPcs
  <2> QED
    BY <1>5, <1>6, <1>7, <1>9, <2>2, <2>3, Counted, NamesMove DEF SvcQuiet
<1> QED
  BY <1>2, <1>8, <1>9

-----------------------------------------------------------------------------
(* The exclusive holder.                                                   *)

\* Whom the lock authorizes is alone, and the store has its witnesses.
LEMMA Authorized ==
    ASSUME SvcInv, NEW p \in Installers, ServiceLockAuthorizes(p)
    PROVE  /\ sProc[p].pc = "held" /\ sProc[p].half = FALSE /\ sProc[p].mode = "exclusive"
           /\ sProc[p].pc \in HeldPcs
           /\ sDir["witness"] # NoFile /\ sDir["root"] # NoFile
<1>1. sProc[p].pc = "held" /\ sProc[p].mode = "exclusive"
  BY DEF ServiceLockAuthorizes
<1>2. sProc[p].half = FALSE
  BY <1>1, Standing DEF InstallerKept, MakePcs, SvcProc
<1>3. sDir["witness"] # NoFile /\ sDir["root"] # NoFile
  BY DEF ServiceLockAuthorizes, RevalidateServiceStoreHandle, Witnessed
<1> QED
  BY <1>1, <1>2, <1>3 DEF HeldPcs

\* Where the holder may go, and what has to hold there.
LEMMA HolderAt ==
    ASSUME SvcInv, NEW p \in Installers, sProc[p].pc \in HeldPcs, sProc[p].mode = "exclusive",
           NEW x \in SvcProc, x.pc \in HeldPcs, x.half = FALSE,
           x.fd = sProc[p].fd, x.mode = sProc[p].mode,
           NEW dir, dir["lock"] = sDir["lock"], NEW published,
           x.pc \in RecordPcs => dir["witness"] # NoFile /\ dir["root"] # NoFile /\ published >= 1,
           x.pc \in {"settle", "drop"} => dir["record"] # NoFile /\ dir["record"].of = published,
           x.pc = "stage" => dir["release"] = NoFile,
           x.pc = "stream" => dir["file"] # NoFile
    PROVE  InstallerKept(x, dir, published) /\ Shares(p, x)
<1>1. sDir["lock"] # NoFile /\ sProc[p].fd = sDir["lock"].id /\ Shares(p, sProc[p])
  BY Standing DEF InstallerKept
<1>2. ~ Builds(x)
  BY DEF Builds, HeldPcs
<1>3. x.pc \notin {"external", "rootWitness", "lockWitness"}
  BY DEF HeldPcs
<1>4. InstallerKept(x, dir, published)
  BY <1>1, <1>2, <1>3 DEF InstallerKept
<1>5. Shares(p, x)
  BY <1>1, <1>2 DEF Shares
<1> QED
  BY <1>4, <1>5

\* The holder goes there.
LEMMA HolderGoes ==
    ASSUME SvcInv, NEW p \in Installers, sProc[p].pc \in HeldPcs, sProc[p].mode = "exclusive",
           sProc[p].half = FALSE, NEW pc \in HeldPcs, SvcGo(p, pc),
           NEW dir, dir["lock"] = sDir["lock"],
           pc \in RecordPcs => dir["witness"] # NoFile /\ dir["root"] # NoFile
                               /\ sSpent.published >= 1,
           pc \in {"settle", "drop"} => dir["record"] # NoFile
                                        /\ dir["record"].of = sSpent.published,
           pc = "stage" => dir["release"] = NoFile,
           pc = "stream" => dir["file"] # NoFile
    PROVE  \E x : /\ sProc' = [sProc EXCEPT ![p] = x]
                  /\ InstallerKept(x, dir, sSpent.published) /\ Shares(p, x)
<1>1. pc \in SvcPcs
  BY DEF SvcPcs
<1>2. PICK x \in SvcProc :
              /\ sProc' = [sProc EXCEPT ![p] = x]
              /\ x.pc = pc /\ x.half = sProc[p].half /\ x.fd = sProc[p].fd
              /\ x.mode = sProc[p].mode
  BY <1>1, Going
<1>3. InstallerKept(x, dir, sSpent.published) /\ Shares(p, x)
  BY <1>2, HolderAt
<1> QED
  BY <1>2, <1>3

\* The holder minds itself alone.
LEMMA HolderSpares ==
    ASSUME SvcInv, NEW p \in Installers, sProc[p].pc \in HeldPcs, sProc[p].mode = "exclusive",
           NEW dir, NEW published,
           \A n \in {"container", "witness", "root", "rootWitness", "lock", "lockWitness",
                     "pending"} : dir[n] = sDir[n]
    PROVE  Spares(sProc[p], dir, published)
BY DEF Spares

\* A release that is there leaves no staging directory.
LEMMA ReleaseUnstaged ==
    ASSUME SvcInv, sDir["release"] # NoFile
    PROVE  sDir["stage"] = NoFile /\ Complete(sDir["file"])
BY Typed DEF StoreTyped, SvcInv, ArtifactOnDisk

-----------------------------------------------------------------------------
(* The publication of a record.                                            *)

\* A publication starts.
LEMMA PublishServiceFileAtomicStep ==
    ASSUME SvcInv, NEW p \in Installers, PublishServiceFileAtomic(p)
    PROVE  SvcInv'
<1> DEFINE b == sDir["record"]
           x == [sProc[p] EXCEPT !.pc = "candidate", !.before = b]
<1>1. /\ ServiceLockAuthorizes(p) /\ sSpent.published < MaxPublish
      /\ SvcKeep /\ SvcQuiet /\ sSpent' = [sSpent EXCEPT !.published = @ + 1]
      /\ sProc' = [sProc EXCEPT ![p] = x]
  BY DEF PublishServiceFileAtomic, SvcSet
<1>2. /\ sProc[p].half = FALSE /\ sProc[p].mode = "exclusive" /\ sProc[p].pc \in HeldPcs
      /\ sDir["witness"] # NoFile /\ sDir["root"] # NoFile /\ sProc[p] \in SvcProc
  BY <1>1, Authorized, Standing
<1>3. b \in SvcObject \cup {NoFile}
  BY Typed DEF StoreTyped, SvcDirs, SvcNames, Directories
<1> HIDE DEF b
<1>4. /\ x \in SvcProc /\ x.pc = "candidate" /\ x.half = FALSE /\ x.fd = sProc[p].fd
      /\ x.mode = sProc[p].mode
  BY <1>2, <1>3 DEF SvcProc, SvcPcs, HeldPcs
<1> HIDE DEF x
<1>5. /\ sSpent' \in SvcSpentType /\ sSpent'.published = sSpent.published + 1
      /\ sSpent.published \in Nat
  BY <1>1, Typed, ServiceAssumption DEF StoreTyped, SvcSpentType
<1>6. StoreTyped'
  BY <1>1, <1>5, Typed DEF StoreTyped, SvcKeep, SvcQuiet
<1>7. x.pc \in HeldPcs /\ x.pc \notin {"settle", "drop", "stage", "stream"}
  BY <1>4 DEF HeldPcs
<1>8. sSpent'.published >= 1
  BY <1>5
<1>9. InstallerKept(x, sDir', sSpent'.published) /\ Shares(p, x)
  BY <1>1, <1>2, <1>4, <1>7, <1>8, HolderAt DEF SvcKeep
<1>10. Spares(sProc[p], sDir', sSpent'.published)
  BY <1>1, <1>2, HolderSpares DEF SvcKeep
<1>11. ArtifactOnDisk(sDir', sDisk') /\ ToldOnDisk(sDisk', sTold', sPlatform', sManual')
  BY <1>1 DEF SvcInv, SvcKeep, SvcQuiet
<1> QED
  BY <1>1, <1>6, <1>9, <1>10, <1>11, InstallerMoves DEF SvcQuiet

\* What the holder has during a publication.
LEMMA Publishing ==
    ASSUME SvcInv, NEW p \in Installers, sProc[p].pc \in RecordPcs
    PROVE  /\ sProc[p].pc \in HeldPcs /\ sProc[p].mode = "exclusive" /\ sProc[p].half = FALSE
           /\ sDir["witness"] # NoFile /\ sDir["root"] # NoFile /\ sSpent.published >= 1
<1>1. sProc[p] \in SvcProc /\ InstallerKept(sProc[p], sDir, sSpent.published)
  BY Standing
<1>2. sProc[p].pc \notin MakePcs /\ Busy(sProc[p])
  BY DEF RecordPcs, MakePcs, Busy, HeldPcs
<1> QED
  BY <1>1, <1>2 DEF InstallerKept, SvcProc, Busy

\* The candidate is written, or not.
LEMMA CreateCandidateStep ==
    ASSUME SvcInv, NEW p \in Installers, CreateCandidate(p)
    PROVE  SvcInv'
<1>1. sProc[p].pc = "candidate" /\ SvcKeep
  BY DEF CreateCandidate
<1>2. \/ SvcSound /\ SvcQuiet /\ SvcGo(p, "publish")
      \/ SvcFault /\ Ends(p)
  BY DEF CreateCandidate, Ends
<1>3. CASE SvcFault /\ Ends(p)
  BY <1>1, <1>3, EndsOnly
<1>4. CASE SvcSound /\ SvcQuiet /\ SvcGo(p, "publish")
  <2>1. sProc[p].pc \in RecordPcs /\ "publish" \in HeldPcs
    BY <1>1 DEF RecordPcs, HeldPcs
  <2>2. PICK x : /\ sProc' = [sProc EXCEPT ![p] = x]
                 /\ InstallerKept(x, sDir, sSpent.published) /\ Shares(p, x)
    BY <1>4, <2>1, Publishing, HolderGoes
  <2> QED
    BY <1>1, <1>4, <2>2, Counted, InstallerOnly DEF SvcKeep, SvcQuiet
<1> QED
  BY <1>2, <1>3, <1>4

\* The record gets its name, or the exchange fails.
LEMMA PublishCandidateStep ==
    ASSUME SvcInv, NEW p \in Installers, PublishCandidate(p)
    PROVE  SvcInv'
<1> DEFINE o == SvcNew(sSpent.published, TRUE)
<1>1. sProc[p].pc \in RecordPcs
  BY DEF PublishCandidate, RecordPcs
<1>2. /\ sProc[p].pc \in HeldPcs /\ sProc[p].mode = "exclusive" /\ sProc[p].half = FALSE
      /\ sDir["witness"] # NoFile /\ sDir["root"] # NoFile /\ sSpent.published >= 1
  BY <1>1, Publishing
<1>3. sDir \in SvcDirs /\ sSpent.published \in Nat
  BY Typed DEF StoreTyped
<1>4. o \in SvcObject /\ o # NoFile /\ o.of = sSpent.published
  BY <1>3, NewObject
<1>5. \/ /\ sDir' = Named(sDir, "record", o) /\ SvcNoFlush /\ SvcSound /\ SvcQuiet
         /\ SvcGo(p, "settle")
      \/ UnpublishedCandidate(p)
  BY DEF PublishCandidate
<1> HIDE DEF o
<1>6. \/ UNCHANGED sDir
      \/ sDir' = Named(sDir, "record", o) \/ sDir' = Unlinked(sDir, "record")
  BY <1>5 DEF UnpublishedCandidate, SvcKeep
<1>7. /\ sDir' \in SvcDirs /\ \A n \in SvcNames \ {"record"} : sDir'[n] = sDir[n]
  BY <1>3, <1>4, <1>6 DEF Named, Unlinked, SvcDirs
<1>8. /\ sDir'["file"] = sDir["file"] /\ sDir'["release"] = sDir["release"]
      /\ sDir["release"] # NoFile => sDir'["stage"] = NoFile
      /\ sDir'["lock"] = sDir["lock"] /\ sDir'["witness"] = sDir["witness"]
      /\ sDir'["root"] = sDir["root"]
  BY <1>7, ReleaseUnstaged DEF SvcNames, Data, Directories
<1>9. Spares(sProc[p], sDir', sSpent.published)
  BY <1>2, <1>7, HolderSpares DEF SvcNames, Data, Directories
<1>10. CASE /\ sDir' = Named(sDir, "record", o) /\ SvcNoFlush /\ SvcSound /\ SvcQuiet
            /\ SvcGo(p, "settle")
  <2>1. sDir'["record"] # NoFile /\ sDir'["record"].of = sSpent.published
    BY <1>3, <1>4, <1>10 DEF Named, SvcDirs, SvcNames, Directories
  <2>2. "settle" \in HeldPcs
    BY DEF HeldPcs
  <2>3. PICK x : /\ sProc' = [sProc EXCEPT ![p] = x]
                 /\ InstallerKept(x, sDir', sSpent.published) /\ Shares(p, x)
    BY <1>2, <1>8, <1>10, <2>1, <2>2, HolderGoes
  <2> QED
    BY <1>7, <1>8, <1>9, <1>10, <2>1, <2>3, Counted, NamesMove DEF SvcQuiet
<1>11. CASE UnpublishedCandidate(p)
  <2>1. SvcFault /\ Ends(p)
    BY <1>11 DEF UnpublishedCandidate, Ends
  <2>2. CASE SvcKeep
    BY <2>1, <2>2, EndsOnly
  <2>3. CASE UNCHANGED sDir /\ SvcFlush
    BY <1>7, <1>8, <1>9, <2>1, <2>3, Ending, Counted, IdleInstaller, NamesMove
  <2>4. CASE /\ sPlatform = "windows" /\ sDir' = Unlinked(sDir, "record")
             /\ SvcNoFlush /\ ManualCleanup(p)
    <3>1. sManual' = TRUE
      BY <2>4 DEF ManualCleanup
    <3> QED
      BY <1>7, <1>8, <1>9, <2>1, <2>4, <3>1, Ending, Counted, IdleInstaller, NamesMove
  <2> QED
    BY <1>11, <2>2, <2>3, <2>4 DEF UnpublishedCandidate
<1> QED
  BY <1>5, <1>10, <1>11

\* A flush leaves the directories as they are named now.
LEMMA FlushedOnly ==
    ASSUME SvcInv, UNCHANGED sDir, SvcFlush
    PROVE  /\ IsFiniteSet(sDisk') /\ sDisk' \subseteq SvcDirs /\ sDir \in sDisk'
           /\ \A d \in sDisk' : \A n \in Directories : d[n] = sDir[n]
           /\ ArtifactOnDisk(sDir, sDisk')
<1>0. StoreTyped
  BY Typed
<1>1. Directories \subseteq SvcNames /\ SvcNames \ Directories = {"file"}
  BY DEF SvcNames, Directories, Data
<1>2. sDisk' = Flushed(sDisk, sDir, Directories)
  BY DEF SvcFlush
<1>3. /\ IsFiniteSet(sDisk') /\ sDisk' \subseteq SvcDirs /\ sDir \in sDisk'
      /\ \A d \in sDisk' : \E e \in sDisk :
            (\A n \in Directories : d[n] = sDir[n]) /\ d["file"] = e["file"]
  BY <1>0, <1>1, <1>2, DiskStates DEF StoreTyped
<1>4. ArtifactOnDisk(sDir, sDisk')
  <2>1. ArtifactOnDisk(sDir, sDisk) /\ sDir \in sDisk
    BY <1>0 DEF SvcInv, StoreTyped
  <2>2. \A d \in sDisk' : /\ d["release"] = sDir["release"] /\ d["stage"] = sDir["stage"]
                          /\ \E e \in sDisk : d["file"] = e["file"]
    BY <1>3 DEF Directories
  <2> QED
    BY <2>1, <2>2 DEF ArtifactOnDisk
<1> QED
  BY <1>3, <1>4

\* The record is reported once its directory was flushed.
LEMMA PublishedStep ==
    ASSUME SvcInv, NEW p \in Installers, sProc[p].pc \in {"settle", "drop"},
           UNCHANGED sDir, SvcFlush, SvcSound, Published(p)
    PROVE  SvcInv'
<1> DEFINE x == [sProc[p] EXCEPT !.pc = "held", !.before = NoFile]
<1>1. sProc[p].pc \in RecordPcs
  BY DEF RecordPcs
<1>2. /\ sProc[p].pc \in HeldPcs /\ sProc[p].mode = "exclusive" /\ sProc[p].half = FALSE
      /\ sDir["witness"] # NoFile /\ sDir["root"] # NoFile /\ sProc[p] \in SvcProc
  BY <1>1, Publishing, Standing
<1>3. sDir["record"] # NoFile /\ sDir["record"].of = sSpent.published
  BY Standing DEF InstallerKept
<1>4. /\ sTold' = sSpent.published /\ UNCHANGED <<sPlatform, sManual, sSpent>>
      /\ sProc' = [sProc EXCEPT ![p] = x]
  BY <1>3 DEF Published, SvcSet, SvcSound
<1>5. /\ x \in SvcProc /\ x.pc = "held" /\ x.half = FALSE /\ x.fd = sProc[p].fd
      /\ x.mode = sProc[p].mode
  BY <1>2 DEF SvcProc, SvcPcs, HeldPcs
<1> HIDE DEF x
<1>6. x.pc \in HeldPcs /\ x.pc \notin RecordPcs \cup {"settle", "drop", "stage", "stream"}
  BY <1>5 DEF HeldPcs, RecordPcs
<1>7. InstallerKept(x, sDir', sSpent'.published) /\ Shares(p, x)
  BY <1>2, <1>4, <1>5, <1>6, HolderAt
<1>8. Spares(sProc[p], sDir', sSpent'.published)
  BY <1>2, HolderSpares
<1>9. /\ IsFiniteSet(sDisk') /\ sDisk' \subseteq SvcDirs /\ sDir \in sDisk'
      /\ \A d \in sDisk' : \A n \in Directories : d[n] = sDir[n]
      /\ ArtifactOnDisk(sDir, sDisk')
  BY FlushedOnly
<1>10. StoreTyped'
  <2>1. sSpent.published \in 0..MaxPublish /\ sSpent.published \in Nat
    BY Typed DEF StoreTyped, SvcSpentType
  <2> QED
    BY <1>4, <1>9, <2>1, Typed DEF StoreTyped
<1>11. ToldOnDisk(sDisk', sTold', sPlatform', sManual')
  <2>1. \A d \in sDisk' : /\ d["witness"] = sDir["witness"] /\ d["root"] = sDir["root"]
                          /\ d["record"] = sDir["record"]
    BY <1>9 DEF Directories
  <2>2. sSpent.published >= sTold' /\ sDir["record"].of >= sTold'
    BY <1>3, <1>4, Typed DEF StoreTyped
  <2> QED
    BY <1>2, <1>3, <2>1, <2>2 DEF ToldOnDisk
<1>12. ArtifactOnDisk(sDir', sDisk')
  BY <1>9
<1> QED
  BY <1>4, <1>7, <1>8, <1>10, <1>11, <1>12, InstallerMoves

\* Read back and flushed, and the displaced record removed.
LEMMA SettleSteps ==
    ASSUME SvcInv, NEW p \in Installers, SettlePublished(p) \/ RemoveServiceStoreNamedFile(p)
    PROVE  SvcInv'
<1>1. sProc[p].pc \in {"settle", "drop"} /\ sProc[p].pc \in RecordPcs
  BY DEF SettlePublished, RemoveServiceStoreNamedFile, RecordPcs
<1>2. \/ UNCHANGED sDir /\ SvcFlush /\ SvcSound /\ Published(p)
      \/ UNCHANGED sDir /\ SvcFlush /\ SvcSound /\ SvcGo(p, "drop") /\ SvcQuiet
      \/ SvcKeep /\ SvcFault /\ Ends(p)
  BY DEF SettlePublished, RemoveServiceStoreNamedFile, Ends
<1>3. CASE UNCHANGED sDir /\ SvcFlush /\ SvcSound /\ Published(p)
  BY <1>1, <1>3, PublishedStep
<1>4. CASE SvcKeep /\ SvcFault /\ Ends(p)
  BY <1>4, EndsOnly
<1>5. CASE UNCHANGED sDir /\ SvcFlush /\ SvcSound /\ SvcGo(p, "drop") /\ SvcQuiet
  <2>1. /\ sProc[p].pc \in HeldPcs /\ sProc[p].mode = "exclusive" /\ sProc[p].half = FALSE
        /\ sDir["witness"] # NoFile /\ sDir["root"] # NoFile /\ sSpent.published >= 1
    BY <1>1, Publishing
  <2>2. sDir["record"] # NoFile /\ sDir["record"].of = sSpent.published
    BY <1>1, Standing DEF InstallerKept
  <2>3. "drop" \in HeldPcs
    BY DEF HeldPcs
  <2>4. PICK x : /\ sProc' = [sProc EXCEPT ![p] = x]
                 /\ InstallerKept(x, sDir, sSpent.published) /\ Shares(p, x)
    BY <1>5, <2>1, <2>2, <2>3, HolderGoes
  <2>5. Spares(sProc[p], sDir', sSpent.published)
    BY <1>5, <2>1, HolderSpares
  <2>6. sDir \in SvcDirs /\ (sDir["release"] # NoFile => sDir["stage"] = NoFile)
    BY Typed, ReleaseUnstaged DEF StoreTyped
  <2> QED
    BY <1>5, <2>4, <2>5, <2>6, Counted, NamesMove DEF SvcQuiet
<1> QED
  BY <1>2, <1>3, <1>4, <1>5

-----------------------------------------------------------------------------
(* The artifact.                                                           *)

\* A change of the artifact's file: the names of the directories stay, on the
\* disk too; the file is as it is now or as it was.
LEMMA BytesOnDisk ==
    ASSUME NEW disk, IsFiniteSet(disk), disk \subseteq SvcDirs, NEW old \in disk,
           NEW dir \in SvcDirs, \A n \in Directories : dir[n] = old[n],
           NEW disk2, disk2 = Recorded(disk, dir, Data) \/ disk2 = Flushed(disk, dir, Data)
    PROVE  /\ IsFiniteSet(disk2) /\ disk2 \subseteq SvcDirs /\ dir \in disk2
           /\ \A d \in disk2 : \E e \in disk : \A n \in Directories : d[n] = e[n]
           /\ \A d \in disk2 : d["file"] = dir["file"] \/ d \in disk
           /\ disk2 = Flushed(disk, dir, Data) => \A d \in disk2 : d["file"] = dir["file"]
<1>1. Data \subseteq SvcNames /\ SvcNames \ Data = Directories /\ Data = {"file"}
  BY DEF SvcNames, Data, Directories
<1>2. /\ IsFiniteSet(disk2) /\ disk2 \subseteq SvcDirs /\ dir \in disk2
      /\ \A d \in disk2 :
            \/ d \in disk /\ disk2 # Flushed(disk, dir, Data)
            \/ \E e \in disk : /\ \A n \in Data : d[n] = dir[n]
                               /\ \A n \in SvcNames \ Data : d[n] = e[n]
  BY <1>1, DiskStates
<1>3. \A d \in disk2 :
         \/ d \in disk /\ disk2 # Flushed(disk, dir, Data)
         \/ d["file"] = dir["file"] /\ \E e \in disk : \A n \in Directories : d[n] = e[n]
  BY <1>1, <1>2
<1> QED
  BY <1>2, <1>3

\* The holder, when it goes on or ends, with the artifact's file changed.
LEMMA HolderBytes ==
    ASSUME SvcInv, NEW p \in Installers, sProc[p].pc \in HeldPcs, sProc[p].mode = "exclusive",
           sProc[p].half = FALSE, sDir' \in SvcDirs,
           \A n \in Directories : sDir'[n] = sDir[n],
           IsFiniteSet(sDisk'), sDisk' \subseteq SvcDirs, sDir' \in sDisk',
           \A d \in sDisk' : \E e \in sDisk : \A n \in Directories : d[n] = e[n],
           sDir["release"] = NoFile \/ \A d \in sDisk' : Complete(d["file"]),
           \A d \in sDisk' : Sealed(d["file"]) => Complete(d["file"]),
           Sealed(sDir'["file"]) => \A d \in sDisk' : Complete(d["file"]),
           \/ SvcGo(p, "held") /\ SvcSound /\ SvcQuiet
           \/ SvcGo(p, "stream") /\ SvcSound /\ SvcQuiet /\ sDir'["file"] # NoFile
           \/ Ends(p) /\ SvcFault
    PROVE  SvcInv'
<1>1. CASE Ends(p) /\ SvcFault
  BY <1>1, Ending, Counted, IdleInstaller, BytesMove
<1>2. ASSUME NEW pc \in {"held", "stream"}, SvcGo(p, pc), SvcSound, SvcQuiet,
             pc = "stream" => sDir'["file"] # NoFile
      PROVE  SvcInv'
  <2>1. pc \in HeldPcs /\ pc \notin RecordPcs \cup {"settle", "drop", "stage"}
    BY DEF HeldPcs, RecordPcs
  <2>2. sDir'["lock"] = sDir["lock"]
    BY DEF Directories
  <2>3. PICK x : /\ sProc' = [sProc EXCEPT ![p] = x]
                 /\ InstallerKept(x, sDir', sSpent.published) /\ Shares(p, x)
    BY <1>2, <2>1, <2>2, HolderGoes
  <2> QED
    BY <1>2, <2>3, Counted, BytesMove DEF SvcQuiet
<1> QED
  BY <1>1, <1>2

\* The holder, when it goes on or ends, with names of the artifact changed.
LEMMA HolderNames ==
    ASSUME SvcInv, NEW p \in Installers, sProc[p].pc \in HeldPcs, sProc[p].mode = "exclusive",
           sProc[p].half = FALSE, sDir' \in SvcDirs,
           \A n \in SvcNames \ {"stage", "release"} : sDir'[n] = sDir[n],
           SvcFlush \/ SvcNoFlush,
           \/ sDir'["release"] = sDir["release"]
                /\ (sDir["release"] # NoFile => sDir'["stage"] = NoFile)
           \/ /\ sDir["release"] = NoFile /\ sDir'["release"] # NoFile
              /\ sDir'["release"].sealed /\ sDir'["stage"] = NoFile /\ Sealed(sDir["file"]),
           \/ SvcGo(p, "held") /\ SvcSound /\ SvcQuiet
           \/ Ends(p) /\ SvcFault
    PROVE  SvcInv'
<1>1. /\ sDir'["file"] = sDir["file"] /\ sDir'["record"] = sDir["record"]
      /\ sDir'["lock"] = sDir["lock"]
  BY DEF SvcNames, Data, Directories
<1>2. Spares(sProc[p], sDir', sSpent.published)
  BY HolderSpares DEF SvcNames, Directories
<1>3. CASE Ends(p) /\ SvcFault
  BY <1>1, <1>2, <1>3, Ending, Counted, IdleInstaller, NamesMove
<1>4. CASE SvcGo(p, "held") /\ SvcSound /\ SvcQuiet
  <2>1. "held" \in HeldPcs /\ "held" \notin RecordPcs \cup {"settle", "drop", "stage", "stream"}
    BY DEF HeldPcs, RecordPcs
  <2>2. PICK x : /\ sProc' = [sProc EXCEPT ![p] = x]
                 /\ InstallerKept(x, sDir', sSpent.published) /\ Shares(p, x)
    BY <1>1, <1>4, <2>1, HolderGoes
  <2> QED
    BY <1>1, <1>2, <1>4, <2>2, Counted, NamesMove DEF SvcQuiet
<1> QED
  BY <1>3, <1>4

\* A staging directory is asked for.
LEMMA OpenServiceDirectoryStep ==
    ASSUME SvcInv, NEW p \in Installers, OpenServiceDirectory(p)
    PROVE  SvcInv'
<1>1. CASE Make(p, "stage", "stage", 0, "held")
  BY <1>1, MakeSteps
<1>2. CASE /\ ServiceLockAuthorizes(p) /\ sDir["release"] = NoFile
           /\ SvcGo(p, "stage") /\ SvcKeep /\ SvcSound /\ SvcQuiet
  <2>1. "stage" \in HeldPcs /\ "stage" \notin RecordPcs \cup {"settle", "drop", "stream"}
    BY DEF HeldPcs, RecordPcs
  <2>2. PICK x : /\ sProc' = [sProc EXCEPT ![p] = x]
                 /\ InstallerKept(x, sDir, sSpent.published) /\ Shares(p, x)
    BY <1>2, <2>1, Authorized, HolderGoes
  <2> QED
    BY <1>2, <2>2, Counted, InstallerOnly DEF SvcKeep, SvcQuiet
<1> QED
  BY <1>1, <1>2 DEF OpenServiceDirectory

\* The artifact's file is created.
LEMMA BeginServiceArtifactWriteStep ==
    ASSUME SvcInv, NEW p \in Installers, BeginServiceArtifactWrite(p)
    PROVE  SvcInv'
<1> DEFINE o == SvcNew(0, TRUE)
<1>1. ServiceLockAuthorizes(p) /\ sDir["stage"] # NoFile
  BY DEF BeginServiceArtifactWrite, StagedFor
<1>2. /\ sProc[p].pc \in HeldPcs /\ sProc[p].mode = "exclusive" /\ sProc[p].half = FALSE
      /\ sDir["release"] = NoFile
  BY <1>1, Authorized, ReleaseUnstaged
<1>3. o \in SvcObject /\ o # NoFile /\ o.sealed = FALSE
  BY NewObject
<1>4. \/ /\ sDir' = Named(sDir, "file", o)
         /\ sDisk' = Recorded(sDisk, sDir', Data) \/ sDisk' = Flushed(sDisk, sDir', Data)
         /\ (SvcGo(p, "stream") /\ SvcSound /\ SvcQuiet) \/ (Ends(p) /\ SvcFault)
      \/ SvcKeep /\ SvcSound /\ Ends(p)
  BY DEF BeginServiceArtifactWrite, Ends
<1> HIDE DEF o
<1>5. CASE SvcKeep /\ SvcSound /\ Ends(p)
  BY <1>5, EndsOnly
<1>6. CASE /\ sDir' = Named(sDir, "file", o)
           /\ sDisk' = Recorded(sDisk, sDir', Data) \/ sDisk' = Flushed(sDisk, sDir', Data)
           /\ (SvcGo(p, "stream") /\ SvcSound /\ SvcQuiet) \/ (Ends(p) /\ SvcFault)
  <2>1. /\ sDir \in SvcDirs /\ sDir \in sDisk /\ IsFiniteSet(sDisk) /\ sDisk \subseteq SvcDirs
        /\ ArtifactOnDisk(sDir, sDisk)
    BY Typed DEF StoreTyped, SvcInv
  <2>2. /\ sDir' \in SvcDirs /\ sDir'["file"] = o
        /\ \A n \in Directories : sDir'[n] = sDir[n]
    BY <1>3, <1>6, <2>1 DEF Named, SvcDirs, SvcNames, Data, Directories
  <2>3. /\ IsFiniteSet(sDisk') /\ sDisk' \subseteq SvcDirs /\ sDir' \in sDisk'
        /\ \A d \in sDisk' : \E e \in sDisk : \A n \in Directories : d[n] = e[n]
        /\ \A d \in sDisk' : d["file"] = o \/ d \in sDisk
    BY <1>6, <2>1, <2>2, BytesOnDisk
  <2>4. \A d \in sDisk' : Sealed(d["file"]) => Complete(d["file"])
    BY <1>3, <2>1, <2>3 DEF ArtifactOnDisk, Sealed
  <2>5. ~ Sealed(sDir'["file"]) /\ sDir'["file"] # NoFile
    BY <1>3, <2>2 DEF Sealed
  <2> QED
    BY <1>2, <1>6, <2>2, <2>3, <2>4, <2>5, HolderBytes
<1> QED
  BY <1>4, <1>5, <1>6

\* What the process that streams has.
LEMMA Streaming ==
    ASSUME SvcInv, NEW p \in Installers, sProc[p].pc = "stream"
    PROVE  /\ sProc[p].pc \in HeldPcs /\ sProc[p].mode = "exclusive" /\ sProc[p].half = FALSE
           /\ sDir["file"] \in SvcObject /\ sDir["file"] # NoFile
<1>1. sProc[p] \in SvcProc /\ InstallerKept(sProc[p], sDir, sSpent.published)
  BY Standing
<1>2. sProc[p].pc \notin MakePcs /\ Busy(sProc[p]) /\ sProc[p].pc \in HeldPcs
  BY DEF MakePcs, Busy, HeldPcs
<1>3. sDir["file"] \in SvcObject \cup {NoFile}
  BY Typed DEF StoreTyped, SvcDirs, SvcNames, Data
<1> QED
  BY <1>1, <1>2, <1>3 DEF InstallerKept, SvcProc

\* A chunk is added to the file; it is not sealed, and no release is there.
LEMMA WriteServiceArtifactChunkStep ==
    ASSUME SvcInv, NEW p \in Installers, WriteServiceArtifactChunk(p)
    PROVE  SvcInv'
<1>1. sProc[p].pc = "stream" /\ sDir["file"].of < Chunks
  BY DEF WriteServiceArtifactChunk
<1>2. /\ sProc[p].pc \in HeldPcs /\ sProc[p].mode = "exclusive" /\ sProc[p].half = FALSE
      /\ sDir["file"] # NoFile
  BY <1>1, Streaming
<1>3. PICK file \in SvcObject : file = sDir["file"]
  BY <1>1, Streaming
<1>4. ~ Complete(file)
  BY <1>1, <1>3, ServiceAssumption DEF Complete, SvcObject
<1>5. /\ sDir \in SvcDirs /\ sDir \in sDisk /\ IsFiniteSet(sDisk) /\ sDisk \subseteq SvcDirs
      /\ ArtifactOnDisk(sDir, sDisk)
  BY Typed DEF StoreTyped, SvcInv
<1>6. sDir["release"] = NoFile /\ ~ Sealed(file)
  BY <1>3, <1>4, <1>5, ReleaseUnstaged DEF ArtifactOnDisk
<1>7. file.sealed = FALSE
  BY <1>2, <1>3, <1>6 DEF Sealed, SvcObject
<1>8. PICK o \in SvcObject :
         /\ sDir' = [sDir EXCEPT !["file"] = o] /\ o.sealed = FALSE
         /\ sDisk' = Recorded(sDisk, sDir', Data)
         /\ (SvcGo(p, "stream") /\ SvcSound /\ SvcQuiet) \/ (Ends(p) /\ SvcFault)
  <2>1. CASE \E right \in BOOLEAN :
             /\ sDir' = [sDir EXCEPT !["file"] = Appended(@, right)]
             /\ sDisk' = Recorded(sDisk, sDir', Data)
             /\ SvcGo(p, "stream") /\ SvcSound /\ SvcQuiet
    <3>1. PICK right \in BOOLEAN :
             sDir' = [sDir EXCEPT !["file"] = Appended(@, right)]
      BY <2>1
    <3>2. PICK w \in BOOLEAN : w = (file.whole /\ right)
      OBVIOUS
    <3>3. PICK n \in Nat : n = file.of + 1
      BY DEF SvcObject
    <3> DEFINE o == [file EXCEPT !.of = n, !.whole = w]
    <3>4. o \in SvcObject /\ o.sealed = FALSE
      BY <1>7 DEF SvcObject
    <3>5. Appended(file, right) = o
      BY <3>2, <3>3 DEF Appended, SvcObject
    <3> HIDE DEF o
    <3>6. sDir' = [sDir EXCEPT !["file"] = o]
      BY <1>3, <3>1, <3>5
    <3> QED
      BY <2>1, <3>4, <3>6
  <2>2. CASE /\ sDir' = [sDir EXCEPT !["file"].whole = FALSE]
             /\ sDisk' = Recorded(sDisk, sDir', Data) /\ SvcFault /\ ManualCleanup(p)
    <3> DEFINE o == [file EXCEPT !.whole = FALSE]
    <3>1. o \in SvcObject /\ o.sealed = FALSE
      BY <1>7 DEF SvcObject
    <3>2. sDir' = [sDir EXCEPT !["file"] = o]
      BY <1>3, <2>2
    <3> QED
      BY <2>2, <3>1, <3>2 DEF Ends
  <2> QED
    BY <2>1, <2>2 DEF WriteServiceArtifactChunk
<1>9. /\ sDir' \in SvcDirs /\ sDir'["file"] = o /\ o # NoFile
      /\ \A n \in Directories : sDir'[n] = sDir[n]
  BY <1>5, <1>8, ServiceAssumption DEF SvcDirs, SvcNames, Data, Directories
<1>10. /\ IsFiniteSet(sDisk') /\ sDisk' \subseteq SvcDirs /\ sDir' \in sDisk'
       /\ \A d \in sDisk' : \E e \in sDisk : \A n \in Directories : d[n] = e[n]
       /\ \A d \in sDisk' : d["file"] = o \/ d \in sDisk
  <2>1. sDisk' = Recorded(sDisk, sDir', Data)
    BY <1>8
  <2> QED
    BY <1>5, <1>9, <2>1, BytesOnDisk
<1>11. \A d \in sDisk' : Sealed(d["file"]) => Complete(d["file"])
  BY <1>5, <1>8, <1>10 DEF ArtifactOnDisk, Sealed
<1>12. ~ Sealed(sDir'["file"]) /\ sDir'["file"] # NoFile
  BY <1>8, <1>9 DEF Sealed
<1> QED
  BY <1>2, <1>6, <1>8, <1>9, <1>10, <1>11, <1>12, HolderBytes

\* The stream ends: its bytes are flushed before the file is sealed.
LEMMA FinishServiceArtifactWriteStep ==
    ASSUME SvcInv, NEW p \in Installers, FinishServiceArtifactWrite(p)
    PROVE  SvcInv'
<1> DEFINE final == [sDir EXCEPT !["file"].sealed = TRUE]
<1>1. sProc[p].pc = "stream"
  BY DEF FinishServiceArtifactWrite
<1>2. /\ sProc[p].pc \in HeldPcs /\ sProc[p].mode = "exclusive" /\ sProc[p].half = FALSE
      /\ sDir["file"] # NoFile
  BY <1>1, Streaming
<1>3. PICK file \in SvcObject : file = sDir["file"]
  BY <1>1, Streaming
<1>4. /\ sDir \in SvcDirs /\ sDir \in sDisk /\ IsFiniteSet(sDisk) /\ sDisk \subseteq SvcDirs
  BY Typed DEF StoreTyped
<1>5. \/ SvcKeep /\ Ends(p) /\ (SvcSound \/ SvcFault)
      \/ /\ file.of = Chunks /\ file.whole /\ sDir' = final
         /\ \/ /\ sDisk' = Flushed(sDisk, sDir', Data)
               /\ SvcGo(p, "held") /\ SvcSound /\ SvcQuiet
            \/ /\ sDisk' = Recorded(Flushed(sDisk, sDir, Data), sDir', Data)
               /\ Ends(p) /\ SvcFault
  BY <1>3 DEF FinishServiceArtifactWrite, Ends
<1>6. CASE SvcKeep /\ Ends(p) /\ (SvcSound \/ SvcFault)
  BY <1>6, EndsOnly
<1>7. CASE /\ file.of = Chunks /\ file.whole /\ sDir' = final
           /\ \/ /\ sDisk' = Flushed(sDisk, sDir', Data)
                 /\ SvcGo(p, "held") /\ SvcSound /\ SvcQuiet
              \/ /\ sDisk' = Recorded(Flushed(sDisk, sDir, Data), sDir', Data)
                 /\ Ends(p) /\ SvcFault
  <2> DEFINE o == [file EXCEPT !.sealed = TRUE]
  <2>1. o \in SvcObject /\ o.of = file.of /\ o.whole = file.whole
    BY DEF SvcObject
  <2>2. final = [sDir EXCEPT !["file"] = o]
    BY <1>3
  <2> HIDE DEF o, final
  <2>3. /\ sDir' \in SvcDirs /\ sDir'["file"] = o /\ o # NoFile
        /\ \A n \in Directories : sDir'[n] = sDir[n]
    BY <1>4, <1>7, <2>1, <2>2, ServiceAssumption DEF SvcDirs, SvcNames, Data, Directories
  <2>4. Complete(file) /\ Complete(o)
    BY <1>2, <1>3, <1>7, <2>1, <2>3 DEF Complete
  <2>5. /\ IsFiniteSet(sDisk') /\ sDisk' \subseteq SvcDirs /\ sDir' \in sDisk'
        /\ \A d \in sDisk' : \E e \in sDisk : \A n \in Directories : d[n] = e[n]
        /\ \A d \in sDisk' : Complete(d["file"])
    <3>1. CASE sDisk' = Flushed(sDisk, sDir', Data)
      BY <1>4, <2>3, <2>4, <3>1, BytesOnDisk
    <3>2. CASE sDisk' = Recorded(Flushed(sDisk, sDir, Data), sDir', Data)
      <4> DEFINE mid == Flushed(sDisk, sDir, Data)
      <4>1. mid = Flushed(sDisk, sDir, Data)
        OBVIOUS
      <4> HIDE DEF mid
      <4>2. /\ IsFiniteSet(mid) /\ mid \subseteq SvcDirs /\ sDir \in mid
            /\ \A d \in mid : \E e \in sDisk : \A n \in Directories : d[n] = e[n]
            /\ \A d \in mid : d["file"] = file
        BY <1>3, <1>4, <4>1, BytesOnDisk
      <4>3. /\ IsFiniteSet(sDisk') /\ sDisk' \subseteq SvcDirs /\ sDir' \in sDisk'
            /\ \A d \in sDisk' : \E e \in mid : \A n \in Directories : d[n] = e[n]
            /\ \A d \in sDisk' : d["file"] = o \/ d \in mid
        <5>1. sDisk' = Recorded(mid, sDir', Data)
          BY <3>2, <4>1
        <5> QED
          BY <2>3, <4>2, <5>1, BytesOnDisk
      <4>4. ASSUME NEW d \in sDisk'
            PROVE  \E e \in sDisk : \A n \in Directories : d[n] = e[n]
        <5>1. PICK m \in mid : \A n \in Directories : d[n] = m[n]
          BY <4>3
        <5>2. PICK e \in sDisk : \A n \in Directories : m[n] = e[n]
          BY <4>2
        <5> QED
          BY <5>1, <5>2
      <4>5. \A d \in sDisk' : Complete(d["file"])
        BY <2>4, <4>2, <4>3
      <4> QED
        BY <4>3, <4>4, <4>5
    <3> QED
      BY <1>7, <3>1, <3>2
  <2>6. (SvcGo(p, "held") /\ SvcSound /\ SvcQuiet) \/ (Ends(p) /\ SvcFault)
    BY <1>7
  <2> QED
    BY <1>2, <2>3, <2>5, <2>6, HolderBytes
<1> QED
  BY <1>5, <1>6, <1>7

\* What is staged is not released.
LEMMA Staged ==
    ASSUME SvcInv, NEW p \in Installers, ServiceLockAuthorizes(p), sDir["stage"] # NoFile
    PROVE  /\ sProc[p].pc \in HeldPcs /\ sProc[p].mode = "exclusive" /\ sProc[p].half = FALSE
           /\ sDir["release"] = NoFile /\ sDir \in SvcDirs
           /\ sDir["stage"] \in SvcObject
<1>1. sDir \in SvcDirs
  BY Typed DEF StoreTyped
<1>2. sDir["stage"] \in SvcObject
  BY <1>1 DEF SvcDirs, SvcNames, Directories
<1> QED
  BY <1>1, <1>2, Authorized, ReleaseUnstaged

\* The staging directory is sealed.
LEMMA SealServiceDirectoryStep ==
    ASSUME SvcInv, NEW p \in Installers, SealServiceDirectory(p)
    PROVE  SvcInv'
<1> DEFINE sealed == [sDir EXCEPT !["stage"].sealed = TRUE]
<1>1. ServiceLockAuthorizes(p) /\ sDir["stage"] # NoFile
  BY DEF SealServiceDirectory, StagedFor
<1>2. /\ sProc[p].pc \in HeldPcs /\ sProc[p].mode = "exclusive" /\ sProc[p].half = FALSE
      /\ sDir["release"] = NoFile /\ sDir \in SvcDirs
  BY <1>1, Staged
<1>3. PICK stage \in SvcObject : stage = sDir["stage"]
  BY <1>1, Staged
<1>4. sealed \in SvcDirs /\ \A n \in SvcNames \ {"stage"} : sealed[n] = sDir[n]
  <2> DEFINE o == [stage EXCEPT !.sealed = TRUE]
  <2>1. o \in SvcObject
    BY DEF SvcObject
  <2>2. sealed = [sDir EXCEPT !["stage"] = o]
    BY <1>3
  <2> HIDE DEF o
  <2> QED
    BY <1>2, <2>1, <2>2 DEF SvcDirs
<1>5. \/ SvcKeep /\ SvcSound /\ Ends(p)
      \/ /\ sDir' \in {sDir, sealed} /\ (SvcFlush \/ SvcNoFlush)
         /\ (SvcGo(p, "held") /\ SvcSound /\ SvcQuiet) \/ (Ends(p) /\ SvcFault)
  BY DEF SealServiceDirectory, Ends
<1> HIDE DEF sealed
<1>6. CASE SvcKeep /\ SvcSound /\ Ends(p)
  BY <1>6, EndsOnly
<1>7. CASE /\ sDir' \in {sDir, sealed} /\ (SvcFlush \/ SvcNoFlush)
           /\ (SvcGo(p, "held") /\ SvcSound /\ SvcQuiet) \/ (Ends(p) /\ SvcFault)
  <2>1. /\ sDir' \in SvcDirs /\ \A n \in SvcNames \ {"stage", "release"} : sDir'[n] = sDir[n]
        /\ sDir'["release"] = sDir["release"]
    BY <1>2, <1>4, <1>7 DEF SvcNames, Directories
  <2> QED
    BY <1>2, <1>7, <2>1, HolderNames
<1> QED
  BY <1>5, <1>6, <1>7

\* The sealed directory gets the release's name.
LEMMA PublishServiceDirectoryStep ==
    ASSUME SvcInv, NEW p \in Installers, PublishServiceDirectoryNoReplace(p)
    PROVE  SvcInv'
<1> DEFINE moved == Moved(sDir, "stage", "release")
<1>1. ServiceLockAuthorizes(p) /\ sDir["stage"] # NoFile /\ sDir["stage"].sealed
  BY DEF PublishServiceDirectoryNoReplace
<1>2. /\ sProc[p].pc \in HeldPcs /\ sProc[p].mode = "exclusive" /\ sProc[p].half = FALSE
      /\ sDir["release"] = NoFile /\ sDir \in SvcDirs
  BY <1>1, Staged
<1>3. /\ moved \in SvcDirs /\ moved["stage"] = NoFile /\ moved["release"] = sDir["stage"]
      /\ \A n \in SvcNames \ {"stage", "release"} : moved[n] = sDir[n]
  BY <1>2 DEF Moved, SvcDirs, SvcNames, Directories
<1>4. \/ SvcKeep /\ (SvcSound \/ SvcFault) /\ Ends(p)
      \/ /\ VerifyCompleteSealedServiceSubtree /\ sDir' = moved /\ (SvcFlush \/ SvcNoFlush)
         /\ (SvcGo(p, "held") /\ SvcSound /\ SvcQuiet) \/ (Ends(p) /\ SvcFault)
  BY DEF PublishServiceDirectoryNoReplace, Ends
<1> HIDE DEF moved
<1>5. CASE SvcKeep /\ (SvcSound \/ SvcFault) /\ Ends(p)
  BY <1>5, EndsOnly
<1>6. CASE /\ VerifyCompleteSealedServiceSubtree /\ sDir' = moved /\ (SvcFlush \/ SvcNoFlush)
           /\ (SvcGo(p, "held") /\ SvcSound /\ SvcQuiet) \/ (Ends(p) /\ SvcFault)
  <2>1. Sealed(sDir["file"])
    BY <1>6 DEF VerifyCompleteSealedServiceSubtree, Sealed
  <2>2. /\ sDir'["release"] # NoFile /\ sDir'["release"].sealed /\ sDir'["stage"] = NoFile
    BY <1>1, <1>3, <1>6
  <2> QED
    BY <1>2, <1>3, <1>6, <2>1, <2>2, HolderNames
<1> QED
  BY <1>4, <1>5, <1>6

\* A staged file is removed.
LEMMA RemoveServiceArtifactFileStep ==
    ASSUME SvcInv, NEW p \in Installers, RemoveServiceArtifactFileExact(p)
    PROVE  SvcInv'
<1>1. /\ ServiceLockAuthorizes(p) /\ sDir["stage"] # NoFile
      /\ sDir' = Unlinked(sDir, "file")
      /\ sDisk' = Recorded(sDisk, sDir', Data) \/ sDisk' = Flushed(sDisk, sDir', Data)
      /\ (SvcGo(p, "held") /\ SvcSound /\ SvcQuiet) \/ (Ends(p) /\ SvcFault)
  BY DEF RemoveServiceArtifactFileExact, Ends
<1>2. /\ sProc[p].pc \in HeldPcs /\ sProc[p].mode = "exclusive" /\ sProc[p].half = FALSE
      /\ sDir["release"] = NoFile /\ sDir \in SvcDirs
  BY <1>1, Staged
<1>3. /\ sDir' \in SvcDirs /\ sDir'["file"] = NoFile
      /\ \A n \in Directories : sDir'[n] = sDir[n]
  BY <1>1, <1>2 DEF Unlinked, SvcDirs, SvcNames, Data, Directories
<1>4. /\ sDir \in sDisk /\ IsFiniteSet(sDisk) /\ sDisk \subseteq SvcDirs
      /\ ArtifactOnDisk(sDir, sDisk)
  BY Typed DEF StoreTyped, SvcInv
<1>5. /\ IsFiniteSet(sDisk') /\ sDisk' \subseteq SvcDirs /\ sDir' \in sDisk'
      /\ \A d \in sDisk' : \E e \in sDisk : \A n \in Directories : d[n] = e[n]
      /\ \A d \in sDisk' : d["file"] = NoFile \/ d \in sDisk
  <2>1. sDisk' = Recorded(sDisk, sDir', Data) \/ sDisk' = Flushed(sDisk, sDir', Data)
    BY <1>1
  <2> QED
    BY <1>3, <1>4, <2>1, BytesOnDisk
<1>6. \A d \in sDisk' : Sealed(d["file"]) => Complete(d["file"])
  BY <1>4, <1>5 DEF ArtifactOnDisk, Sealed
<1>7. ~ Sealed(sDir'["file"])
  BY <1>3 DEF Sealed
<1> QED
  BY <1>1, <1>2, <1>3, <1>5, <1>6, <1>7, HolderBytes

\* The empty staging directory is removed.
LEMMA RemoveServiceObjectStep ==
    ASSUME SvcInv, NEW p \in Installers, RemoveServiceObjectExact(p)
    PROVE  SvcInv'
<1>1. ServiceLockAuthorizes(p) /\ sDir["stage"] # NoFile
  BY DEF RemoveServiceObjectExact
<1>2. /\ sProc[p].pc \in HeldPcs /\ sProc[p].mode = "exclusive" /\ sProc[p].half = FALSE
      /\ sDir["release"] = NoFile /\ sDir \in SvcDirs
  BY <1>1, Staged
<1>3. \/ SvcKeep /\ SvcSound /\ Ends(p)
      \/ /\ sDir' = Unlinked(sDir, "stage") /\ (SvcFlush \/ SvcNoFlush)
         /\ (SvcGo(p, "held") /\ SvcSound /\ SvcQuiet) \/ (Ends(p) /\ SvcFault)
  BY DEF RemoveServiceObjectExact, Ends
<1>4. CASE SvcKeep /\ SvcSound /\ Ends(p)
  BY <1>4, EndsOnly
<1>5. CASE /\ sDir' = Unlinked(sDir, "stage") /\ (SvcFlush \/ SvcNoFlush)
           /\ (SvcGo(p, "held") /\ SvcSound /\ SvcQuiet) \/ (Ends(p) /\ SvcFault)
  <2>1. /\ sDir' \in SvcDirs /\ \A n \in SvcNames \ {"stage", "release"} : sDir'[n] = sDir[n]
        /\ sDir'["release"] = sDir["release"]
    BY <1>2, <1>5 DEF Unlinked, SvcDirs, SvcNames, Directories
  <2> QED
    BY <1>2, <1>5, <2>1, HolderNames
<1> QED
  BY <1>3, <1>4, <1>5

-----------------------------------------------------------------------------
(* Power, the initial states, and the theorems.                            *)

\* After a power loss the store is one of the states the disk could have.
LEMMA ServicePowerLossStep ==
    ASSUME SvcInv, ServicePowerLoss
    PROVE  SvcInv'
<1>1. /\ sDir' \in sDisk /\ sDisk' = {sDir'} /\ UNCHANGED <<sPlatform, sTold, sManual>>
      /\ SvcFault /\ sProc' = [p \in Installers |-> SvcIdle]
  BY DEF ServicePowerLoss, SvcQuiet
<1>2. sSpent' \in SvcSpentType /\ sSpent'.published = sSpent.published
  BY <1>1, Counted
<1>3. IsFiniteSet(sDisk') /\ sDisk' \subseteq SvcDirs /\ sDir' \in SvcDirs
  BY <1>1, Typed, FS_Singleton DEF StoreTyped
<1>4. ServiceTypeOK' /\ sTold' <= sSpent'.published
  <2>1. sTold' <= sSpent'.published
    BY <1>1, <1>2, Typed DEF StoreTyped
  <2> QED
    BY <1>1, <1>3, <2>1, Typed DEF StoreTyped, ServiceTypeOK, SvcDirs
<1>5. /\ sProc' \in [Installers -> SvcProc]
      /\ \A p \in Installers : sProc'[p] = SvcIdle
  BY <1>1, IdleInstaller DEF InstallerKept
<1>6. \A p \in Installers : InstallerKept(sProc'[p], sDir', sSpent'.published)
  BY <1>5, IdleInstaller
<1>7. \A p \in Installers : ~ Builds(sProc'[p]) /\ sProc'[p].pc \notin HeldPcs
  BY <1>5, IdleInstaller DEF Builds, HeldPcs
<1>8. ArtifactOnDisk(sDir', sDisk')
  BY <1>1 DEF SvcInv, ArtifactOnDisk
<1>9. ToldOnDisk(sDisk', sTold', sPlatform', sManual')
  BY <1>1 DEF SvcInv, ToldOnDisk
<1>10. ServiceLockExclusive'
  BY <1>7 DEF ServiceLockExclusive, SvcHolds
<1>11. (\A p \in Installers : InstallerKept(sProc[p], sDir, sSpent.published))'
  BY <1>6 DEF InstallerKept, Builds, Busy
<1>12. (\A p, q \in Installers : Builds(sProc[p]) /\ Builds(sProc[q]) => p = q)'
  BY <1>7 DEF Builds
<1>13. ArtifactOnDisk(sDir, sDisk)'
  BY <1>8 DEF ArtifactOnDisk, Sealed, Complete
<1>14. ToldOnDisk(sDisk, sTold, sPlatform, sManual)'
  BY <1>9 DEF ToldOnDisk
<1> QED
  BY <1>2, <1>3, <1>4, <1>5, <1>10, <1>11, <1>12, <1>13, <1>14 DEF SvcInv

\* The store starts in the invariant.
LEMMA SvcInvInit ==
    ASSUME ServiceInit
    PROVE  SvcInv
<1>1. PICK external \in {NoFile, [id |-> 1, of |-> 1, whole |-> TRUE, sealed |-> FALSE]} :
         sDir = [n \in SvcNames |-> IF n = "container" THEN external ELSE NoFile]
  BY DEF ServiceInit
<1>2. external \in SvcObject \cup {NoFile}
  <2>1. [id |-> 1, of |-> 1, whole |-> TRUE, sealed |-> FALSE] \in SvcObject
    BY DEF SvcObject
  <2> QED
    BY <2>1
<1>3. /\ sDir \in SvcDirs /\ \A n \in SvcNames \ {"container"} : sDir[n] = NoFile
  BY <1>1, <1>2 DEF SvcDirs
<1>4. /\ sDisk = {sDir} /\ sProc = [p \in Installers |-> SvcIdle] /\ sTold = 0
      /\ sManual = FALSE /\ sPlatform \in {"posix", "windows"}
      /\ sSpent = [opens |-> 0, published |-> 0, faults |-> 0]
  BY DEF ServiceInit
<1>5. IsFiniteSet(sDisk) /\ sDisk \subseteq SvcDirs
  BY <1>3, <1>4, FS_Singleton
<1>6. sSpent \in SvcSpentType /\ sSpent.published = 0
  BY <1>4, ServiceAssumption DEF SvcSpentType
<1>7. ServiceTypeOK
  <2>1. sManual \in BOOLEAN
    BY <1>4
  <2>2. sTold \in 0..MaxPublish
    BY <1>4, ServiceAssumption
  <2>3. sPlatform \in {"posix", "windows"} /\ sDir \in sDisk
    BY <1>4
  <2> QED
    BY <1>3, <1>5, <2>1, <2>2, <2>3 DEF ServiceTypeOK, SvcDirs
<1>8. /\ sProc \in [Installers -> SvcProc]
      /\ \A p \in Installers : sProc[p] = SvcIdle
  BY <1>4, IdleInstaller DEF InstallerKept
<1>9. \A p \in Installers : /\ InstallerKept(sProc[p], sDir, sSpent.published)
                            /\ ~ Builds(sProc[p]) /\ sProc[p].pc \notin HeldPcs
  BY <1>8, IdleInstaller DEF Builds, HeldPcs
<1>10. ServiceLockExclusive
  BY <1>9 DEF ServiceLockExclusive, SvcHolds
<1>11. ArtifactOnDisk(sDir, sDisk)
  BY <1>3, <1>4 DEF ArtifactOnDisk, Sealed, SvcNames, Data, Directories
<1>12. ToldOnDisk(sDisk, sTold, sPlatform, sManual)
  BY <1>4 DEF ToldOnDisk
<1> QED
  BY <1>4, <1>5, <1>6, <1>7, <1>8, <1>9, <1>10, <1>11, <1>12 DEF SvcInv

\* Every step of the store keeps the invariant.
LEMMA SvcInvStep ==
    ASSUME SvcInv, [ServiceNext]_serviceVars
    PROVE  SvcInv'
<1>1. CASE UNCHANGED serviceVars
  BY <1>1 DEF serviceVars, SvcInv, ServiceTypeOK, InstallerKept, Builds, Busy,
     ServiceLockExclusive, SvcHolds, ArtifactOnDisk, ToldOnDisk, Sealed, Complete
<1>2. CASE ServicePowerLoss
  BY <1>2, ServicePowerLossStep
<1>3. ASSUME NEW p \in Installers, RootStep(p)
      PROVE  SvcInv'
  BY <1>3, OpenServiceRootStep, PrepareServiceBaseContainerStep, MakeSteps,
     PublishContainerStep, OpenControlRootStep DEF RootStep
<1>4. ASSUME NEW p \in Installers, LockStep(p) \/ InstallerDies(p)
      PROVE  SvcInv'
  BY <1>4, AcquireServiceLockStep, MakeSteps, LockServiceStep, ClosingStep DEF LockStep
<1>5. ASSUME NEW p \in Installers, RecordStep(p)
      PROVE  SvcInv'
  BY <1>5, PublishServiceFileAtomicStep, CreateCandidateStep, PublishCandidateStep,
     SettleSteps DEF RecordStep
<1>6. ASSUME NEW p \in Installers, ArtifactStep(p)
      PROVE  SvcInv'
  BY <1>6, OpenServiceDirectoryStep, BeginServiceArtifactWriteStep,
     WriteServiceArtifactChunkStep, FinishServiceArtifactWriteStep,
     SealServiceDirectoryStep, PublishServiceDirectoryStep,
     RemoveServiceArtifactFileStep, RemoveServiceObjectStep DEF ArtifactStep
<1> QED
  BY <1>1, <1>2, <1>3, <1>4, <1>5, <1>6 DEF ServiceNext

\* What the invariant says of the states a power loss may leave.
LEMMA Durable == SvcInv => ServiceStoreDurable
<1> SUFFICES ASSUME SvcInv PROVE ServiceStoreDurable
  OBVIOUS
<1>1. /\ sDisk \cup {sDir} = sDisk /\ sDir \in sDisk
      /\ ArtifactOnDisk(sDir, sDisk) /\ ToldOnDisk(sDisk, sTold, sPlatform, sManual)
      /\ ServiceTypeOK /\ ServiceLockExclusive
  BY DEF SvcInv, ServiceTypeOK
<1>2. PublishedReleaseWhole
  BY <1>1 DEF PublishedReleaseWhole, ArtifactOnDisk, Complete
<1>3. ServiceNeverForgets
  <2>1. SUFFICES ASSUME sTold > 0, NEW d \in sDisk
                PROVE  /\ ~ Vacant(d)
                       /\ Accepted(d) /\ (sPlatform = "windows" => ~ sManual) =>
                             d["record"] # NoFile /\ d["record"].of >= sTold
    BY <1>1 DEF ServiceNeverForgets
  <2>2. /\ d["witness"] # NoFile /\ d["root"] # NoFile
        /\ (sPlatform = "windows" => ~ sManual) =>
              d["record"] # NoFile /\ d["record"].of >= sTold
    BY <1>1, <2>1 DEF ToldOnDisk
  <2>3. ~ Vacant(d)
    BY <2>2 DEF Vacant, Adoptable
  <2> QED
    BY <2>2, <2>3
<1> QED
  BY <1>1, <1>2, <1>3 DEF ServiceStoreDurable

\* The store's inductive invariant, for every set of installers and bound.
THEOREM ServiceInvariance == ServiceSpec => []SvcInv
<1>1. ServiceInit => SvcInv
  BY SvcInvInit
<1>2. SvcInv /\ [ServiceNext]_serviceVars => SvcInv'
  BY SvcInvStep
<1> QED
  BY <1>1, <1>2, PTL DEF ServiceSpec

\* The service store of addon.cc keeps the record it reported, shows a release
\* only whole and sealed, and has one exclusive holder of its lock, whatever
\* calls fail, installers die or power losses there are.
THEOREM ServiceStoreEndures == ServiceSpec => []ServiceStoreDurable
BY ServiceInvariance, Durable, PTL

-----------------------------------------------------------------------------
(* ArtifactSpace: the inductive invariant.                                 *)

\* A transaction that is not committed was begun, and one that is reserved
\* wants a digest.
TransactionKept ==
    \A s \in Services :
        /\ aTx[s].phase # "committed" => aTx[s].n >= 1
        /\ aTx[s].phase = "reserved" => aTx[s].rel \in Digests

\* A scratch belongs to a transaction that was begun and to its digest.  A
\* candidate needs the complete asset; only an application has an inventory,
\* and it is written before and removed after the payload.
ScratchOrdered(x) ==
    x.cand # Nothing =>
        /\ x.asset = "whole"
        /\ x.rel \notin Applications => x.cand.inv = "none"
        /\ x.rel \in Applications /\ x.cand.inv = "none"
             => x.cand.files = "none"

ScratchKept ==
    \A s \in Services : \A n \in 1..MaxInstall :
        aScratch[s][n] # Nothing =>
            /\ n <= aTx[s].n
            /\ n = aTx[s].n => aScratch[s][n].rel = aTx[s].rel
            /\ ScratchOrdered(aScratch[s][n])

\* What the store checked when it lent the access.
AccessAdmitted(s) ==
    /\ aSession.col = "none" /\ aIntent[s] = Nothing
    /\ aTx[s].phase = "reserved" /\ ~ CleanupTarget(aTx[s].rel)

\* What the next call of an access needs of its scratch.
AccessNeeds(pc, x) ==
    /\ pc = "staged" => x.asset = "whole"
    /\ pc = "streaming" => x.cand = Nothing
    /\ pc \in {"inventory", "files", "written"} => x.cand # Nothing
    /\ pc = "inventory" => x.rel \in Applications /\ x.cand.files = "none"
    /\ pc = "files" /\ x.rel \in Applications => x.cand.inv # "none"

AccessHolds(s) ==
    /\ AccessAdmitted(s)
    /\ Mine(s) # Nothing /\ AccessNeeds(aSession.acc, Mine(s))
    /\ aSession.acc = "renamed" =>
          /\ aRelease[aTx[s].rel] # Nothing
          /\ WholeTree(aTx[s].rel, aRelease[aTx[s].rel])

AccessKept ==
    aSession # Nothing /\ aSession.acc # "none" => AccessHolds(aSession.svc)

\* A collector works under an intent.
CollectorKept ==
    aSession # Nothing /\ aSession.col = "active" =>
        aIntent[aSession.svc] # Nothing /\ aSession.acc = "none"

\* A release named by a binding stands whole, and nobody removes it.
Stands(a) ==
    /\ aRelease[a.rel] # Nothing /\ aRelease[a.rel].id = a.id
    /\ WholeTree(a.rel, aRelease[a.rel]) /\ ~ CleanupTarget(a.rel)

\* Until its transaction is committed, nobody removes what it published.
PublicationHeld ==
    /\ aSession # Nothing /\ aSession.pub # Nothing
    /\ aTx[aSession.svc].phase # "committed"
    => Stands(aSession.pub)

\* Without a candidate, a scratch intent starts after the candidate's phases.
IntentPhased ==
    \A s \in Services : Collecting(s, "scratch") =>
        (aIntent[s].cand = Nothing => Order(aIntent[s].phase) >= 4)

ArtifactInv ==
    /\ ArtifactTypeOK
    /\ TransactionKept /\ ScratchKept
    /\ AccessKept /\ CollectorKept /\ PublicationHeld
    /\ ReferencedWhole /\ DamageIsIntended
    /\ IntentPhased /\ CollectionRecoverable

-----------------------------------------------------------------------------
(* A conjunct is kept by a step that leaves its variables alone.           *)

\* The journal alone decides this conjunct.
LEMMA TransactionKeptFrame ==
    ASSUME TransactionKept, UNCHANGED <<aTx>>
    PROVE  TransactionKept'
BY DEF TransactionKept

\* Scratches and journal decide this one.
LEMMA ScratchKeptFrame ==
    ASSUME ScratchKept, UNCHANGED <<aScratch, aTx>>
    PROVE  ScratchKept'
BY DEF ScratchKept

\* References, releases and intents.
LEMMA ReferencedWholeFrame ==
    ASSUME ReferencedWhole, UNCHANGED <<aRefs, aRelease, aIntent>>
    PROVE  ReferencedWhole'
BY DEF ReferencedWhole, CleanupTarget, Collecting

\* Releases and intents.
LEMMA DamageIsIntendedFrame ==
    ASSUME DamageIsIntended, UNCHANGED <<aRelease, aIntent>>
    PROVE  DamageIsIntended'
BY DEF DamageIsIntended, CleanupTarget, Collecting

\* Intents.
LEMMA IntentPhasedFrame ==
    ASSUME IntentPhased, UNCHANGED <<aIntent>>
    PROVE  IntentPhased'
BY DEF IntentPhased, Collecting

\* Intents, journal and what they name on disk.
LEMMA CollectionRecoverableFrame ==
    ASSUME CollectionRecoverable, UNCHANGED <<aIntent, aTx, aRelease, aScratch>>
    PROVE  CollectionRecoverable'
BY DEF CollectionRecoverable, PublishedResumable, ScratchResumable,
       Collecting, Target, InPhase, Left, ScratchSettled,
       EmptyApplicationCandidate

-----------------------------------------------------------------------------
(* What the assignments of a step do.                                      *)

\* The holder of the fence is typed.
LEMMA SessionHeld ==
    ASSUME ArtifactTypeOK, NEW s \in Services, In(s)
    PROVE  aSession \in Session /\ aSession # Nothing /\ aSession.svc = s
BY DEF ArtifactTypeOK, In

\* Go moves the access and nothing else of the session.
LEMMA GoFields ==
    ASSUME aSession \in Session, NEW pc \in AccessPcs, Go(pc)
    PROVE  /\ aSession' \in Session /\ aSession'.acc = pc
           /\ aSession'.svc = aSession.svc /\ aSession'.col = aSession.col
           /\ aSession'.pub = aSession.pub
BY DEF Go, Session

\* Collector sets the collector and nothing the invariant reads beside it.
LEMMA CollectorFields ==
    ASSUME aSession \in Session, NEW state \in {"active", "failed"},
           Collector(state)
    PROVE  /\ aSession' \in Session /\ aSession'.col = state
           /\ aSession'.svc = aSession.svc /\ aSession'.acc = aSession.acc
           /\ aSession'.pub = aSession.pub
BY DEF Collector, Session

\* A fault is counted.
LEMMA FaultSpent ==
    ASSUME ArtifactTypeOK, ArtifactFault
    PROVE  aSpent' \in [begun : Nat, dirs : Nat, faults : Nat]
BY DEF ArtifactTypeOK, ArtifactFault

\* A manual-cleanup record is a flag per service.
LEMMA ManualTyped ==
    ASSUME ArtifactTypeOK, NEW s \in Services,
           aManual' \in {aManual, [aManual EXCEPT ![s] = TRUE]}
    PROVE  aManual' \in [Services -> BOOLEAN]
BY DEF ArtifactTypeOK

\* The slots of a reference record are bindings.
LEMMA SlotsBound ==
    ASSUME ArtifactTypeOK
    PROVE  \A s \in Services : aRefs[s] \in References /\ Slots(aRefs[s]) \subseteq Binding
BY DEF ArtifactTypeOK, References, Slots

\* The scope of an intent tells its shape.
LEMMA IntentTyped ==
    ASSUME ArtifactTypeOK, NEW s \in Services
    PROVE  /\ Collecting(s, "published") =>
                 /\ aIntent[s] \in PublishedIntent /\ aIntent[s].art \in Binding
                 /\ aIntent[s].art.rel \in Digests
           /\ Collecting(s, "scratch") =>
                 /\ aIntent[s] \in ScratchIntent
                 /\ aIntent[s].tx \in 1..MaxInstall
           /\ aIntent[s] # Nothing =>
                 Collecting(s, "published") \/ Collecting(s, "scratch")
BY DEF ArtifactTypeOK, Collecting, PublishedIntent, ScratchIntent, Binding

-----------------------------------------------------------------------------
(* Steps of the session alone.                                             *)

\* A step that writes neither disk nor journal nor references.
LEMMA SessionStep ==
    ASSUME ArtifactInv, UNCHANGED <<aRelease, aScratch, aRefs, aTx, aIntent>>,
           aSession' \in Session \cup {Nothing},
           aManual' \in [Services -> BOOLEAN],
           aSpent' \in [begun : Nat, dirs : Nat, faults : Nat],
           AccessKept', CollectorKept', PublicationHeld'
    PROVE  ArtifactInv'
<1>1. ArtifactTypeOK'
  BY DEF ArtifactInv, ArtifactTypeOK
<1> QED
  BY <1>1, TransactionKeptFrame, ScratchKeptFrame, ReferencedWholeFrame,
     DamageIsIntendedFrame, IntentPhasedFrame, CollectionRecoverableFrame
     DEF ArtifactInv

\* The publication is held while session, journal and release space agree on
\* what they were.
LEMMA PublicationFrame ==
    ASSUME PublicationHeld, aSession # Nothing,
           aSession'.svc = aSession.svc, aSession'.pub = aSession.pub,
           UNCHANGED <<aTx, aRelease, aIntent>>
    PROVE  PublicationHeld'
BY DEF PublicationHeld, Stands, CleanupTarget, Collecting

\* An access is left, in an error or at its end.
LEMMA AccessLeft ==
    ASSUME ArtifactInv, NEW s \in Services, In(s), aSession.acc # "none",
           Go("none"), UNCHANGED <<aRelease, aScratch, aRefs, aTx, aIntent>>,
           aManual' \in [Services -> BOOLEAN],
           aSpent' \in [begun : Nat, dirs : Nat, faults : Nat]
    PROVE  ArtifactInv'
<1>1. aSession \in Session /\ aSession # Nothing /\ aSession.svc = s
  BY SessionHeld DEF ArtifactInv
<1>2. /\ aSession' \in Session /\ aSession'.acc = "none"
      /\ aSession'.svc = aSession.svc /\ aSession'.col = aSession.col
      /\ aSession'.pub = aSession.pub
  BY <1>1, GoFields DEF AccessPcs
<1>3. AccessKept'
  BY <1>2 DEF AccessKept
<1>4. CollectorKept'
  BY <1>1, <1>2 DEF CollectorKept, ArtifactInv
<1>5. PublicationHeld'
  BY <1>1, <1>2, PublicationFrame DEF ArtifactInv
<1> QED
  BY <1>2, <1>3, <1>4, <1>5, SessionStep

\* openNativeServiceStore takes the fence with nothing borrowed.
LEMMA OpenSessionStep ==
    ASSUME ArtifactInv, NEW s \in Services, OpenSession(s)
    PROVE  ArtifactInv'
<1>1. /\ aSession' \in Session /\ aSession'.acc = "none"
      /\ aSession'.col = "none" /\ aSession'.pub = Nothing
  BY DEF OpenSession, Session, AccessPcs
<1>2. AccessKept' /\ CollectorKept' /\ PublicationHeld'
  BY <1>1 DEF AccessKept, CollectorKept, PublicationHeld
<1> QED
  BY <1>1, <1>2, SessionStep
     DEF OpenSession, Disk, Records, ArtifactInv, ArtifactTypeOK

\* close, or the death of the process: what is on disk stays.
LEMMA SessionEnds ==
    ASSUME ArtifactInv, NEW s \in Services, CloseSession(s) \/ SessionDies(s)
    PROVE  ArtifactInv'
<1>1. AccessKept' /\ CollectorKept' /\ PublicationHeld'
  BY DEF AccessKept, CollectorKept, PublicationHeld, CloseSession, SessionDies
<1>2. aSpent' \in [begun : Nat, dirs : Nat, faults : Nat]
  BY FaultSpent DEF ArtifactInv, ArtifactTypeOK, CloseSession, SessionDies
<1> QED
  BY <1>1, <1>2, SessionStep
     DEF CloseSession, SessionDies, Disk, Records, ArtifactInv, ArtifactTypeOK

\* Another service's collection does not see what a service without an intent
\* does to its own scratches and transactions.
LEMMA RecoverableElsewhere ==
    ASSUME ArtifactTypeOK, CollectionRecoverable,
           NEW s \in Services, aIntent[s] = Nothing,
           UNCHANGED aIntent,
           \A t \in Services : Collecting(t, "published") =>
              aRelease'[aIntent[t].art.rel] = aRelease[aIntent[t].art.rel],
           \A t \in Services \ {s} :
              /\ aTx'[t] = aTx[t]
              /\ \A m \in 1..MaxInstall : aScratch'[t][m] = aScratch[t][m]
    PROVE  CollectionRecoverable'
<1> SUFFICES ASSUME NEW t \in Services
             PROVE  /\ Collecting(t, "published")' => PublishedResumable(t)'
                    /\ Collecting(t, "scratch")' => ScratchResumable(t)'
  BY DEF CollectionRecoverable
<1>1. CASE t = s
  BY <1>1 DEF Collecting
<1>2. CASE t # s
  <2>1. aTx'[t] = aTx[t]
    BY <1>2
  <2>2. ASSUME Collecting(t, "published")'
        PROVE  PublishedResumable(t)'
    BY <2>1, <2>2 DEF CollectionRecoverable, PublishedResumable, Collecting,
       Target, InPhase
  <2>3. ASSUME Collecting(t, "scratch")'
        PROVE  ScratchResumable(t)'
    <3>1. Collecting(t, "scratch") /\ aIntent[t].tx \in 1..MaxInstall
      BY <2>3 DEF Collecting, ArtifactTypeOK, PublishedIntent, ScratchIntent
    <3>2. Left(t)' = Left(t)
      BY <1>2, <3>1 DEF Left
    <3> QED
      BY <2>1, <3>1, <3>2 DEF CollectionRecoverable, ScratchResumable,
         Collecting, InPhase, ScratchSettled, EmptyApplicationCandidate
  <2> QED
    BY <2>2, <2>3
<1> QED
  BY <1>1, <1>2

-----------------------------------------------------------------------------
(* Steps of an access.                                                     *)

\* While the access is lent, its transaction, scratch and digest are typed.
LEMMA AccessTyped ==
    ASSUME ArtifactInv, NEW s \in Services, aTx[s].phase = "reserved"
    PROVE  /\ aTx[s].n \in 1..MaxInstall /\ aTx[s].rel \in Digests
           /\ Mine(s) \in Scratch \cup {Nothing}
           /\ Mine(s) # Nothing =>
                 Mine(s).rel = aTx[s].rel /\ ScratchOrdered(Mine(s))
<1>1. aTx[s] \in Transaction /\ aTx[s].n >= 1
  BY DEF ArtifactInv, ArtifactTypeOK, TransactionKept
<1>2. aTx[s].n \in 1..MaxInstall
  BY <1>1, ArtifactAssumption DEF Transaction
<1>3. aTx[s].rel \in Digests
  BY DEF ArtifactInv, TransactionKept
<1>4. Mine(s) \in Scratch \cup {Nothing}
  <2>1. aScratch[s] \in [1..MaxInstall -> Scratch \cup {Nothing}]
    BY DEF ArtifactInv, ArtifactTypeOK
  <2> QED
    BY <1>2, <2>1 DEF Mine
<1>5. ASSUME Mine(s) # Nothing
      PROVE  Mine(s).rel = aTx[s].rel /\ ScratchOrdered(Mine(s))
  BY <1>2, <1>5 DEF ArtifactInv, ScratchKept, Mine
<1> QED
  BY <1>2, <1>3, <1>4, <1>5

\* A scratch of the transaction is written.
LEMMA MineWritten ==
    ASSUME ArtifactInv, NEW s \in Services, aTx[s].phase = "reserved",
           NEW x \in Scratch, x.rel = aTx[s].rel, ScratchOrdered(x),
           SetMine(s, x), UNCHANGED aTx
    PROVE  /\ aScratch' \in [Services -> [1..MaxInstall -> Scratch \cup {Nothing}]]
           /\ Mine(s)' = x
           /\ \A t \in Services \ {s}, m \in 1..MaxInstall :
                 aScratch'[t][m] = aScratch[t][m]
           /\ ScratchKept'
<1> DEFINE n == aTx[s].n
<1>1. n \in 1..MaxInstall
  BY AccessTyped
<1>2. /\ aScratch' \in [Services -> [1..MaxInstall -> Scratch \cup {Nothing}]]
      /\ aScratch'[s][n] = x
      /\ \A t \in Services, m \in 1..MaxInstall :
            t # s \/ m # n => aScratch'[t][m] = aScratch[t][m]
  <2>1. aScratch \in [Services -> [1..MaxInstall -> Scratch \cup {Nothing}]]
    BY DEF ArtifactInv, ArtifactTypeOK
  <2>2. aScratch' = [aScratch EXCEPT ![s][n] = x]
    BY DEF SetMine
  <2>3. x \in Scratch \cup {Nothing}
    OBVIOUS
  <2> HIDE DEF n
  <2> QED
    BY <1>1, <2>1, <2>2, <2>3
<1>3. ScratchKept'
  <2> SUFFICES ASSUME NEW t \in Services, NEW m \in 1..MaxInstall,
                      aScratch'[t][m] # Nothing
               PROVE  /\ m <= aTx[t].n
                      /\ m = aTx[t].n => aScratch'[t][m].rel = aTx[t].rel
                      /\ ScratchOrdered(aScratch'[t][m])
    BY DEF ScratchKept, ScratchOrdered
  <2>1. CASE t = s /\ m = n
    BY <2>1, <1>1, <1>2
  <2>2. CASE t # s \/ m # n
    BY <2>2, <1>2 DEF ArtifactInv, ScratchKept
  <2> QED
    BY <2>1, <2>2
<1> QED
  BY <1>2, <1>3 DEF Mine

\* Only the scratch and the place of the access change.
LEMMA AccessWrites ==
    ASSUME ArtifactInv, NEW s \in Services, In(s), AccessAdmitted(s),
           NEW x \in Scratch, x.rel = aTx[s].rel, ScratchOrdered(x),
           SetMine(s, x),
           NEW pc \in AccessPcs \ {"none", "renamed"}, Go(pc),
           AccessNeeds(pc, x),
           UNCHANGED <<aRelease, aRefs, aTx, aIntent, aManual>>,
           aSpent' \in [begun : Nat, dirs : Nat, faults : Nat]
    PROVE  ArtifactInv'
<1>1. aSession \in Session /\ aSession # Nothing /\ aSession.svc = s
  BY SessionHeld DEF ArtifactInv
<1>2. /\ aSession' \in Session /\ aSession'.acc = pc
      /\ aSession'.svc = s /\ aSession'.col = "none"
      /\ aSession'.pub = aSession.pub
  BY <1>1, GoFields DEF AccessAdmitted
<1>3. /\ aScratch' \in [Services -> [1..MaxInstall -> Scratch \cup {Nothing}]]
      /\ Mine(s)' = x
      /\ \A t \in Services \ {s}, m \in 1..MaxInstall :
            aScratch'[t][m] = aScratch[t][m]
      /\ ScratchKept'
  BY MineWritten DEF AccessAdmitted
<1>4. ArtifactTypeOK'
  BY <1>2, <1>3 DEF ArtifactInv, ArtifactTypeOK
<1>5. AccessKept'
  <2>1. x # Nothing
    BY ArtifactAssumption
  <2>2. AccessAdmitted(s)'
    BY <1>2 DEF AccessAdmitted, CleanupTarget, Collecting
  <2> QED
    BY <1>2, <1>3, <2>1, <2>2 DEF AccessKept, AccessHolds, AccessNeeds
<1>6. CollectorKept'
  BY <1>2 DEF CollectorKept
<1>7. PublicationHeld'
  BY <1>1, <1>2, PublicationFrame DEF ArtifactInv
<1>8. CollectionRecoverable'
  BY <1>3, RecoverableElsewhere DEF ArtifactInv, AccessAdmitted
<1> QED
  BY <1>3, <1>4, <1>5, <1>6, <1>7, <1>8, TransactionKeptFrame,
     ReferencedWholeFrame, DamageIsIntendedFrame, IntentPhasedFrame
     DEF ArtifactInv

\* Only the place of the access changes.
LEMMA AccessMoves ==
    ASSUME ArtifactInv, NEW s \in Services, In(s), AccessAdmitted(s),
           NEW pc \in AccessPcs \ {"none"}, Go(pc),
           Mine(s) # Nothing, AccessNeeds(pc, Mine(s)),
           pc = "renamed" =>
              /\ aRelease[aTx[s].rel] # Nothing
              /\ WholeTree(aTx[s].rel, aRelease[aTx[s].rel]),
           UNCHANGED <<aRelease, aScratch, aRefs, aTx, aIntent, aManual, aSpent>>
    PROVE  ArtifactInv'
<1>1. aSession \in Session /\ aSession # Nothing /\ aSession.svc = s
  BY SessionHeld DEF ArtifactInv
<1>2. /\ aSession' \in Session /\ aSession'.acc = pc
      /\ aSession'.svc = s /\ aSession'.col = "none"
      /\ aSession'.pub = aSession.pub
  BY <1>1, GoFields DEF AccessAdmitted
<1>3. AccessAdmitted(s)'
  BY <1>2 DEF AccessAdmitted, CleanupTarget, Collecting
<1>4. AccessKept'
  BY <1>2, <1>3 DEF AccessKept, AccessHolds, Mine, AccessNeeds
<1>5. CollectorKept'
  BY <1>2 DEF CollectorKept
<1>6. PublicationHeld'
  BY <1>1, <1>2, PublicationFrame DEF ArtifactInv
<1> QED
  BY <1>2, <1>4, <1>5, <1>6, SessionStep DEF ArtifactInv, ArtifactTypeOK

\* The facts that every call of an access starts from.
LEMMA AccessAt ==
    ASSUME ArtifactInv, NEW s \in Services, In(s), aSession.acc # "none"
    PROVE  /\ AccessHolds(s)
           /\ aTx[s].n \in 1..MaxInstall /\ aTx[s].rel \in Digests
           /\ Mine(s) \in Scratch /\ Mine(s) # Nothing
           /\ Mine(s).rel = aTx[s].rel /\ ScratchOrdered(Mine(s))
<1>1. AccessHolds(s)
  BY SessionHeld DEF ArtifactInv, AccessKept
<1> QED
  BY <1>1, AccessTyped DEF AccessHolds, AccessAdmitted

\* A borrowed access ends without a change of what it wrote.
LEMMA PoisonAccessStep ==
    ASSUME ArtifactInv, NEW s \in Services, In(s), aSession.acc # "none",
           PoisonAccess(s), AccessKeeps
    PROVE  ArtifactInv'
BY AccessLeft, ManualTyped
   DEF PoisonAccess, LeaveAccess, AccessKeeps, Disk, ArtifactInv, ArtifactTypeOK

\* openArtifactAccess: a new scratch, a marked one, or manual cleanup.
LEMMA OpenArtifactAccessStep ==
    ASSUME ArtifactInv, NEW s \in Services, OpenArtifactAccess(s)
    PROVE  ArtifactInv'
<1>1. In(s) /\ AccessAdmitted(s) /\ aSession.acc = "none"
  BY DEF OpenArtifactAccess, EnsureWritable, Unborrowed, AccessAdmitted
<1>2. CASE Mine(s) = Nothing
  <2> DEFINE x == [rel |-> aTx[s].rel, marker |-> FALSE, asset |-> "none",
                   cand |-> Nothing]
  <2>1. x \in Scratch /\ x.rel = aTx[s].rel /\ ScratchOrdered(x)
    BY <1>1, AccessTyped DEF Scratch, AccessAdmitted, ScratchOrdered
  <2>2. /\ SetMine(s, x) /\ Go("marker")
        /\ UNCHANGED <<aRelease, aRefs, aTx, aIntent, aManual, aSpent>>
    BY <1>2 DEF OpenArtifactAccess, AccessKeeps
  <2>3. AccessNeeds("marker", x)
    BY DEF AccessNeeds
  <2> HIDE DEF x
  <2> QED
    BY <1>1, <2>1, <2>2, <2>3, AccessWrites
       DEF AccessPcs, ArtifactInv, ArtifactTypeOK
<1>3. CASE Mine(s) # Nothing /\ Mine(s).marker /\ Go("open")
           /\ UNCHANGED <<Disk, aManual, aSpent>>
  BY <1>1, <1>3, AccessMoves
     DEF OpenArtifactAccess, AccessKeeps, AccessPcs, AccessNeeds, Disk
<1>4. CASE Mine(s) # Nothing /\ ~ Mine(s).marker /\ PoisonAccess(s)
  <2>1. aSession \in Session /\ aSession # Nothing /\ aSession.svc = s
    BY <1>1, SessionHeld DEF ArtifactInv
  <2>2. /\ aSession' \in Session /\ aSession'.acc = "none"
        /\ aSession'.svc = aSession.svc /\ aSession'.col = aSession.col
        /\ aSession'.pub = aSession.pub
    BY <1>4, <2>1, GoFields DEF AccessPcs, PoisonAccess, LeaveAccess
  <2>3. UNCHANGED <<aRelease, aScratch, aRefs, aTx, aIntent, aSpent>>
    BY <1>4 DEF OpenArtifactAccess, AccessKeeps, PoisonAccess, Disk
  <2>4. aManual' \in [Services -> BOOLEAN]
    BY <1>4, ManualTyped DEF PoisonAccess, LeaveAccess, ArtifactInv
  <2>5. AccessKept' /\ CollectorKept'
    BY <1>1, <2>2 DEF AccessKept, CollectorKept, AccessAdmitted
  <2>6. PublicationHeld'
    BY <2>1, <2>2, <2>3, PublicationFrame DEF ArtifactInv
  <2> QED
    BY <2>2, <2>3, <2>4, <2>5, <2>6, SessionStep DEF ArtifactInv, ArtifactTypeOK
<1> QED
  BY <1>2, <1>3, <1>4 DEF OpenArtifactAccess

\* The marker of a new scratch.
LEMMA PublishMarkerStep ==
    ASSUME ArtifactInv, NEW s \in Services, PublishMarker(s)
    PROVE  ArtifactInv'
<1> DEFINE x == [Mine(s) EXCEPT !.marker = TRUE]
<1>1. /\ In(s) /\ aSession.acc = "marker" /\ SetMine(s, x) /\ Go("open")
      /\ UNCHANGED <<aRelease, aRefs, aTx, aIntent, aManual, aSpent>>
  BY DEF PublishMarker, At, AccessKeeps
<1>2. /\ AccessAdmitted(s) /\ Mine(s) \in Scratch
      /\ Mine(s).rel = aTx[s].rel /\ ScratchOrdered(Mine(s))
  BY <1>1, AccessAt DEF AccessHolds
<1>3. x \in Scratch /\ x.rel = aTx[s].rel /\ ScratchOrdered(x)
  BY <1>2 DEF Scratch, ScratchOrdered
<1>4. AccessNeeds("open", x)
  BY DEF AccessNeeds
<1> HIDE DEF x
<1> QED
  BY <1>1, <1>2, <1>3, <1>4, AccessWrites
     DEF AccessPcs, ArtifactInv, ArtifactTypeOK

\* stageAsset: reuse, stream, or refuse a partial asset.
LEMMA StageAssetStep ==
    ASSUME ArtifactInv, NEW s \in Services, StageAsset(s)
    PROVE  ArtifactInv'
<1>1. In(s) /\ aSession.acc = "open" /\ AccessKeeps
  BY DEF StageAsset, At
<1>2. /\ AccessAdmitted(s) /\ Mine(s) \in Scratch /\ Mine(s) # Nothing
      /\ Mine(s).rel = aTx[s].rel /\ ScratchOrdered(Mine(s))
  BY <1>1, AccessAt DEF AccessHolds
<1>3. CASE Mine(s).asset = "whole"
  <2>1. Go("staged") /\ UNCHANGED <<Disk, aManual, aSpent>>
    BY <1>3 DEF StageAsset, ExactAsset
  <2> QED
    BY <1>1, <1>2, <1>3, <2>1, AccessMoves
       DEF AccessKeeps, AccessPcs, AccessNeeds, Disk
<1>4. CASE Mine(s).asset = "none"
  <2> DEFINE x == [Mine(s) EXCEPT !.asset = "part"]
  <2>1. /\ SetMine(s, x) /\ Go("streaming")
        /\ UNCHANGED <<aRelease, aRefs, aTx, aIntent, aManual, aSpent>>
    BY <1>1, <1>4 DEF StageAsset, ExactAsset, AccessKeeps
  <2>2. /\ x \in Scratch /\ x.rel = aTx[s].rel /\ x.cand = Nothing
        /\ ScratchOrdered(x)
    BY <1>2, <1>4 DEF Scratch, ScratchOrdered
  <2>3. AccessNeeds("streaming", x)
    BY <2>2 DEF AccessNeeds
  <2> HIDE DEF x
  <2> QED
    BY <1>1, <1>2, <2>1, <2>2, <2>3, AccessWrites
       DEF AccessPcs, ArtifactInv, ArtifactTypeOK
<1>5. CASE Mine(s).asset # "whole" /\ Mine(s).asset # "none"
  <2>1. PoisonAccess(s)
    BY <1>5 DEF StageAsset, ExactAsset
  <2> QED
    BY <1>1, <2>1, PoisonAccessStep
<1> QED
  BY <1>3, <1>4, <1>5

\* The stream ends with the exact bytes.
LEMMA FinishAssetStep ==
    ASSUME ArtifactInv, NEW s \in Services, FinishAsset(s)
    PROVE  ArtifactInv'
<1> DEFINE x == [Mine(s) EXCEPT !.asset = "whole"]
<1>1. /\ In(s) /\ aSession.acc = "streaming" /\ SetMine(s, x) /\ Go("staged")
      /\ UNCHANGED <<aRelease, aRefs, aTx, aIntent, aManual, aSpent>>
  BY DEF FinishAsset, At, AccessKeeps
<1>2. /\ AccessAdmitted(s) /\ Mine(s) \in Scratch
      /\ Mine(s).rel = aTx[s].rel /\ Mine(s).cand = Nothing
  BY <1>1, AccessAt DEF AccessHolds, AccessNeeds
<1>3. x \in Scratch /\ x.rel = aTx[s].rel /\ x.asset = "whole"
  BY <1>2 DEF Scratch
<1>4. ScratchOrdered(x)
  BY <1>2 DEF Scratch, ScratchOrdered
<1>5. AccessNeeds("staged", x)
  BY <1>3 DEF AccessNeeds
<1> HIDE DEF x
<1> QED
  BY <1>1, <1>2, <1>3, <1>4, <1>5, AccessWrites
     DEF AccessPcs, ArtifactInv, ArtifactTypeOK

\* prepareCandidate.
LEMMA PrepareTreeStep ==
    ASSUME ArtifactInv, NEW s \in Services, PrepareTree(s)
    PROVE  ArtifactInv'
<1>1. In(s) /\ aSession.acc = "staged" /\ AccessKeeps
  BY DEF PrepareTree, At
<1>2. /\ AccessAdmitted(s) /\ Mine(s) \in Scratch /\ Mine(s) # Nothing
      /\ Mine(s).rel = aTx[s].rel /\ Mine(s).asset = "whole"
  BY <1>1, AccessAt DEF AccessHolds, AccessNeeds
<1>3. CASE Mine(s).cand = Nothing
  <2> DEFINE c == [id |-> aSpent.dirs + 1, files |-> "none", inv |-> "none",
                   sealed |-> FALSE]
             x == [Mine(s) EXCEPT !.cand = c]
             pc == AfterCandidate(aTx[s].rel)
  <2>1. /\ SetMine(s, x) /\ Go(pc)
        /\ UNCHANGED <<aRelease, aRefs, aTx, aIntent, aManual>>
        /\ aSpent' = [aSpent EXCEPT !.dirs = @ + 1]
    BY <1>1, <1>3 DEF PrepareTree, AccessKeeps, SetCandidate
  <2>2. aSpent.dirs + 1 \in Nat /\ aSpent' \in [begun : Nat, dirs : Nat, faults : Nat]
    BY <2>1 DEF ArtifactInv, ArtifactTypeOK
  <2>3. c \in Candidate
    BY <2>2 DEF Candidate
  <2> HIDE DEF c
  <2>4. c # Nothing
    BY <2>3, ArtifactAssumption
  <2>5. /\ x \in Scratch /\ x.rel = aTx[s].rel
        /\ x.cand = c /\ x.asset = "whole"
    BY <1>2, <2>3 DEF Scratch
  <2>6. c.files = "none" /\ c.inv = "none"
    BY DEF c
  <2>7. ScratchOrdered(x)
    BY <2>5, <2>6 DEF ScratchOrdered
  <2>8. AccessNeeds(pc, x)
    BY <2>4, <2>5, <2>6 DEF AccessNeeds, AfterCandidate
  <2>9. pc \in AccessPcs \ {"none", "renamed"}
    BY DEF AfterCandidate, AccessPcs
  <2> HIDE DEF x, pc
  <2> QED
    BY <1>1, <1>2, <2>1, <2>2, <2>5, <2>7, <2>8, <2>9, AccessWrites
<1>4. CASE Mine(s).cand # Nothing /\ Mine(s).cand.sealed
  <2>1. Go("written") /\ UNCHANGED <<Disk, aManual, aSpent>>
    BY <1>4 DEF PrepareTree
  <2> QED
    BY <1>1, <1>2, <1>4, <2>1, AccessMoves
       DEF AccessKeeps, AccessPcs, AccessNeeds, Disk
<1>5. CASE Mine(s).cand # Nothing /\ ~ Mine(s).cand.sealed
  <2>1. PoisonAccess(s)
    BY <1>5 DEF PrepareTree
  <2> QED
    BY <1>1, <2>1, PoisonAccessStep
<1> QED
  BY <1>3, <1>4, <1>5

\* A candidate grows under its access: an application's inventory before its
\* files.
LEMMA CandidateWrites ==
    ASSUME ArtifactInv, NEW s \in Services, In(s),
           aSession.acc \in {"inventory", "files", "written"},
           NEW c \in Candidate, SetCandidate(s, c),
           Mine(s).rel \notin Applications => c.inv = Mine(s).cand.inv,
           Mine(s).rel \in Applications /\ c.inv = "none" => c.files = "none",
           NEW pc \in {"inventory", "files", "written"}, Go(pc),
           pc = "inventory" => Mine(s).rel \in Applications /\ c.files = "none",
           pc = "files" /\ Mine(s).rel \in Applications => c.inv # "none",
           UNCHANGED <<aRelease, aRefs, aTx, aIntent, aManual, aSpent>>
    PROVE  ArtifactInv'
<1> DEFINE x == [Mine(s) EXCEPT !.cand = c]
<1>1. /\ AccessAdmitted(s) /\ Mine(s) \in Scratch /\ Mine(s).cand # Nothing
      /\ Mine(s).rel = aTx[s].rel /\ ScratchOrdered(Mine(s))
  BY AccessAt DEF AccessHolds, AccessNeeds
<1>2. c # Nothing
  BY ArtifactAssumption
<1>3. /\ x \in Scratch /\ x.rel = Mine(s).rel /\ x.asset = Mine(s).asset
      /\ x.cand = c
  BY <1>1 DEF Scratch
<1>4. SetMine(s, x)
  BY DEF SetCandidate
<1> HIDE DEF x
<1>5. ScratchOrdered(x)
  BY <1>1, <1>3 DEF ScratchOrdered
<1>6. AccessNeeds(pc, x)
  BY <1>2, <1>3 DEF AccessNeeds
<1>7. pc \in AccessPcs \ {"none", "renamed"}
  BY DEF AccessPcs
<1> QED
  BY <1>1, <1>3, <1>4, <1>5, <1>6, <1>7, AccessWrites
     DEF ArtifactInv, ArtifactTypeOK

\* Past prepareCandidate there is a candidate.
LEMMA CandidateAt ==
    ASSUME ArtifactInv, NEW s \in Services, In(s),
           aSession.acc \in {"inventory", "files", "written"}
    PROVE  /\ Mine(s).cand \in Candidate
           /\ Mine(s).rel \notin Applications => Mine(s).cand.inv = "none"
           /\ AccessNeeds(aSession.acc, Mine(s))
<1>1. /\ Mine(s) \in Scratch /\ Mine(s).cand # Nothing
      /\ ScratchOrdered(Mine(s)) /\ AccessNeeds(aSession.acc, Mine(s))
  BY AccessAt DEF AccessHolds, AccessNeeds
<1> QED
  BY <1>1 DEF Scratch, ScratchOrdered

\* The inventory file precedes the payload.
LEMMA WriteInventoryStep ==
    ASSUME ArtifactInv, NEW s \in Services, WriteInventory(s)
    PROVE  ArtifactInv'
<1> DEFINE c == [Mine(s).cand EXCEPT !.inv = Grown(@)]
           pc == IF Mine(s).cand.inv = "none" THEN "inventory" ELSE "files"
<1>1. /\ In(s) /\ aSession.acc = "inventory" /\ SetCandidate(s, c) /\ Go(pc)
      /\ UNCHANGED <<aRelease, aRefs, aTx, aIntent, aManual, aSpent>>
  BY DEF WriteInventory, At, AccessKeeps
<1>2. /\ Mine(s).cand \in Candidate /\ Mine(s).rel \in Applications
      /\ Mine(s).cand.files = "none"
  BY <1>1, CandidateAt DEF AccessNeeds
<1>3. c \in Candidate /\ c.files = "none" /\ c.inv # "none"
  BY <1>2 DEF Candidate, Grown
<1>4. pc \in {"inventory", "files", "written"}
  OBVIOUS
<1> HIDE DEF c, pc
<1> QED
  BY <1>1, <1>2, <1>3, <1>4, CandidateWrites

\* writeCandidateFile.
LEMMA WriteCandidateFileStep ==
    ASSUME ArtifactInv, NEW s \in Services, WriteCandidateFile(s)
    PROVE  ArtifactInv'
<1> DEFINE c == [Mine(s).cand EXCEPT !.files = Grown(@)]
           pc == IF Mine(s).cand.files = "none" THEN "files" ELSE "written"
<1>1. /\ In(s) /\ aSession.acc = "files" /\ SetCandidate(s, c) /\ Go(pc)
      /\ UNCHANGED <<aRelease, aRefs, aTx, aIntent, aManual, aSpent>>
  BY DEF WriteCandidateFile, At, AccessKeeps
<1>2. /\ Mine(s).cand \in Candidate
      /\ Mine(s).rel \in Applications => Mine(s).cand.inv # "none"
  BY <1>1, CandidateAt DEF AccessNeeds
<1>3. c \in Candidate /\ c.inv = Mine(s).cand.inv
  BY <1>2 DEF Candidate, Grown
<1>4. pc \in {"inventory", "files", "written"} /\ pc # "inventory"
  OBVIOUS
<1> HIDE DEF c, pc
<1> QED
  BY <1>1, <1>2, <1>3, <1>4, CandidateWrites

\* sealTree.
LEMMA SealTreeStep ==
    ASSUME ArtifactInv, NEW s \in Services, SealTree(s)
    PROVE  ArtifactInv'
<1> DEFINE c == [Mine(s).cand EXCEPT !.sealed = TRUE]
<1>1. /\ In(s) /\ aSession.acc = "written"
      /\ WholeCandidate(aTx[s].rel, Mine(s).cand)
      /\ SetCandidate(s, c) /\ aSession' = aSession
      /\ UNCHANGED <<aRelease, aRefs, aTx, aIntent, aManual, aSpent>>
  BY DEF SealTree, At, AccessKeeps
<1>2. /\ Mine(s).cand \in Candidate /\ aSession \in Session
      /\ Mine(s).rel = aTx[s].rel
  BY <1>1, CandidateAt, AccessAt, SessionHeld DEF ArtifactInv
<1>3. Go("written")
  BY <1>1, <1>2 DEF Go, Session
<1>4. /\ c \in Candidate /\ c.inv = Mine(s).cand.inv
      /\ Mine(s).rel \in Applications => c.inv # "none"
  BY <1>1, <1>2 DEF Candidate, WholeCandidate
<1> HIDE DEF c
<1> QED
  BY <1>1, <1>2, <1>3, <1>4, CandidateWrites

\* observeExistingTarget: the release of the digest stands already.
LEMMA ReuseReleaseStep ==
    ASSUME ArtifactInv, NEW s \in Services, ReuseRelease(s)
    PROVE  ArtifactInv'
<1>1. /\ In(s) /\ aSession.acc = "written" /\ AccessKeeps
      /\ aRelease[aTx[s].rel] # Nothing
      /\ WholeTree(aTx[s].rel, aRelease[aTx[s].rel])
      /\ Go("renamed") /\ UNCHANGED <<Disk, aManual, aSpent>>
  BY DEF ReuseRelease, At
<1>2. AccessAdmitted(s) /\ Mine(s) # Nothing
  BY <1>1, AccessAt DEF AccessHolds
<1> QED
  BY <1>1, <1>2, AccessMoves DEF AccessKeeps, AccessPcs, AccessNeeds, Disk

\* The access is closed, or a native call fails.
LEMMA AccessEnds ==
    ASSUME ArtifactInv, NEW s \in Services, CloseAccess(s) \/ AccessFails(s)
    PROVE  ArtifactInv'
<1>1. CASE CloseAccess(s)
  BY <1>1, AccessLeft
     DEF CloseAccess, At, Disk, Records, ArtifactInv, ArtifactTypeOK
<1>2. CASE AccessFails(s)
  BY <1>2, AccessLeft, ManualTyped, FaultSpent
     DEF AccessFails, LeaveAccess, Disk, ArtifactInv
<1> QED
  BY <1>1, <1>2

\* publishCandidate: the one step that adds a release; it is whole.
LEMMA PublishDirectoryStep ==
    ASSUME ArtifactInv, NEW s \in Services, PublishDirectory(s)
    PROVE  ArtifactInv'
<1> DEFINE r == aTx[s].rel
           c == Mine(s).cand
           t == [id |-> c.id, files |-> c.files, inv |-> c.inv = "whole"]
           x == [Mine(s) EXCEPT !.cand = Nothing]
<1>1. /\ In(s) /\ aSession.acc = "written" /\ aRelease[r] = Nothing
      /\ WholeCandidate(r, c) /\ aRelease' = [aRelease EXCEPT ![r] = t]
      /\ SetMine(s, x) /\ Go("renamed")
      /\ UNCHANGED <<aRefs, aTx, aIntent, aManual, aSpent>>
  BY DEF PublishDirectory, At, AccessKeeps, SetCandidate
<1>2. /\ AccessAdmitted(s) /\ Mine(s) \in Scratch /\ r \in Digests
      /\ Mine(s).rel = r
  BY <1>1, AccessAt DEF AccessHolds
<1>3. aSession \in Session /\ aSession # Nothing /\ aSession.svc = s
  BY <1>1, SessionHeld DEF ArtifactInv
<1>4. /\ aSession' \in Session /\ aSession'.acc = "renamed"
      /\ aSession'.svc = s /\ aSession'.col = "none"
      /\ aSession'.pub = aSession.pub
  BY <1>1, <1>2, <1>3, GoFields DEF AccessPcs, AccessAdmitted
<1>5. t \in Tree /\ WholeTree(r, t)
  <2>1. c \in Candidate
    BY <1>1, CandidateAt
  <2> QED
    BY <1>1, <2>1 DEF Candidate, Tree, WholeCandidate, WholeTree
<1>6. x \in Scratch /\ x.rel = r /\ x.cand = Nothing
  BY <1>2 DEF Scratch
<1> HIDE DEF t, x
<1>7. t # Nothing
  BY <1>5, ArtifactAssumption
<1>8. ScratchOrdered(x)
  BY <1>6 DEF ScratchOrdered
<1>9. /\ aScratch' \in [Services -> [1..MaxInstall -> Scratch \cup {Nothing}]]
      /\ Mine(s)' = x /\ x # Nothing
      /\ \A u \in Services \ {s}, m \in 1..MaxInstall :
            aScratch'[u][m] = aScratch[u][m]
      /\ ScratchKept'
  BY <1>1, <1>2, <1>6, <1>8, MineWritten, ArtifactAssumption DEF AccessAdmitted
<1>10. /\ aRelease' \in [Digests -> Tree \cup {Nothing}]
       /\ aRelease'[r] = t
       /\ \A q \in Digests \ {r} : aRelease'[q] = aRelease[q]
  BY <1>1, <1>2, <1>5 DEF ArtifactInv, ArtifactTypeOK
<1>11. ArtifactTypeOK'
  BY <1>1, <1>4, <1>9, <1>10 DEF ArtifactInv, ArtifactTypeOK
<1>12. AccessKept'
  <2>1. AccessAdmitted(s)'
    BY <1>1, <1>2, <1>4 DEF AccessAdmitted, CleanupTarget, Collecting
  <2>2. AccessNeeds("renamed", x)
    BY DEF AccessNeeds
  <2>3. WholeTree(r, t) /\ aTx'[s].rel = r
    BY <1>1, <1>5
  <2> QED
    BY <1>4, <1>7, <1>9, <1>10, <2>1, <2>2, <2>3
       DEF AccessKept, AccessHolds, AccessNeeds, WholeTree
<1>13. CollectorKept'
  BY <1>4 DEF CollectorKept
<1>14. \A a \in Binding : Stands(a) => Stands(a)'
  BY <1>1, <1>10 DEF Stands, Binding, CleanupTarget, Collecting
<1>15. PublicationHeld'
  BY <1>1, <1>3, <1>4, <1>14 DEF ArtifactInv, PublicationHeld, Session
<1>16. ReferencedWhole'
  BY <1>1, <1>14, SlotsBound DEF ArtifactInv, ReferencedWhole, Stands
<1>17. DamageIsIntended'
  <2>1. \A q \in Digests : CleanupTarget(q)' = CleanupTarget(q)
    BY <1>1 DEF CleanupTarget, Collecting
  <2> QED
    BY <1>1, <1>5, <1>10, <2>1 DEF ArtifactInv, DamageIsIntended, Collecting
<1>18. CollectionRecoverable'
  <2>1. ASSUME NEW u \in Services, Collecting(u, "published")
        PROVE  aRelease'[aIntent[u].art.rel] = aRelease[aIntent[u].art.rel]
    <3>1. aIntent[u].art.rel # r
      BY <1>2, <2>1 DEF AccessAdmitted, CleanupTarget
    <3>2. aIntent[u].art.rel \in Digests
      BY <2>1, IntentTyped DEF ArtifactInv
    <3> QED
      BY <1>10, <3>1, <3>2
  <2> QED
    BY <1>1, <1>2, <1>9, <2>1, RecoverableElsewhere
       DEF ArtifactInv, AccessAdmitted
<1> QED
  BY <1>1, <1>9, <1>11, <1>12, <1>13, <1>15, <1>16, <1>17, <1>18,
     TransactionKeptFrame, IntentPhasedFrame DEF ArtifactInv

\* The publication that the access returns stands.
LEMMA ObserveTargetStep ==
    ASSUME ArtifactInv, NEW s \in Services, ObserveTarget(s)
    PROVE  ArtifactInv'
<1> DEFINE r == aTx[s].rel
           b == BindingOf(r)
<1>1. /\ In(s) /\ aSession.acc = "renamed" /\ aRelease[r] # Nothing
      /\ aSession' = [aSession EXCEPT !.acc = "published", !.pub = b]
      /\ UNCHANGED <<aRelease, aScratch, aRefs, aTx, aIntent, aManual, aSpent>>
  BY DEF ObserveTarget, At, Disk, Records
<1>2. /\ AccessAdmitted(s) /\ Mine(s) # Nothing /\ r \in Digests
      /\ WholeTree(r, aRelease[r])
  BY <1>1, AccessAt DEF AccessHolds
<1>3. aSession \in Session /\ aSession # Nothing /\ aSession.svc = s
  BY <1>1, SessionHeld DEF ArtifactInv
<1>4. b \in Binding /\ b.rel = r /\ b.id = aRelease[r].id
  <2>1. aRelease[r] \in Tree
    BY <1>1, <1>2 DEF ArtifactInv, ArtifactTypeOK
  <2> QED
    BY <1>2, <2>1 DEF BindingOf, Binding, Tree
<1> HIDE DEF b
<1>5. /\ aSession' \in Session /\ aSession'.acc = "published"
      /\ aSession'.svc = s /\ aSession'.col = "none" /\ aSession'.pub = b
  BY <1>1, <1>2, <1>3, <1>4 DEF Session, AccessPcs, AccessAdmitted
<1>6. AccessKept'
  <2>1. AccessAdmitted(s)'
    BY <1>1, <1>2, <1>5 DEF AccessAdmitted, CleanupTarget, Collecting
  <2> QED
    BY <1>1, <1>2, <1>5, <2>1 DEF AccessKept, AccessHolds, AccessNeeds, Mine
<1>7. CollectorKept'
  BY <1>5 DEF CollectorKept
<1>8. PublicationHeld'
  BY <1>1, <1>2, <1>4, <1>5 DEF PublicationHeld, Stands, AccessAdmitted,
     CleanupTarget, Collecting, WholeTree
<1> QED
  BY <1>1, <1>5, <1>6, <1>7, <1>8, SessionStep DEF ArtifactInv, ArtifactTypeOK

-----------------------------------------------------------------------------
(* Steps of the transaction.                                               *)

\* clearManualCleanup.
LEMMA ClearManualCleanupStep ==
    ASSUME ArtifactInv, NEW s \in Services, ClearManualCleanup(s)
    PROVE  ArtifactInv'
<1>1. UNCHANGED <<aRelease, aScratch, aRefs, aTx, aIntent, aSession, aSpent>>
  BY DEF ClearManualCleanup, Disk
<1>2. aManual' \in [Services -> BOOLEAN]
  BY DEF ClearManualCleanup, ArtifactInv, ArtifactTypeOK
<1>3. AccessKept' /\ CollectorKept' /\ PublicationHeld'
  BY <1>1 DEF ArtifactInv, AccessKept, AccessHolds, AccessAdmitted, Mine,
     CollectorKept, PublicationHeld, Stands, CleanupTarget, Collecting
<1> QED
  BY <1>1, <1>2, <1>3, SessionStep DEF ArtifactInv, ArtifactTypeOK

\* A new transaction finds no scratch of its own.
LEMMA BeginTransactionStep ==
    ASSUME ArtifactInv, NEW s \in Services, NEW op, NEW r,
           BeginTransaction(s, op, r)
    PROVE  ArtifactInv'
<1> DEFINE x == [n |-> aTx[s].n + 1, op |-> op, rel |-> r,
                 phase |-> IF op = "install" THEN "reserved" ELSE "published"]
<1>1. /\ In(s) /\ aSession.acc = "none" /\ aSession.col = "none"
      /\ aIntent[s] = Nothing /\ aTx[s].n < MaxInstall
      /\ aTx' = [aTx EXCEPT ![s] = x]
      /\ aSession' = [aSession EXCEPT !.pub = Nothing]
      /\ aSpent' = [aSpent EXCEPT !.begun = @ + 1]
      /\ UNCHANGED <<aRelease, aScratch, aRefs, aIntent, aManual>>
  BY DEF BeginTransaction, EnsureWritable, Unborrowed, Disk
<1>2. aSession \in Session /\ aSession # Nothing /\ aSession.svc = s
  BY <1>1, SessionHeld DEF ArtifactInv
<1>3. /\ aSession' \in Session /\ aSession'.acc = "none"
      /\ aSession'.col = "none" /\ aSession'.pub = Nothing
  BY <1>1, <1>2 DEF Session
<1>4. op \in {"install", "rollback", "uninstall"} /\ r \in Digests \cup {Nothing}
      /\ (op = "install" => r \in Digests)
  <2>1. aRefs[s].previous # Nothing => aRefs[s].previous.rel \in Digests
    BY DEF ArtifactInv, ArtifactTypeOK, References, Binding
  <2> QED
    BY <2>1 DEF BeginTransaction
<1>5. aTx[s] \in Transaction /\ aTx[s].n \in Nat
  BY DEF ArtifactInv, ArtifactTypeOK, Transaction
<1>6. x \in Transaction
  BY <1>1, <1>4, <1>5, ArtifactAssumption DEF Transaction, TxPhases
<1>7. /\ x.n = aTx[s].n + 1 /\ x.rel = r
      /\ x.phase = "reserved" => op = "install"
  OBVIOUS
<1> HIDE DEF x
<1>8. /\ aTx' \in [Services -> Transaction] /\ aTx'[s] = x
      /\ \A t \in Services \ {s} : aTx'[t] = aTx[t]
  BY <1>1, <1>6 DEF ArtifactInv, ArtifactTypeOK
<1>9. ArtifactTypeOK'
  BY <1>1, <1>3, <1>8 DEF ArtifactInv, ArtifactTypeOK
<1>10. TransactionKept'
  BY <1>4, <1>5, <1>7, <1>8 DEF ArtifactInv, TransactionKept
<1>11. ScratchKept'
  <2> SUFFICES ASSUME NEW t \in Services, NEW m \in 1..MaxInstall,
                      aScratch[t][m] # Nothing
               PROVE  /\ m <= aTx'[t].n
                      /\ m = aTx'[t].n => aScratch[t][m].rel = aTx'[t].rel
                      /\ ScratchOrdered(aScratch[t][m])
    BY <1>1 DEF ScratchKept, ScratchOrdered
  <2>1. /\ m <= aTx[t].n
        /\ m = aTx[t].n => aScratch[t][m].rel = aTx[t].rel
        /\ ScratchOrdered(aScratch[t][m])
    BY DEF ArtifactInv, ScratchKept
  <2> QED
    BY <1>5, <1>7, <1>8, <2>1
<1>12. AccessKept' /\ CollectorKept' /\ PublicationHeld'
  BY <1>3 DEF AccessKept, CollectorKept, PublicationHeld
<1>13. CollectionRecoverable'
  BY <1>1, <1>8, RecoverableElsewhere DEF ArtifactInv
<1> QED
  BY <1>1, <1>9, <1>10, <1>11, <1>12, <1>13, ReferencedWholeFrame,
     DamageIsIntendedFrame, IntentPhasedFrame DEF ArtifactInv

\* A transaction under way goes on; what it published stays held.
LEMMA PhaseStep ==
    ASSUME ArtifactInv, NEW s \in Services, EnsureWritable(s),
           aTx[s].phase # "committed",
           NEW phase \in TxPhases \ {"reserved"},
           aTx' = [aTx EXCEPT ![s].phase = phase],
           UNCHANGED <<aRelease, aScratch, aIntent, aManual, aSession, aSpent>>,
           aRefs' \in [Services -> References], ReferencedWhole'
    PROVE  ArtifactInv'
<1>1. /\ In(s) /\ aSession.acc = "none" /\ aSession.col = "none"
      /\ aIntent[s] = Nothing
  BY DEF EnsureWritable, Unborrowed
<1>2. aSession # Nothing /\ aSession.svc = s
  BY <1>1, SessionHeld DEF ArtifactInv
<1>3. /\ aTx' \in [Services -> Transaction] /\ aTx'[s].phase = phase
      /\ aTx'[s].n = aTx[s].n /\ aTx'[s].rel = aTx[s].rel
      /\ \A t \in Services \ {s} : aTx'[t] = aTx[t]
  BY DEF ArtifactInv, ArtifactTypeOK, Transaction
<1>4. ArtifactTypeOK'
  BY <1>3 DEF ArtifactInv, ArtifactTypeOK
<1>5. TransactionKept'
  BY <1>3 DEF ArtifactInv, TransactionKept
<1>6. ScratchKept'
  BY <1>3 DEF ArtifactInv, ScratchKept, ScratchOrdered
<1>7. AccessKept' /\ CollectorKept'
  BY <1>1 DEF AccessKept, CollectorKept
<1>8. PublicationHeld'
  BY <1>2 DEF ArtifactInv, PublicationHeld, Stands, CleanupTarget, Collecting
<1>9. CollectionRecoverable'
  BY <1>1, <1>3, RecoverableElsewhere DEF ArtifactInv
<1> QED
  BY <1>4, <1>5, <1>6, <1>7, <1>8, <1>9,
     DamageIsIntendedFrame, IntentPhasedFrame DEF ArtifactInv

\* CommitRelease, AbandonRelease and CommitTransaction.
LEMMA TransactionMoves ==
    ASSUME ArtifactInv, NEW s \in Services,
           CommitRelease(s) \/ AbandonRelease(s) \/ CommitTransaction(s)
    PROVE  ArtifactInv'
<1>1. /\ EnsureWritable(s) /\ aTx[s].phase # "committed"
      /\ UNCHANGED <<aRelease, aScratch, aRefs, aIntent, aManual, aSession,
                     aSpent>>
  BY DEF CommitRelease, AbandonRelease, CommitTransaction, Disk
<1>2. ReferencedWhole' /\ aRefs' \in [Services -> References]
  BY <1>1, ReferencedWholeFrame DEF ArtifactInv, ArtifactTypeOK
<1>3. PICK phase \in TxPhases \ {"reserved"} :
         aTx' = [aTx EXCEPT ![s].phase = phase]
  BY DEF CommitRelease, AbandonRelease, CommitTransaction, TxPhases
<1> QED
  BY <1>1, <1>2, <1>3, PhaseStep

\* A record of references is replaced by one that names what stands.
LEMMA ReferencesReplaced ==
    ASSUME ArtifactInv, NEW s \in Services, NEW v \in References,
           aRefs' = [aRefs EXCEPT ![s] = v], UNCHANGED <<aRelease, aIntent>>,
           \A a \in Slots(v) : Stands(a)
    PROVE  aRefs' \in [Services -> References] /\ ReferencedWhole'
<1>1. /\ aRefs' \in [Services -> References] /\ aRefs'[s] = v
      /\ \A t \in Services \ {s} : aRefs'[t] = aRefs[t]
  BY DEF ArtifactInv, ArtifactTypeOK
<1>2. \A a : Stands(a)' = Stands(a)
  BY DEF Stands, CleanupTarget, Collecting
<1>3. \A t \in Services : \A a \in Slots(aRefs[t]) : Stands(a)
  BY DEF ArtifactInv, ReferencedWhole, Stands
<1>4. \A t \in Services : \A a \in Slots(aRefs'[t]) : Stands(a)'
  BY <1>1, <1>2, <1>3
<1> QED
  BY <1>1, <1>4 DEF ReferencedWhole, Stands, Slots

\* The provisional slot names the publication, which is held.
LEMMA PublishProvisionalStep ==
    ASSUME ArtifactInv, NEW s \in Services, PublishProvisional(s)
    PROVE  ArtifactInv'
<1> DEFINE v == [aRefs[s] EXCEPT !.provisional = aSession.pub]
<1>1. /\ In(s) /\ aTx[s].phase = "published" /\ aSession.pub # Nothing
      /\ aRefs' = [aRefs EXCEPT ![s] = v]
      /\ UNCHANGED <<aRelease, aScratch, aTx, aIntent, aManual, aSession, aSpent>>
  BY DEF PublishProvisional, PublishReferences, Disk
<1>2. aSession \in Session /\ aSession # Nothing /\ aSession.svc = s
  BY <1>1, SessionHeld DEF ArtifactInv
<1>3. Stands(aSession.pub)
  BY <1>1, <1>2 DEF ArtifactInv, PublicationHeld
<1>4. v \in References /\ Slots(v) \subseteq Slots(aRefs[s]) \cup {aSession.pub}
  <2>1. aRefs[s] \in References /\ aSession.pub \in Binding \cup {Nothing}
    BY <1>2, SlotsBound DEF ArtifactInv, Session
  <2> QED
    BY <2>1 DEF References, Slots
<1> HIDE DEF v
<1>5. \A a \in Slots(v) : Stands(a)
  BY <1>3, <1>4 DEF ArtifactInv, ReferencedWhole, Stands
<1>6. aRefs' \in [Services -> References] /\ ReferencedWhole'
  BY <1>1, <1>4, <1>5, ReferencesReplaced
<1>7. ArtifactTypeOK'
  BY <1>1, <1>6 DEF ArtifactInv, ArtifactTypeOK
<1>8. AccessKept' /\ CollectorKept' /\ PublicationHeld'
  BY <1>1 DEF ArtifactInv, AccessKept, AccessHolds, AccessAdmitted, Mine,
     CollectorKept, PublicationHeld, Stands, CleanupTarget, Collecting
<1> QED
  BY <1>1, <1>6, <1>7, <1>8, TransactionKeptFrame, ScratchKeptFrame,
     DamageIsIntendedFrame, IntentPhasedFrame, CollectionRecoverableFrame
     DEF ArtifactInv

\* The next generation names slots of the one before it.
LEMMA RotateReferencesStep ==
    ASSUME ArtifactInv, NEW s \in Services, RotateReferences(s)
    PROVE  ArtifactInv'
<1>1. /\ aTx[s].phase = "published" /\ EnsureWritable(s)
      /\ aTx' = [aTx EXCEPT ![s].phase = "referenced"]
      /\ UNCHANGED <<aRelease, aScratch, aIntent, aManual, aSession, aSpent>>
  BY DEF RotateReferences, PublishReferences, Disk
<1>2. aRefs[s] \in References /\ aTx[s].op \in {"install", "rollback", "uninstall"}
  BY SlotsBound DEF ArtifactInv, ArtifactTypeOK, Transaction
<1>3. PICK next \in {aRefs[s].provisional, aRefs[s].previous, Nothing} :
         aRefs' = [aRefs EXCEPT ![s] =
            [current |-> next, provisional |-> Nothing,
             previous |-> IF next = Nothing THEN Nothing ELSE aRefs[s].current]]
  <2>1. CASE aTx[s].op = "install"
    BY <2>1 DEF RotateReferences, PublishReferences
  <2>2. CASE aTx[s].op = "rollback"
    BY <2>2 DEF RotateReferences, PublishReferences
  <2>3. CASE aTx[s].op = "uninstall"
    BY <2>3 DEF RotateReferences, PublishReferences
  <2> QED
    BY <1>2, <2>1, <2>2, <2>3
<1> DEFINE v == [current |-> next, provisional |-> Nothing,
                 previous |-> IF next = Nothing THEN Nothing
                              ELSE aRefs[s].current]
<1>4. v \in References /\ Slots(v) \subseteq Slots(aRefs[s])
  BY <1>2 DEF References, Slots
<1>5. aRefs' = [aRefs EXCEPT ![s] = v]
  BY <1>3
<1> HIDE DEF v
<1>6. \A a \in Slots(v) : Stands(a)
  BY <1>4 DEF ArtifactInv, ReferencedWhole, Stands
<1>7. aRefs' \in [Services -> References] /\ ReferencedWhole'
  BY <1>1, <1>4, <1>5, <1>6, ReferencesReplaced
<1> QED
  BY <1>1, <1>7, PhaseStep DEF TxPhases

-----------------------------------------------------------------------------
(* Steps of the collectors.                                                *)

\* The collector fails, or is created for a retained intent.
LEMMA CollectorTurns ==
    ASSUME ArtifactInv, NEW s \in Services, In(s),
           aSession' \in Session, aSession'.svc = aSession.svc,
           aSession'.acc = aSession.acc, aSession'.pub = aSession.pub,
           aSession'.col = "active" => aIntent[s] # Nothing,
           aSession.acc = "none",
           UNCHANGED <<aRelease, aScratch, aRefs, aTx, aIntent, aManual>>,
           aSpent' \in [begun : Nat, dirs : Nat, faults : Nat]
    PROVE  ArtifactInv'
<1>1. aSession \in Session /\ aSession # Nothing /\ aSession.svc = s
  BY SessionHeld DEF ArtifactInv
<1>2. AccessKept' /\ CollectorKept'
  BY <1>1 DEF AccessKept, CollectorKept
<1>3. PublicationHeld'
  BY <1>1, PublicationFrame DEF ArtifactInv
<1> QED
  BY <1>2, <1>3, SessionStep DEF ArtifactInv, ArtifactTypeOK

\* Both recover entries take up an intent as it is.
LEMMA RecoverStep ==
    ASSUME ArtifactInv, NEW s \in Services,
           RecoverPublished(s) \/ RecoverScratch(s)
    PROVE  ArtifactInv'
<1>1. /\ In(s) /\ aSession.acc = "none" /\ aIntent[s] # Nothing
      /\ aSession' = [aSession EXCEPT !.col = "active"]
      /\ UNCHANGED <<aRelease, aScratch, aRefs, aTx, aIntent, aManual, aSpent>>
  BY DEF RecoverPublished, RecoverScratch, Collecting, CollectorKeeps, Disk
<1>2. /\ aSession' \in Session /\ aSession'.svc = aSession.svc
      /\ aSession'.acc = aSession.acc /\ aSession'.pub = aSession.pub
  BY <1>1, SessionHeld DEF ArtifactInv, Session
<1> QED
  BY <1>1, <1>2, CollectorTurns DEF ArtifactInv, ArtifactTypeOK

\* A collector that fails leaves its intent.
LEMMA CollectorFailsStep ==
    ASSUME ArtifactInv, NEW s \in Services, CollectorFails(s)
    PROVE  ArtifactInv'
<1>1. /\ In(s) /\ aSession.col = "active" /\ Collector("failed")
      /\ UNCHANGED <<aRelease, aScratch, aRefs, aTx, aIntent, aManual>>
  BY DEF CollectorFails, Disk, Records
<1>2. aSession \in Session /\ aSession.acc = "none"
  BY <1>1, SessionHeld DEF ArtifactInv, CollectorKept
<1>3. aSpent' \in [begun : Nat, dirs : Nat, faults : Nat]
  BY FaultSpent DEF CollectorFails, ArtifactInv, ArtifactTypeOK
<1>4. /\ aSession' \in Session /\ aSession'.col = "failed"
      /\ aSession'.svc = aSession.svc /\ aSession'.acc = aSession.acc
      /\ aSession'.pub = aSession.pub
  BY <1>1, <1>2, CollectorFields
<1> QED
  BY <1>1, <1>2, <1>3, <1>4, CollectorTurns

\* An intent is published: its target is unreferenced, and what it finds is
\* what its first phase expects.
LEMMA IntentPublished ==
    ASSUME ArtifactInv, NEW s \in Services, EnsureWritable(s),
           NEW c \in PublishedIntent \cup ScratchIntent, SetIntent(s, c),
           \/ Collector("active") /\ UNCHANGED aSpent
           \/ Collector("failed") /\ ArtifactFault,
           UNCHANGED <<aRelease, aScratch, aRefs, aTx, aManual>>,
           c.scope = "published" =>
              /\ aTx[s].phase = "committed"
              /\ \A t \in Services : \A a \in Slots(aRefs[t]) :
                    a.rel # c.art.rel
              /\ \A t \in Services : Collecting(t, "published") =>
                    aIntent[t].art.rel # c.art.rel,
           c.scope = "published" => PublishedResumable(s)',
           c.scope = "scratch" =>
              /\ ScratchResumable(s)'
              /\ c.cand = Nothing => Order(c.phase) >= 4
    PROVE  ArtifactInv'
<1>1. /\ In(s) /\ aSession.acc = "none" /\ aIntent[s] = Nothing
  BY DEF EnsureWritable, Unborrowed
<1>2. aSession \in Session /\ aSession # Nothing /\ aSession.svc = s
  BY <1>1, SessionHeld DEF ArtifactInv
<1>3. /\ aSession' \in Session /\ aSession'.svc = s
      /\ aSession'.acc = "none" /\ aSession'.pub = aSession.pub
  BY <1>1, <1>2, CollectorFields
<1>4. aSpent' \in [begun : Nat, dirs : Nat, faults : Nat]
  BY FaultSpent DEF ArtifactInv, ArtifactTypeOK
<1>5. /\ aIntent' \in [Services -> PublishedIntent \cup ScratchIntent \cup {Nothing}]
      /\ aIntent'[s] = c /\ c # Nothing
      /\ \A t \in Services \ {s} : aIntent'[t] = aIntent[t]
  BY ArtifactAssumption DEF SetIntent, ArtifactInv, ArtifactTypeOK
<1>6. ArtifactTypeOK'
  BY <1>3, <1>4, <1>5 DEF ArtifactInv, ArtifactTypeOK
<1>7. AccessKept' /\ CollectorKept'
  BY <1>3, <1>5 DEF AccessKept, CollectorKept
<1>8. /\ \A t \in Services \ {s} :
            Collecting(t, "published")' = Collecting(t, "published")
      /\ ~ Collecting(s, "published")
      /\ Collecting(s, "published")' <=> c.scope = "published"
  BY <1>1, <1>5 DEF Collecting
<1>9. \A q : CleanupTarget(q)' <=>
                CleanupTarget(q) \/ (c.scope = "published" /\ q = c.art.rel)
  BY <1>5, <1>8 DEF CleanupTarget
<1>10. PublicationHeld'
  BY <1>2, <1>3, <1>9 DEF ArtifactInv, PublicationHeld, Stands
<1>11. ReferencedWhole'
  BY <1>9 DEF ArtifactInv, ReferencedWhole
<1>12. DamageIsIntended'
  BY <1>5, <1>8, <1>9 DEF ArtifactInv, DamageIsIntended
<1>13. IntentPhased'
  BY <1>5 DEF ArtifactInv, IntentPhased, Collecting
<1>14. CollectionRecoverable'
  <2> SUFFICES ASSUME NEW t \in Services
               PROVE  /\ Collecting(t, "published")' => PublishedResumable(t)'
                      /\ Collecting(t, "scratch")' => ScratchResumable(t)'
    BY DEF CollectionRecoverable
  <2>1. CASE t = s
    BY <1>5, <2>1 DEF Collecting
  <2>2. CASE t # s
    BY <1>5, <2>2 DEF ArtifactInv, CollectionRecoverable, Collecting,
       PublishedResumable, ScratchResumable, Target, InPhase, Left,
       ScratchSettled, EmptyApplicationCandidate
  <2> QED
    BY <2>1, <2>2
<1> QED
  BY <1>6, <1>7, <1>10, <1>11, <1>12, <1>13, <1>14, TransactionKeptFrame,
     ScratchKeptFrame DEF ArtifactInv

\* collectPublishedArtifact up to its intent.
LEMMA CollectPublishedStep ==
    ASSUME ArtifactInv, NEW s \in Services, NEW r \in Digests,
           CollectPublished(s, r)
    PROVE  ArtifactInv'
<1> DEFINE b == BindingOf(r)
           c == [scope |-> "published", art |-> b,
                 phase |-> "payload-removing"]
<1>1. /\ EnsureWritable(s) /\ aTx[s].phase = "committed"
      /\ ZeroReferences(s, b) /\ aRelease[r] # Nothing
      /\ WholeTree(r, aRelease[r])
      /\ SetIntent(s, c)
      /\ UNCHANGED <<aRelease, aScratch, aRefs, aTx, aManual>>
  BY DEF CollectPublished, CollectorKeeps, Disk
<1>2. \/ Collector("active") /\ UNCHANGED aSpent
      \/ Collector("failed") /\ ArtifactFault
  BY DEF CollectPublished
<1>3. /\ b \in Binding /\ b.rel = r /\ b.id = aRelease[r].id
      /\ aIntent[s] = Nothing
  <2>1. aRelease[r] \in Tree
    BY <1>1 DEF ArtifactInv, ArtifactTypeOK
  <2> QED
    BY <1>1, <2>1 DEF BindingOf, Binding, Tree, EnsureWritable, Unborrowed
<1> HIDE DEF b
<1>4. c \in PublishedIntent
  BY <1>3 DEF PublishedIntent, PublishedPhases
<1>5. c.scope = "published" /\ c.art = b /\ c.phase = "payload-removing"
  OBVIOUS
<1> HIDE DEF c
<1>6. aIntent'[s] = c
  BY <1>1 DEF SetIntent, ArtifactInv, ArtifactTypeOK
<1>7. /\ \A t \in Services : \A a \in Slots(aRefs[t]) : a.rel # c.art.rel
      /\ \A t \in Services : Collecting(t, "published") =>
            aIntent[t].art.rel # c.art.rel
  BY <1>1, <1>3, <1>5 DEF ZeroReferences, CompleteInventory, Collecting
<1>8. PublishedResumable(s)'
  BY <1>1, <1>3, <1>5, <1>6 DEF PublishedResumable, Target, InPhase, WholeTree
<1> QED
  BY <1>1, <1>2, <1>4, <1>5, <1>7, <1>8, IntentPublished

\* The order of the phases, value by value.
LEMMA OrderValues ==
    /\ Order("candidate-payload-removing") = 1
    /\ Order("candidate-inventory-removing") = 2
    /\ Order("candidate-root-removing") = 3
    /\ Order("asset-removing") = 4
    /\ Order("marker-removing") = 5
    /\ Order("scratch-root-removing") = 6
BY DEF Order

\* collectScratchArtifacts up to its intent.
LEMMA CollectScratchStep ==
    ASSUME ArtifactInv, NEW s \in Services, NEW n \in 1..MaxInstall,
           CollectScratch(s, n)
    PROVE  ArtifactInv'
<1> DEFINE x == aScratch[s][n]
           c == [scope |-> "scratch", tx |-> n, rel |-> x.rel,
                 asset |-> x.asset,
                 cand |-> IF x.cand = Nothing THEN Nothing ELSE x.cand.id,
                 phase |-> IF x.cand = Nothing THEN "asset-removing"
                           ELSE "candidate-payload-removing"]
<1>1. /\ EnsureWritable(s) /\ ScratchSettled(s, n) /\ x # Nothing /\ x.marker
      /\ SetIntent(s, c)
      /\ UNCHANGED <<aRelease, aScratch, aRefs, aTx, aManual>>
  BY DEF CollectScratch, CollectorKeeps, Disk
<1>2. \/ Collector("active") /\ UNCHANGED aSpent
      \/ Collector("failed") /\ ArtifactFault
  BY DEF CollectScratch
<1>3. x \in Scratch /\ ScratchOrdered(x)
  <2>1. aScratch[s] \in [1..MaxInstall -> Scratch \cup {Nothing}]
    BY DEF ArtifactInv, ArtifactTypeOK
  <2>2. x \in Scratch
    BY <1>1, <2>1
  <2>3. ScratchOrdered(x)
    BY <1>1 DEF ArtifactInv, ScratchKept
  <2> QED
    BY <2>2, <2>3
<1>4. x.cand # Nothing => x.cand \in Candidate
  BY <1>3 DEF Scratch
<1>5. c \in ScratchIntent
  BY <1>3, <1>4 DEF Scratch, Candidate, ScratchIntent, ScratchPhases
<1>6. /\ c.scope = "scratch" /\ c.tx = n /\ c.rel = x.rel
      /\ c.asset = x.asset
      /\ x.cand = Nothing => c.cand = Nothing /\ c.phase = "asset-removing"
      /\ x.cand # Nothing =>
            c.cand = x.cand.id /\ c.phase = "candidate-payload-removing"
  OBVIOUS
<1> HIDE DEF c
<1>7. aIntent'[s] = c /\ c # Nothing
  BY <1>1, <1>5, ArtifactAssumption DEF SetIntent, ArtifactInv, ArtifactTypeOK
<1>8. Left(s)' = x
  BY <1>1, <1>6, <1>7 DEF Left
<1> HIDE DEF x
<1>9. c.cand = Nothing => Order(c.phase) >= 4
  <2>1. x.cand # Nothing => x.cand.id # Nothing
    BY <1>4, ArtifactAssumption DEF Candidate
  <2> QED
    BY <1>6, <2>1, OrderValues
<1>10. ScratchResumable(s)'
  <2>1. ScratchSettled(s, aIntent[s].tx)'
    BY <1>1, <1>6, <1>7 DEF ScratchSettled
  <2>2. ValidTopLevel(x, c)
    BY <1>1, <1>6, OrderValues DEF ValidTopLevel
  <2>3. ASSUME x.cand # Nothing
        PROVE  /\ Authenticated(x) /\ c.phase = "candidate-payload-removing"
               /\ \/ x.rel \in Applications <=> x.cand.inv # "none"
                  \/ /\ x.rel \in Applications /\ x.cand.inv = "none"
                     /\ x.cand.files = "none"
    BY <1>3, <1>6, <2>3 DEF ScratchOrdered, Authenticated
  <2> QED
    BY <1>1, <1>6, <1>7, <1>8, <2>1, <2>2, <2>3
       DEF ScratchResumable, InPhase, Collecting, EmptyApplicationCandidate,
           ValidTopLevel, Authenticated
<1>11. c.scope # "published"
  BY <1>6
<1> QED
  BY <1>1, <1>2, <1>5, <1>9, <1>10, <1>11, IntentPublished

\* The target of a collection shrinks or goes.
LEMMA TargetShrinks ==
    ASSUME ArtifactInv, NEW s \in Services, Active(s, "published"),
           NEW t \in Tree \cup {Nothing}, SetTarget(s, t),
           UNCHANGED <<aScratch, aRefs, aTx, aIntent, aManual, aSession, aSpent>>,
           PublishedResumable(s)'
    PROVE  ArtifactInv'
<1> DEFINE r == aIntent[s].art.rel
<1>1. /\ aSession # Nothing /\ aSession.svc = s /\ aSession.acc = "none"
      /\ aTx[s].phase = "committed" /\ CleanupTarget(r)
  BY DEF Active, In, ArtifactInv, CollectorKept, CollectionRecoverable,
     PublishedResumable, CleanupTarget
<1>2. r \in Digests
  BY IntentTyped DEF Active, ArtifactInv
<1>3. /\ aRelease' \in [Digests -> Tree \cup {Nothing}]
      /\ \A q \in Digests \ {r} : aRelease'[q] = aRelease[q]
  BY <1>2 DEF SetTarget, ArtifactInv, ArtifactTypeOK
<1>4. \A q : CleanupTarget(q)' = CleanupTarget(q)
  BY DEF CleanupTarget, Collecting
<1>5. \A u \in Services : Collecting(u, "published")' = Collecting(u, "published")
  BY DEF Collecting
<1>6. ArtifactTypeOK'
  BY <1>3 DEF ArtifactInv, ArtifactTypeOK
<1>7. AccessKept' /\ CollectorKept' /\ PublicationHeld'
  BY <1>1 DEF ArtifactInv, AccessKept, CollectorKept, PublicationHeld
<1>8. ReferencedWhole'
  <2> SUFFICES ASSUME NEW u \in Services, NEW a \in Slots(aRefs[u])
               PROVE  /\ aRelease'[a.rel] # Nothing /\ aRelease'[a.rel].id = a.id
                      /\ WholeTree(a.rel, aRelease'[a.rel])
                      /\ ~ CleanupTarget(a.rel)
    BY <1>4 DEF ReferencedWhole, WholeTree
  <2>1. a.rel \in Digests
    BY SlotsBound DEF ArtifactInv, Binding
  <2>2. /\ aRelease[a.rel] # Nothing /\ aRelease[a.rel].id = a.id
        /\ WholeTree(a.rel, aRelease[a.rel]) /\ ~ CleanupTarget(a.rel)
    BY DEF ArtifactInv, ReferencedWhole
  <2> QED
    BY <1>1, <1>3, <2>1, <2>2
<1>9. DamageIsIntended'
  BY <1>1, <1>3, <1>4, <1>5 DEF ArtifactInv, DamageIsIntended
<1>10. CollectionRecoverable'
  <2> SUFFICES ASSUME NEW u \in Services
               PROVE  /\ Collecting(u, "published")' => PublishedResumable(u)'
                      /\ Collecting(u, "scratch")' => ScratchResumable(u)'
    BY DEF CollectionRecoverable
  <2>1. Collecting(u, "scratch")' => ScratchResumable(u)'
    BY DEF ArtifactInv, CollectionRecoverable, Collecting, ScratchResumable,
       InPhase, Left, ScratchSettled, EmptyApplicationCandidate
  <2>2. ASSUME u # s, Collecting(u, "published")
        PROVE  PublishedResumable(u)'
    <3>1. aIntent[u].art.rel \in Digests \ {r}
      BY <2>2, IntentTyped DEF ArtifactInv, DamageIsIntended, Active
    <3>2. aRelease'[aIntent[u].art.rel] = aRelease[aIntent[u].art.rel]
      BY <1>3, <3>1
    <3>3. PublishedResumable(u)
      BY <2>2 DEF ArtifactInv, CollectionRecoverable
    <3> QED
      BY <3>2, <3>3 DEF PublishedResumable, Target, InPhase
  <2> QED
    BY <1>5, <2>1, <2>2
<1> QED
  BY <1>6, <1>7, <1>8, <1>9, <1>10, TransactionKeptFrame, ScratchKeptFrame,
     IntentPhasedFrame DEF ArtifactInv

\* What a step of the published collector starts from.
LEMMA PublishedAt ==
    ASSUME ArtifactInv, NEW s \in Services, Active(s, "published")
    PROVE  /\ PublishedResumable(s) /\ aIntent[s].art.rel \in Digests
           /\ aIntent[s] \in PublishedIntent
           /\ Target(s) # Nothing => Target(s) \in Tree
BY IntentTyped
   DEF ArtifactInv, ArtifactTypeOK, CollectionRecoverable, Active, Target

\* The native removals of a published collection.
LEMMA RemovePublishedStep ==
    ASSUME ArtifactInv, NEW s \in Services,
           RemovePayload(s) \/ RemoveInventory(s) \/ RemoveTarget(s)
    PROVE  ArtifactInv'
<1>1. /\ Active(s, "published") /\ TargetBound(s)
      /\ UNCHANGED <<aScratch, aRefs, aTx, aIntent, aManual, aSession, aSpent>>
  BY DEF RemovePayload, RemoveInventory, RemoveTarget, CollectorKeeps
<1>2. /\ PublishedResumable(s) /\ aIntent[s].art.rel \in Digests
      /\ Target(s) \in Tree /\ Target(s) # Nothing
  BY <1>1, PublishedAt DEF TargetBound
<1>3. \A t \in Tree \cup {Nothing} : SetTarget(s, t) => Target(s)' = t
  BY <1>1, <1>2 DEF SetTarget, Target, ArtifactInv, ArtifactTypeOK
<1>4. CASE RemovePayload(s)
  <2> DEFINE t == [Target(s) EXCEPT !.files = Shrunk(@)]
  <2>1. SetTarget(s, t) /\ InPhase(s, "payload-removing")
    BY <1>4 DEF RemovePayload
  <2>2. t \in Tree /\ t.id = Target(s).id /\ t.inv = Target(s).inv
    BY <1>2 DEF Tree, Shrunk
  <2> HIDE DEF t
  <2>3. Target(s)' = t /\ t # Nothing
    BY <1>3, <2>1, <2>2, ArtifactAssumption
  <2>4. PublishedResumable(s)'
    BY <1>1, <1>2, <2>1, <2>2, <2>3 DEF PublishedResumable, InPhase
  <2> QED
    BY <1>1, <2>1, <2>2, <2>4, TargetShrinks
<1>5. CASE RemoveInventory(s)
  <2> DEFINE t == [Target(s) EXCEPT !.inv = FALSE]
  <2>1. SetTarget(s, t) /\ InPhase(s, "inventory-removing")
    BY <1>5 DEF RemoveInventory
  <2>2. /\ t \in Tree /\ t.id = Target(s).id /\ t.files = Target(s).files
        /\ ~ t.inv
    BY <1>2 DEF Tree
  <2> HIDE DEF t
  <2>3. Target(s)' = t /\ t # Nothing
    BY <1>3, <2>1, <2>2, ArtifactAssumption
  <2>4. PublishedResumable(s)'
    BY <1>1, <1>2, <2>1, <2>2, <2>3 DEF PublishedResumable, InPhase
  <2> QED
    BY <1>1, <2>1, <2>2, <2>4, TargetShrinks
<1>6. CASE RemoveTarget(s)
  <2>1. SetTarget(s, Nothing) /\ InPhase(s, "root-removing")
    BY <1>6 DEF RemoveTarget
  <2>2. Target(s)' = Nothing
    BY <1>3, <2>1
  <2>3. PublishedResumable(s)'
    BY <1>1, <1>2, <2>1, <2>2 DEF PublishedResumable, InPhase
  <2> QED
    BY <1>1, <2>1, <2>3, TargetShrinks
<1> QED
  BY <1>4, <1>5, <1>6

\* The next phase of an intent is published.
LEMMA IntentAdvances ==
    ASSUME ArtifactInv, NEW s \in Services, NEW scope \in {"published", "scratch"},
           Active(s, scope),
           NEW c \in PublishedIntent \cup ScratchIntent, SetIntent(s, c),
           c.scope = scope, scope = "published" => c.art = aIntent[s].art,
           UNCHANGED <<aRelease, aScratch, aRefs, aTx, aManual, aSession, aSpent>>,
           scope = "published" => PublishedResumable(s)',
           scope = "scratch" =>
              ScratchResumable(s)' /\ (c.cand = Nothing => Order(c.phase) >= 4)
    PROVE  ArtifactInv'
<1>1. /\ aSession # Nothing /\ aSession.svc = s /\ aSession.acc = "none"
      /\ Collecting(s, scope)
  BY DEF Active, In, ArtifactInv, CollectorKept
<1>2. /\ aIntent' \in [Services -> PublishedIntent \cup ScratchIntent \cup {Nothing}]
      /\ aIntent'[s] = c /\ c # Nothing
      /\ \A t \in Services \ {s} : aIntent'[t] = aIntent[t]
  BY ArtifactAssumption DEF SetIntent, ArtifactInv, ArtifactTypeOK
<1>3. \A t \in Services :
         /\ Collecting(t, "published")' <=> Collecting(t, "published")
         /\ Collecting(t, "published") =>
               aIntent'[t].art = aIntent[t].art
  BY <1>1, <1>2 DEF Collecting
<1>4. \A q : CleanupTarget(q)' <=> CleanupTarget(q)
  BY <1>3 DEF CleanupTarget
<1>5. ArtifactTypeOK'
  BY <1>2 DEF ArtifactInv, ArtifactTypeOK
<1>6. AccessKept' /\ CollectorKept'
  BY <1>1, <1>2 DEF AccessKept, CollectorKept
<1>7. PublicationHeld' /\ ReferencedWhole' /\ DamageIsIntended'
  BY <1>3, <1>4
     DEF ArtifactInv, PublicationHeld, Stands, ReferencedWhole, DamageIsIntended
<1>8. IntentPhased'
  BY <1>2 DEF ArtifactInv, IntentPhased, Collecting
<1>9. CollectionRecoverable'
  <2> SUFFICES ASSUME NEW t \in Services
               PROVE  /\ Collecting(t, "published")' => PublishedResumable(t)'
                      /\ Collecting(t, "scratch")' => ScratchResumable(t)'
    BY DEF CollectionRecoverable
  <2>1. CASE t = s
    BY <1>2, <2>1 DEF Collecting
  <2>2. CASE t # s
    BY <1>2, <2>2 DEF ArtifactInv, CollectionRecoverable, Collecting,
       PublishedResumable, ScratchResumable, Target, InPhase, Left,
       ScratchSettled, EmptyApplicationCandidate
  <2> QED
    BY <2>1, <2>2
<1> QED
  BY <1>5, <1>6, <1>7, <1>8, <1>9, TransactionKeptFrame, ScratchKeptFrame
     DEF ArtifactInv

\* The phases of a published collection.
LEMMA AdvancePublishedStep ==
    ASSUME ArtifactInv, NEW s \in Services, AdvancePublished(s)
    PROVE  ArtifactInv'
<1>1. /\ Active(s, "published") /\ TargetBound(s) /\ Target(s).files = "none"
      /\ UNCHANGED <<aRelease, aScratch, aRefs, aTx, aManual, aSession, aSpent>>
  BY DEF AdvancePublished, CollectorKeeps, Disk
<1>2. /\ PublishedResumable(s) /\ aIntent[s] \in PublishedIntent
      /\ Target(s) \in Tree /\ Target(s) # Nothing
  BY <1>1, PublishedAt DEF TargetBound
<1>3. PICK phase \in {"inventory-removing", "root-removing"} :
         /\ SetIntent(s, [aIntent[s] EXCEPT !.phase = phase])
         /\ phase = "root-removing" => ~ Target(s).inv
  BY DEF AdvancePublished
<1> DEFINE c == [aIntent[s] EXCEPT !.phase = phase]
<1>4. /\ c \in PublishedIntent /\ c.scope = "published"
      /\ c.art = aIntent[s].art /\ c.phase = phase
  BY <1>2 DEF PublishedIntent, PublishedPhases
<1>5. SetIntent(s, c)
  BY <1>3
<1> HIDE DEF c
<1>6. aIntent'[s] = c
  BY <1>5 DEF SetIntent, ArtifactInv, ArtifactTypeOK
<1>7. Target(s)' = Target(s)
  BY <1>1, <1>4, <1>6 DEF Target
<1>8. PublishedResumable(s)'
  BY <1>1, <1>2, <1>3, <1>4, <1>6, <1>7 DEF PublishedResumable, InPhase
<1> QED
  BY <1>1, <1>4, <1>5, <1>8, IntentAdvances

\* The record of a collection that has removed its target goes.
LEMMA FinishStep ==
    ASSUME ArtifactInv, NEW s \in Services,
           FinishPublished(s) \/ FinishScratch(s)
    PROVE  ArtifactInv'
<1>1. /\ In(s) /\ aSession.col = "active" /\ aIntent[s] # Nothing
      /\ Collecting(s, "published") => Target(s) = Nothing
      /\ RemoveIntent(s)
  BY DEF FinishPublished, FinishScratch, Active, Collecting
<1>2. /\ aSession \in Session /\ aSession # Nothing /\ aSession.svc = s
      /\ aSession.acc = "none"
  BY <1>1, SessionHeld DEF ArtifactInv, CollectorKept
<1>3. /\ aSession' \in Session /\ aSession'.svc = s
      /\ aSession'.acc = "none" /\ aSession'.pub = aSession.pub
      /\ aSession'.col \in {"none", "failed"}
  BY <1>1, <1>2 DEF RemoveIntent, Collector, Session
<1>4. /\ aSpent' \in [begun : Nat, dirs : Nat, faults : Nat]
      /\ UNCHANGED <<aRelease, aScratch, aRefs, aTx, aManual>>
  BY <1>1, FaultSpent
     DEF RemoveIntent, CollectorKeeps, Disk, ArtifactInv, ArtifactTypeOK
<1>5. /\ aIntent' \in [Services -> PublishedIntent \cup ScratchIntent \cup {Nothing}]
      /\ aIntent'[s] = Nothing
      /\ \A t \in Services \ {s} : aIntent'[t] = aIntent[t]
  BY <1>1 DEF RemoveIntent, SetIntent, ArtifactInv, ArtifactTypeOK
<1>6. \A t \in Services, scope \in {"published", "scratch"} :
         Collecting(t, scope)' <=> t # s /\ Collecting(t, scope)
  BY <1>5 DEF Collecting
<1>7. ArtifactTypeOK'
  BY <1>3, <1>4, <1>5 DEF ArtifactInv, ArtifactTypeOK
<1>8. AccessKept' /\ CollectorKept'
  BY <1>3 DEF AccessKept, CollectorKept
<1>9. \A q : CleanupTarget(q)' => CleanupTarget(q)
  BY <1>5, <1>6 DEF CleanupTarget
<1>10. PublicationHeld' /\ ReferencedWhole'
  BY <1>2, <1>3, <1>4, <1>9
     DEF ArtifactInv, PublicationHeld, Stands, ReferencedWhole
<1>11. DamageIsIntended'
  <2>1. \A r \in Digests : aRelease[r] # Nothing /\ CleanupTarget(r)
                             => CleanupTarget(r)'
    BY <1>1, <1>5, <1>6 DEF CleanupTarget, Target
  <2> QED
    BY <1>4, <1>5, <1>6, <2>1 DEF ArtifactInv, DamageIsIntended
<1>12. IntentPhased'
  BY <1>5, <1>6 DEF ArtifactInv, IntentPhased
<1>13. CollectionRecoverable'
  BY <1>4, <1>5, <1>6 DEF ArtifactInv, CollectionRecoverable, Collecting,
     PublishedResumable, ScratchResumable, Target, InPhase, Left,
     ScratchSettled, EmptyApplicationCandidate
<1> QED
  BY <1>4, <1>7, <1>8, <1>10, <1>11, <1>12, <1>13, TransactionKeptFrame,
     ScratchKeptFrame DEF ArtifactInv

\* What a step of the scratch collector starts from.
LEMMA ScratchAt ==
    ASSUME ArtifactInv, NEW s \in Services, Active(s, "scratch"),
           Left(s) # Nothing
    PROVE  /\ ScratchResumable(s) /\ aIntent[s] \in ScratchIntent
           /\ aIntent[s].tx \in 1..MaxInstall
           /\ Left(s) \in Scratch /\ ScratchOrdered(Left(s))
           /\ aIntent[s].cand = Nothing => Order(aIntent[s].phase) >= 4
<1>1. Collecting(s, "scratch") /\ ScratchResumable(s)
  BY DEF Active, ArtifactInv, CollectionRecoverable
<1>2. aIntent[s] \in ScratchIntent /\ aIntent[s].tx \in 1..MaxInstall
  BY <1>1, IntentTyped DEF ArtifactInv
<1>3. aScratch[s] \in [1..MaxInstall -> Scratch \cup {Nothing}]
  BY DEF ArtifactInv, ArtifactTypeOK
<1>4. Left(s) \in Scratch
  BY <1>2, <1>3 DEF Left
<1>5. ScratchOrdered(Left(s))
  BY <1>2 DEF ArtifactInv, ScratchKept, Left
<1> QED
  BY <1>1, <1>2, <1>4, <1>5 DEF ArtifactInv, IntentPhased

\* What is left in the staging root shrinks or goes.
LEMMA LeftShrinks ==
    ASSUME ArtifactInv, NEW s \in Services, Active(s, "scratch"),
           Left(s) # Nothing,
           NEW x \in Scratch \cup {Nothing}, SetLeft(s, x),
           x # Nothing => x.rel = Left(s).rel /\ ScratchOrdered(x),
           UNCHANGED <<aRelease, aRefs, aTx, aIntent, aManual, aSession, aSpent>>,
           ScratchResumable(s)'
    PROVE  ArtifactInv'
<1> DEFINE n == aIntent[s].tx
<1>1. n \in 1..MaxInstall
  BY ScratchAt
<1>2. /\ aSession # Nothing /\ aSession.svc = s /\ aSession.acc = "none"
      /\ Collecting(s, "scratch")
  BY DEF Active, In, ArtifactInv, CollectorKept
<1>3. /\ aScratch' \in [Services -> [1..MaxInstall -> Scratch \cup {Nothing}]]
      /\ aScratch'[s][n] = x
      /\ \A t \in Services, m \in 1..MaxInstall :
            t # s \/ m # n => aScratch'[t][m] = aScratch[t][m]
  <2>1. aScratch \in [Services -> [1..MaxInstall -> Scratch \cup {Nothing}]]
    BY DEF ArtifactInv, ArtifactTypeOK
  <2>2. aScratch' = [aScratch EXCEPT ![s][n] = x]
    BY DEF SetLeft
  <2> HIDE DEF n
  <2> QED
    BY <1>1, <2>1, <2>2
<1>4. ArtifactTypeOK'
  BY <1>3 DEF ArtifactInv, ArtifactTypeOK
<1>5. ScratchKept'
  <2> SUFFICES ASSUME NEW t \in Services, NEW m \in 1..MaxInstall,
                      aScratch'[t][m] # Nothing
               PROVE  /\ m <= aTx[t].n
                      /\ m = aTx[t].n => aScratch'[t][m].rel = aTx[t].rel
                      /\ ScratchOrdered(aScratch'[t][m])
    BY DEF ScratchKept, ScratchOrdered
  <2>1. CASE t = s /\ m = n
    BY <2>1, <1>3 DEF ArtifactInv, ScratchKept, Left
  <2>2. CASE t # s \/ m # n
    BY <2>2, <1>3 DEF ArtifactInv, ScratchKept
  <2> QED
    BY <2>1, <2>2
<1>6. AccessKept' /\ CollectorKept'
  BY <1>2 DEF ArtifactInv, AccessKept, CollectorKept
<1>7. PublicationHeld'
  BY <1>2, PublicationFrame DEF ArtifactInv
<1>8. CollectionRecoverable'
  <2> SUFFICES ASSUME NEW t \in Services
               PROVE  /\ Collecting(t, "published")' => PublishedResumable(t)'
                      /\ Collecting(t, "scratch")' => ScratchResumable(t)'
    BY DEF CollectionRecoverable
  <2>1. Collecting(t, "published")' => PublishedResumable(t)'
    BY DEF ArtifactInv, CollectionRecoverable, Collecting, PublishedResumable,
       Target, InPhase
  <2>2. ASSUME t # s, Collecting(t, "scratch")
        PROVE  ScratchResumable(t)'
    <3>1. aIntent[t].tx \in 1..MaxInstall /\ ScratchResumable(t)
      BY <2>2, IntentTyped DEF ArtifactInv, CollectionRecoverable
    <3>2. Left(t)' = Left(t)
      BY <1>3, <2>2, <3>1 DEF Left
    <3> QED
      BY <3>1, <3>2 DEF ScratchResumable, Collecting, InPhase, ScratchSettled,
         EmptyApplicationCandidate
  <2>3. Collecting(t, "scratch")' => Collecting(t, "scratch")
    BY DEF Collecting
  <2> QED
    BY <2>1, <2>2, <2>3
<1> QED
  BY <1>4, <1>5, <1>6, <1>7, <1>8, TransactionKeptFrame, ReferencedWholeFrame,
     DamageIsIntendedFrame, IntentPhasedFrame DEF ArtifactInv

\* What is left agrees with the intent, phase by phase.
Agrees(x, c, phase) ==
    /\ x.rel = c.rel /\ ValidTopLevel(x, c)
    /\ x.cand # Nothing =>
          /\ Authenticated(x)
          /\ phase # "candidate-payload-removing" => x.cand.files = "none"
          /\ phase = "candidate-root-removing" => x.cand.inv = "none"
          /\ phase = "candidate-payload-removing" =>
                \/ x.rel \in Applications <=> x.cand.inv # "none"
                \/ /\ x.rel \in Applications
                   /\ x.cand.inv = "none" /\ x.cand.files = "none"

\* ScratchResumable, said of the scratch and the intent.
LEMMA AgreesResumable ==
    ASSUME NEW s \in Services, Collecting(s, "scratch"), Left(s) # Nothing
    PROVE  ScratchResumable(s) <=>
              /\ ScratchSettled(s, aIntent[s].tx)
              /\ Agrees(Left(s), aIntent[s], aIntent[s].phase)
BY DEF ScratchResumable, Agrees, InPhase, EmptyApplicationCandidate

\* A scratch that agrees with its intent can be taken up again.
LEMMA LeftAgrees ==
    ASSUME NEW s \in Services, Collecting(s, "scratch"),
           ScratchSettled(s, aIntent[s].tx), UNCHANGED <<aIntent, aTx>>,
           NEW x, Left(s)' = x,
           x = Nothing => InPhase(s, "scratch-root-removing"),
           x # Nothing => Agrees(x, aIntent[s], aIntent[s].phase)
    PROVE  ScratchResumable(s)'
<1>1. ScratchSettled(s, aIntent[s].tx)'
  BY DEF ScratchSettled
<1> QED
  BY <1>1 DEF ScratchResumable, Agrees, InPhase, EmptyApplicationCandidate,
     Collecting, ValidTopLevel, Authenticated

\* The native removals of a scratch collection, phase by phase.
LEMMA RemoveScratchPartStep ==
    ASSUME ArtifactInv, NEW s \in Services, RemoveScratchPart(s)
    PROVE  ArtifactInv'
<1> DEFINE x == Left(s)
           c == aIntent[s]
<1>1. /\ Active(s, "scratch") /\ x # Nothing /\ ValidTopLevel(x, c)
      /\ UNCHANGED <<aRelease, aRefs, aTx, aIntent, aManual, aSession, aSpent>>
  BY DEF RemoveScratchPart, CollectorKeeps
<1>2. /\ Collecting(s, "scratch") /\ ScratchResumable(s) /\ c \in ScratchIntent
      /\ c.tx \in 1..MaxInstall /\ x \in Scratch /\ ScratchOrdered(x)
      /\ c.cand = Nothing => Order(c.phase) >= 4
  BY <1>1, ScratchAt DEF Active
<1>3. ScratchSettled(s, c.tx) /\ Agrees(x, c, c.phase)
  BY <1>1, <1>2, AgreesResumable
<1>4. ASSUME NEW y \in Scratch \cup {Nothing}, SetLeft(s, y),
             y # Nothing => y.rel = x.rel /\ ScratchOrdered(y),
             y = Nothing => c.phase = "scratch-root-removing",
             y # Nothing => Agrees(y, c, c.phase)
      PROVE  ArtifactInv'
  <2>1. Left(s)' = y
    <3>1. aScratch \in [Services -> [1..MaxInstall -> Scratch \cup {Nothing}]]
      BY DEF ArtifactInv, ArtifactTypeOK
    <3> QED
      BY <1>1, <1>2, <1>4, <3>1 DEF Left, SetLeft
  <2>2. ScratchResumable(s)'
    BY <1>1, <1>2, <1>3, <1>4, <2>1, LeftAgrees DEF InPhase
  <2> QED
    BY <1>1, <1>4, <2>2, LeftShrinks
<1>5. x.cand # Nothing => x.cand \in Candidate
  BY <1>2 DEF Scratch
<1>6. CASE /\ c.phase = "candidate-payload-removing" /\ x.cand.files # "none"
           /\ SetLeft(s, [x EXCEPT !.cand.files = Shrunk(@)])
  <2> DEFINE d == [x.cand EXCEPT !.files = Shrunk(@)]
             y == [x EXCEPT !.cand = d]
  <2>1. x.cand # Nothing /\ x.cand \in Candidate
    BY <1>1, <1>2, <1>5, <1>6, OrderValues DEF ValidTopLevel
  <2>2. /\ d \in Candidate /\ d.id = x.cand.id /\ d.inv = x.cand.inv
        /\ d.files \in {"none", "part"}
    BY <2>1 DEF Candidate, Shrunk
  <2>3. SetLeft(s, y)
    BY <1>2, <1>6 DEF Scratch
  <2> HIDE DEF d
  <2>4. d # Nothing
    BY <2>2, ArtifactAssumption
  <2>5. /\ y \in Scratch /\ y.rel = x.rel /\ y.cand = d
        /\ y.asset = x.asset /\ y.marker = x.marker
    BY <1>2, <2>2 DEF Scratch
  <2> HIDE DEF y
  <2>6. ScratchOrdered(y) /\ Agrees(y, c, c.phase)
    BY <1>1, <1>2, <1>3, <1>6, <2>1, <2>2, <2>4, <2>5
       DEF ScratchOrdered, Agrees, ValidTopLevel, Authenticated
  <2> QED
    BY <1>4, <2>3, <2>5, <2>6, ArtifactAssumption
<1>7. CASE /\ c.phase = "candidate-inventory-removing"
           /\ x.cand.files = "none" /\ x.cand.inv # "none"
           /\ SetLeft(s, [x EXCEPT !.cand.inv = "none"])
  <2> DEFINE d == [x.cand EXCEPT !.inv = "none"]
             y == [x EXCEPT !.cand = d]
  <2>1. x.cand # Nothing /\ x.cand \in Candidate
    BY <1>1, <1>2, <1>5, <1>7, OrderValues DEF ValidTopLevel
  <2>2. /\ d \in Candidate /\ d.id = x.cand.id /\ d.inv = "none"
        /\ d.files = "none"
    BY <1>7, <2>1 DEF Candidate
  <2>3. SetLeft(s, y)
    BY <1>2, <1>7 DEF Scratch
  <2> HIDE DEF d
  <2>4. d # Nothing
    BY <2>2, ArtifactAssumption
  <2>5. /\ y \in Scratch /\ y.rel = x.rel /\ y.cand = d
        /\ y.asset = x.asset /\ y.marker = x.marker
    BY <1>2, <2>2 DEF Scratch
  <2> HIDE DEF y
  <2>6. ScratchOrdered(y) /\ Agrees(y, c, c.phase)
    BY <1>1, <1>2, <1>3, <1>7, <2>1, <2>2, <2>4, <2>5
       DEF ScratchOrdered, Agrees, ValidTopLevel, Authenticated
  <2> QED
    BY <1>4, <2>3, <2>5, <2>6, ArtifactAssumption
<1>8. CASE /\ c.phase = "candidate-root-removing"
           /\ SetLeft(s, [x EXCEPT !.cand = Nothing])
  <2> DEFINE y == [x EXCEPT !.cand = Nothing]
  <2>1. /\ y \in Scratch /\ y.rel = x.rel /\ y.cand = Nothing
        /\ y.asset = x.asset /\ y.marker = x.marker
    BY <1>2 DEF Scratch
  <2> HIDE DEF y
  <2>2. ScratchOrdered(y) /\ Agrees(y, c, c.phase)
    BY <1>3, <1>8, <2>1, OrderValues DEF ScratchOrdered, Agrees, ValidTopLevel
  <2> QED
    BY <1>4, <1>8, <2>1, <2>2, ArtifactAssumption DEF y
<1>9. CASE /\ c.phase = "asset-removing"
           /\ SetLeft(s, [x EXCEPT !.asset = "none"])
  <2> DEFINE y == [x EXCEPT !.asset = "none"]
  <2>1. /\ y \in Scratch /\ y.rel = x.rel /\ y.cand = x.cand
        /\ y.asset = "none" /\ y.marker = x.marker
    BY <1>2 DEF Scratch
  <2> HIDE DEF y
  <2>2. ScratchOrdered(y) /\ Agrees(y, c, c.phase)
    BY <1>1, <1>3, <1>9, <2>1, OrderValues
       DEF ScratchOrdered, Agrees, ValidTopLevel
  <2> QED
    BY <1>4, <1>9, <2>1, <2>2, ArtifactAssumption DEF y
<1>10. CASE /\ c.phase = "marker-removing"
            /\ SetLeft(s, [x EXCEPT !.marker = FALSE])
  <2> DEFINE y == [x EXCEPT !.marker = FALSE]
  <2>1. /\ y \in Scratch /\ y.rel = x.rel /\ y.cand = x.cand
        /\ y.asset = x.asset /\ ~ y.marker
    BY <1>2 DEF Scratch
  <2> HIDE DEF y
  <2>2. ScratchOrdered(y) /\ Agrees(y, c, c.phase)
    BY <1>1, <1>2, <1>3, <1>10, <2>1, OrderValues
       DEF ScratchOrdered, Agrees, ValidTopLevel, Authenticated
  <2> QED
    BY <1>4, <1>10, <2>1, <2>2, ArtifactAssumption DEF y
<1>11. CASE c.phase = "scratch-root-removing" /\ SetLeft(s, Nothing)
  BY <1>4, <1>11
<1> QED
  BY <1>6, <1>7, <1>8, <1>9, <1>10, <1>11 DEF RemoveScratchPart, InPhase

\* Each phase is recorded once what the phase before it removes is gone, and
\* then finds what it expects.
LEMMA PhaseAdvances ==
    ASSUME NEW x \in Scratch, NEW c \in ScratchIntent,
           c.phase # "scratch-root-removing", PhaseDone(x, c.phase),
           Agrees(x, c, c.phase), c.cand = Nothing => Order(c.phase) >= 4,
           NEW d, d = [c EXCEPT !.phase = NextPhase(c.rel, c.phase)]
    PROVE  /\ d \in ScratchIntent /\ d.tx = c.tx
           /\ Agrees(x, d, d.phase)
           /\ d.cand = Nothing => Order(d.phase) >= 4
<1> DEFINE q == NextPhase(c.rel, c.phase)
<1>1. ASSUME q \in ScratchPhases
      PROVE  /\ d \in ScratchIntent /\ d.phase = q /\ d.tx = c.tx
             /\ d.rel = c.rel /\ d.asset = c.asset /\ d.cand = c.cand
  BY <1>1 DEF ScratchIntent
<1>2. x.rel = c.rel
  BY DEF Agrees
<1>3. c.phase \in ScratchPhases
  BY DEF ScratchIntent
<1>4. CASE c.phase = "candidate-payload-removing"
  <2>1. /\ q = IF c.rel \in Applications THEN "candidate-inventory-removing"
                                         ELSE "candidate-root-removing"
        /\ PayloadGone(x.cand, x.rel)
    BY <1>4 DEF NextPhase, PhaseDone
  <2>2. q \in ScratchPhases
    BY <2>1 DEF ScratchPhases
  <2> HIDE DEF q
  <2> QED
    BY <1>1, <1>2, <1>4, <2>1, <2>2, OrderValues
       DEF Agrees, ValidTopLevel, PayloadGone
<1>5. CASE c.phase = "candidate-inventory-removing"
  <2>1. q = "candidate-root-removing" /\ x.cand.inv = "none"
    BY <1>5 DEF NextPhase, PhaseDone
  <2>2. q \in ScratchPhases
    BY <2>1 DEF ScratchPhases
  <2> HIDE DEF q
  <2> QED
    BY <1>1, <1>2, <1>5, <2>1, <2>2, OrderValues DEF Agrees, ValidTopLevel
<1>6. CASE c.phase = "candidate-root-removing"
  <2>1. q = "asset-removing" /\ x.cand = Nothing
    BY <1>6 DEF NextPhase, PhaseDone
  <2>2. q \in ScratchPhases
    BY <2>1 DEF ScratchPhases
  <2> HIDE DEF q
  <2> QED
    BY <1>1, <1>2, <1>6, <2>1, <2>2, OrderValues DEF Agrees, ValidTopLevel
<1>7. CASE c.phase = "asset-removing"
  <2>1. q = "marker-removing" /\ x.asset = "none"
    BY <1>7 DEF NextPhase, PhaseDone
  <2>2. q \in ScratchPhases
    BY <2>1 DEF ScratchPhases
  <2> HIDE DEF q
  <2> QED
    BY <1>1, <1>2, <1>7, <2>1, <2>2, OrderValues DEF Agrees, ValidTopLevel
<1>8. CASE c.phase = "marker-removing"
  <2>1. q = "scratch-root-removing" /\ ~ x.marker
    BY <1>8 DEF NextPhase, PhaseDone
  <2>2. q \in ScratchPhases
    BY <2>1 DEF ScratchPhases
  <2> HIDE DEF q
  <2> QED
    BY <1>1, <1>2, <1>8, <2>1, <2>2, OrderValues DEF Agrees, ValidTopLevel
<1> QED
  BY <1>3, <1>4, <1>5, <1>6, <1>7, <1>8 DEF ScratchPhases

\* The phases of a scratch collection.
LEMMA AdvanceScratchStep ==
    ASSUME ArtifactInv, NEW s \in Services, AdvanceScratch(s)
    PROVE  ArtifactInv'
<1> DEFINE x == Left(s)
           c == aIntent[s]
           d == [c EXCEPT !.phase = NextPhase(c.rel, c.phase)]
<1>1. /\ Active(s, "scratch") /\ x # Nothing
      /\ c.phase # "scratch-root-removing" /\ PhaseDone(x, c.phase)
      /\ SetIntent(s, d)
      /\ UNCHANGED <<aRelease, aScratch, aRefs, aTx, aManual, aSession, aSpent>>
  BY DEF AdvanceScratch, CollectorKeeps, Disk
<1>2. /\ Collecting(s, "scratch") /\ ScratchResumable(s)
      /\ c \in ScratchIntent /\ x \in Scratch
      /\ c.cand = Nothing => Order(c.phase) >= 4
  BY <1>1, ScratchAt DEF Active
<1>3. ScratchSettled(s, c.tx) /\ Agrees(x, c, c.phase)
  BY <1>1, <1>2, AgreesResumable
<1> HIDE DEF x
<1>4. /\ d \in ScratchIntent /\ d.tx = c.tx /\ Agrees(x, d, d.phase)
      /\ d.cand = Nothing => Order(d.phase) >= 4
  BY <1>1, <1>2, <1>3, PhaseAdvances
<1> HIDE DEF d
<1>5. aIntent'[s] = d /\ d # Nothing /\ d.scope = "scratch"
  BY <1>1, <1>4, ArtifactAssumption
     DEF SetIntent, ArtifactInv, ArtifactTypeOK, ScratchIntent
<1>6. Left(s)' = x
  BY <1>1, <1>4, <1>5 DEF Left, x
<1>7. ScratchResumable(s)'
  <2>1. ScratchSettled(s, aIntent[s].tx)'
    BY <1>1, <1>3, <1>4, <1>5 DEF ScratchSettled
  <2> QED
    BY <1>1, <1>4, <1>5, <1>6, <2>1
       DEF ScratchResumable, Agrees, InPhase, EmptyApplicationCandidate,
           Collecting, ValidTopLevel, Authenticated
<1> QED
  BY <1>1, <1>4, <1>5, <1>7, IntentAdvances

-----------------------------------------------------------------------------
(* The theorems.                                                           *)

\* An empty host.
LEMMA InitInv == ArtifactInit => ArtifactInv
<1> SUFFICES ASSUME ArtifactInit PROVE ArtifactInv
  OBVIOUS
<1>1. ArtifactTypeOK
  BY ArtifactAssumption DEF ArtifactInit, ArtifactTypeOK, References,
     NoReferences, Transaction, TxPhases
<1>2. TransactionKept /\ ScratchKept
  BY ArtifactAssumption DEF ArtifactInit, TransactionKept, ScratchKept
<1>3. AccessKept /\ CollectorKept /\ PublicationHeld
  BY DEF ArtifactInit, AccessKept, CollectorKept, PublicationHeld
<1>4. ReferencedWhole
  BY DEF ArtifactInit, ReferencedWhole, Slots, NoReferences
<1>5. DamageIsIntended /\ IntentPhased /\ CollectionRecoverable
  BY DEF ArtifactInit, DamageIsIntended, IntentPhased, CollectionRecoverable,
     Collecting
<1> QED
  BY <1>1, <1>2, <1>3, <1>4, <1>5 DEF ArtifactInv

\* Every step keeps the invariant.
LEMMA StepInv == ArtifactInv /\ [ArtifactNext]_artifactVars => ArtifactInv'
<1> SUFFICES ASSUME ArtifactInv, [ArtifactNext]_artifactVars PROVE ArtifactInv'
  OBVIOUS
<1>1. CASE UNCHANGED artifactVars
  <2>1. AccessKept' /\ CollectorKept' /\ PublicationHeld'
    BY <1>1 DEF artifactVars, ArtifactInv, AccessKept, AccessHolds,
       AccessAdmitted, Mine, CollectorKept, PublicationHeld, Stands,
       CleanupTarget, Collecting
  <2> QED
    BY <1>1, <2>1, SessionStep DEF artifactVars, ArtifactInv, ArtifactTypeOK
<1>2. ASSUME NEW s \in Services, LifecycleStep(s)
      PROVE  ArtifactInv'
  BY <1>2, BeginTransactionStep, TransactionMoves, ClearManualCleanupStep,
     PublishProvisionalStep, RotateReferencesStep DEF LifecycleStep
<1>3. ASSUME NEW s \in Services, AccessStep(s)
      PROVE  ArtifactInv'
  BY <1>3, OpenArtifactAccessStep, PublishMarkerStep, StageAssetStep,
     FinishAssetStep, PrepareTreeStep, WriteInventoryStep,
     WriteCandidateFileStep, ReuseReleaseStep, SealTreeStep,
     PublishDirectoryStep, ObserveTargetStep, AccessEnds DEF AccessStep
<1>4. ASSUME NEW s \in Services, CollectorStep(s)
      PROVE  ArtifactInv'
  BY <1>4, CollectPublishedStep, RecoverStep,
     RemovePublishedStep, AdvancePublishedStep, FinishStep, CollectScratchStep,
     RemoveScratchPartStep, AdvanceScratchStep, CollectorFailsStep
     DEF CollectorStep
<1>5. CASE ArtifactNext
  BY <1>2, <1>3, <1>4, <1>5, OpenSessionStep, SessionEnds DEF ArtifactNext
<1> QED
  BY <1>1, <1>5

\* The inductive invariant of the artifact space.
THEOREM ArtifactInvariance == ArtifactSpec => []ArtifactInv
BY InitInv, StepInv, PTL DEF ArtifactSpec

\* Whoever collects, dies or publishes: what a reference of any service names
\* stands whole under its identity, and damage is covered by one intent.
THEOREM ReferencesKeepReleases == ArtifactSpec => []ArtifactsKept
<1>1. ArtifactInv => ArtifactsKept
  BY DEF ArtifactInv, ArtifactsKept
<1> QED
  BY <1>1, ArtifactInvariance, PTL

\* A collection interrupted anywhere passes every check of the collector that
\* takes it up, with the one exception that its definition names.
THEOREM CollectionsRecover == ArtifactSpec => []CollectionRecoverable
<1>1. ArtifactInv => CollectionRecoverable
  BY DEF ArtifactInv
<1> QED
  BY <1>1, ArtifactInvariance, PTL

=============================================================================
