--------------------------- MODULE InventoryStore ---------------------------
(***************************************************************************)
(* The workspace inventory of one host, as management publishes it and the *)
(* daemon accepts it: the publisher's transaction                          *)
(* (native-control/src/inventory-publisher.js), the daemon's readAccepted  *)
(* (native-control/src/inventory.js), and the native calls both are made   *)
(* of (native-control/src/addon.cc), for POSIX and for Windows: the fence  *)
(* file and its lock, and the atomic publication of one object against the *)
(* identity of its predecessor, with its rollback.                         *)
(*                                                                         *)
(* Publishers and the reader are processes.  A system call may fail, a     *)
(* process may die anywhere and the host may lose power.  Temporary names  *)
(* are random and never reused: what a process keeps under its own is part *)
(* of its state (new before the exchange, disp after it).                  *)
(***************************************************************************)
EXTENDS DurableDir

CONSTANTS
    Publishers,     \* management processes that publish
    Reader,         \* the daemon process
    Facts,          \* what the workspaces' roots may look like
    MaxGeneration,  \* bound: the largest inventory generation
    MaxOpen,        \* bound: transactions and reads begun
    MaxInvFault     \* bound: failed calls, dead processes and power losses

ASSUME InventoryAssumption ==
    /\ Reader \notin Publishers
    /\ MaxGeneration \in Nat \ {0}
    /\ MaxOpen \in Nat /\ MaxInvFault \in Nat

VARIABLES
    iPlatform,  \* "posix" or "windows"
    iDir,       \* the names of the inventory root and of the reader root
    iDisk,      \* the directory states a power loss may leave
    iDoomed,    \* the fence's name is delete-pending (Windows)
    iProc,      \* what each process is doing
    accepted,   \* history: inventories the reader returned as present
    published,  \* history: inventories a publisher reported as published
    iOpened,    \* transactions and reads begun so far
    iFaults     \* faults so far

invVars == <<iPlatform, iDir, iDisk, iDoomed, iProc, accepted, published,
             iOpened, iFaults>>

Processes == Publishers \cup {Reader}
InventoryRoot == {"fence", "inventory", "commit", "marker"}
ReaderRoot == {"floor"}
Leaves == InventoryRoot \cup ReaderRoot
RootOf(leaf) == IF leaf \in ReaderRoot THEN ReaderRoot ELSE InventoryRoot

NoFacts == "none"
MaxId == 6 + 2 * Cardinality(Processes)
InvObject == [id : 1..MaxId, gen : 0..MaxGeneration,
              facts : Facts \cup {NoFacts}, of : 0..MaxId]
Document(o) == [gen |-> o.gen, facts |-> o.facts]
Idle == [pc |-> "idle", fd |-> 0, inv |-> NoFile, com |-> NoFile,
         flo |-> NoFile, leaf |-> "none", new |-> NoFile, disp |-> NoFile]

\* A file's identity (device and inode) is not that of any other file that
\* exists or that a process still has in mind.
UsedIds ==
    Identities(iDisk \cup {iDir}) \cup {iProc[p].fd : p \in Processes} \cup
    UNION {{x.id : x \in {iProc[p].inv, iProc[p].com, iProc[p].flo,
                          iProc[p].new, iProc[p].disp} \ {NoFile}} :
           p \in Processes}
Fresh == CHOOSE i \in (1..MaxId) \ UsedIds :
             \A j \in (1..MaxId) \ UsedIds : i <= j
Object(gen, facts, of) ==
    [id |-> Fresh, gen |-> gen, facts |-> facts, of |-> of]

SameId(a, b) == IF a = NoFile \/ b = NoFile THEN a = b ELSE a.id = b.id

-----------------------------------------------------------------------------
(* Effects shared by the actions.                                          *)

SetProc(p, s) == iProc' = [iProc EXCEPT ![p] = s]
Proceed(p, pc) == SetProc(p, [iProc[p] EXCEPT !.pc = pc])
NoFault == UNCHANGED <<iOpened, iFaults>>
Fault == /\ iFaults < MaxInvFault /\ iFaults' = iFaults + 1
         /\ UNCHANGED iOpened
KeepNames == UNCHANGED <<iDir, iDisk>>
Flush(leaf) == iDisk' = Flushed(iDisk, iDir', RootOf(leaf))
NoFlush(leaf) == iDisk' = Recorded(iDisk, iDir', RootOf(leaf))
InvHistory == <<iPlatform, accepted, published>>

\* The last handle on a delete-pending fence takes its name along.
CloseHandle(p) ==
    IF iDoomed /\ iDir["fence"] # NoFile
          /\ \A q \in Processes \ {p} : iProc[q].fd # iDir["fence"].id
    THEN /\ iDir' = Unlinked(iDir, "fence") /\ iDoomed' = FALSE
         /\ NoFlush("fence")
    ELSE KeepNames /\ UNCHANGED iDoomed

-----------------------------------------------------------------------------
(* The fence: a file created once, and the lock on it.                     *)

HoldingPcs == {"holding", "candidate", "exchange", "settle", "displace",
               "reconcile", "inventoryDone", "commitDone", "floorDone",
               "failed", "release"}
Holds(p) == iProc[p].pc \in HoldingPcs

\* A fence under its temporary name: empty, sealed and flushed.
NewFence == Object(0, NoFacts, 0)

\* acquire_inventory_fence opens the fence; only management creates it.
OpenFence(p) ==
    /\ iProc[p].pc = "idle" /\ ~ iDoomed
    /\ \/ /\ iDir["fence"] # NoFile
          /\ SetProc(p, [Idle EXCEPT !.pc = "wait", !.fd = iDir["fence"].id])
       \/ /\ iDir["fence"] = NoFile /\ p \in Publishers
          /\ SetProc(p, [Idle EXCEPT !.pc = "fenceTemp",
                                     !.new = NewFence])
    /\ iOpened < MaxOpen /\ iOpened' = iOpened + 1
    /\ KeepNames /\ UNCHANGED <<InvHistory, iDoomed, iFaults>>

\* The sealed temporary takes the fence's name unless it exists by now: then
\* the temporary is discarded and the existing fence opened.
RenameFence(p) ==
    /\ iProc[p].pc = "fenceTemp" /\ ~ iDoomed
    /\ \/ /\ iDir["fence"] = NoFile
          /\ iDir' = Named(iDir, "fence", iProc[p].new) /\ NoFlush("fence")
          /\ Proceed(p, "fenceFlush") /\ NoFault
       \/ /\ iDir["fence"] # NoFile
          /\ UNCHANGED iDir /\ Flush("fence") /\ NoFault
          /\ SetProc(p, [Idle EXCEPT !.pc = "wait", !.fd = iDir["fence"].id])
       \/ Fault /\ KeepNames /\ SetProc(p, Idle)
    /\ UNCHANGED <<InvHistory, iDoomed>>

\* The fence's name is flushed before it is used.
FlushFence(p) ==
    /\ iProc[p].pc = "fenceFlush"
    /\ UNCHANGED iDir /\ Flush("fence") /\ NoFault
    /\ SetProc(p, IF SameId(iDir["fence"], iProc[p].new) /\ ~ iDoomed
                  THEN [Idle EXCEPT !.pc = "wait", !.fd = iProc[p].new.id]
                  ELSE Idle)
    /\ UNCHANGED <<InvHistory, iDoomed>>

\* When the flush fails the name just published is taken back: unlinked on
\* POSIX, whoever has opened it since ...
RollbackFencePosix(p) ==
    /\ iPlatform = "posix" /\ iProc[p].pc = "fenceFlush"
    /\ Fault /\ SetProc(p, Idle)
    /\ IF SameId(iDir["fence"], iProc[p].new)
       THEN /\ iDir' = Unlinked(iDir, "fence")
            /\ Flush("fence") \/ NoFlush("fence")
       ELSE KeepNames
    /\ UNCHANGED <<InvHistory, iDoomed>>

\* ... and delete-pending on Windows, until the last handle on it is closed.
RollbackFenceWindows(p) ==
    /\ iPlatform = "windows" /\ iProc[p].pc = "fenceFlush"
    /\ Fault /\ SetProc(p, Idle)
    /\ CASE ~ SameId(iDir["fence"], iProc[p].new) \/ iDoomed ->
              KeepNames /\ UNCHANGED iDoomed
         [] \E q \in Processes : iProc[q].fd = iProc[p].new.id ->
              KeepNames /\ iDoomed' = TRUE
         [] OTHER -> /\ iDir' = Unlinked(iDir, "fence")
                     /\ Flush("fence") \/ NoFlush("fence")
                     /\ UNCHANGED iDoomed
    /\ UNCHANGED InvHistory

\* The lock is polled every 10 ms; nothing looks at the name again.
LockHeld(p) == \E q \in Processes \ {p} : Holds(q) /\ iProc[q].fd = iProc[p].fd
LockFence(p) ==
    /\ iProc[p].pc = "wait" /\ ~ LockHeld(p)
    /\ Proceed(p, "holding")
    /\ KeepNames /\ NoFault /\ UNCHANGED <<InvHistory, iDoomed>>

\* After 5 s without the lock the call ends INVENTORY_PENDING.
FenceTimeout(p) ==
    /\ iProc[p].pc = "wait" /\ LockHeld(p)
    /\ SetProc(p, Idle) /\ CloseHandle(p) /\ NoFault /\ UNCHANGED InvHistory

ReleaseFence(p) ==
    /\ iProc[p].pc = "release"
    /\ SetProc(p, Idle) /\ CloseHandle(p) /\ NoFault /\ UNCHANGED InvHistory

-----------------------------------------------------------------------------
(* publish_inventory_object_atomic: one object against its predecessor.    *)

Publish(p, s, leaf, new) ==
    SetProc(p, [s EXCEPT !.pc = "candidate", !.leaf = leaf, !.new = new,
                         !.disp = NoFile])

\* The identity the caller expects at the name; a marker expects none.
Expected(p) == CASE iProc[p].leaf = "inventory" -> iProc[p].inv
                 [] iProc[p].leaf = "commit" -> iProc[p].com
                 [] iProc[p].leaf = "floor" -> iProc[p].flo
                 [] OTHER -> NoFile

\* What is at the name when the candidate is ready is what the caller expects.
Agrees(p) == SameId(iDir[iProc[p].leaf], Expected(p))

\* How each caller goes on: the publisher after its inventory and its commit,
\* the reader after its floor; a marker ends the transaction.
Returned(p) ==
    LET s == [iProc[p] EXCEPT !.leaf = "none", !.new = NoFile, !.disp = NoFile]
    IN  SetProc(p, CASE iProc[p].leaf = "inventory" ->
                          [s EXCEPT !.pc = "inventoryDone", !.inv = iProc[p].new]
                     [] iProc[p].leaf = "commit" ->
                          [s EXCEPT !.pc = "commitDone", !.com = iProc[p].new]
                     [] iProc[p].leaf = "floor" ->
                          [s EXCEPT !.pc = "floorDone", !.flo = iProc[p].new]
                     [] OTHER -> [s EXCEPT !.pc = "release"])

\* A failed publication: the publisher must leave a marker once anything of
\* its inventory may be visible.
Thrown(p, ambiguous) ==
    LET s == [iProc[p] EXCEPT !.leaf = "none", !.new = NoFile, !.disp = NoFile]
    IN  SetProc(p, [s EXCEPT !.pc =
            IF \/ iProc[p].leaf = "commit"
               \/ iProc[p].leaf = "inventory" /\ ambiguous
            THEN "failed" ELSE "release"])

\* fail_clean: the temporary goes, or the outcome is ambiguous.
FailClean(p) ==
    \/ UNCHANGED iDir /\ Flush(iProc[p].leaf) /\ NoFault /\ Thrown(p, FALSE)
    \/ KeepNames /\ Fault /\ Thrown(p, TRUE)

\* The candidate is written, sealed and flushed under a temporary name, and
\* the name's present object compared with the expected identity.
PrepareCandidate(p) ==
    /\ iProc[p].pc = "candidate"
    /\ \/ /\ Agrees(p)
          /\ Proceed(p, "exchange") /\ KeepNames /\ NoFault
       \/ ~ Agrees(p) /\ FailClean(p)
       \/ KeepNames /\ Fault /\ \E a \in BOOLEAN : Thrown(p, a)
    /\ UNCHANGED <<InvHistory, iDoomed>>

\* renameat2: EXCHANGE where a predecessor was seen, NOREPLACE otherwise.
ExchangePosix(p) ==
    LET s == iProc[p] IN
    /\ iPlatform = "posix" /\ s.pc = "exchange"
    /\ \/ /\ (Expected(p) = NoFile) = (iDir[s.leaf] = NoFile)
          /\ iDir' = Named(iDir, s.leaf, s.new) /\ NoFlush(s.leaf) /\ NoFault
          /\ SetProc(p, [s EXCEPT !.pc = "settle", !.disp = iDir[s.leaf]])
       \/ (Expected(p) = NoFile) # (iDir[s.leaf] = NoFile) /\ FailClean(p)
       \/ KeepNames /\ Fault /\ Thrown(p, FALSE)
    /\ UNCHANGED <<InvHistory, iDoomed>>

\* ReplaceFileW with a backup: it may also fail after the predecessor moved.
ReplaceFileWindows(p) ==
    LET s == iProc[p] IN
    /\ iPlatform = "windows" /\ s.pc = "exchange"
    /\ \/ /\ (Expected(p) = NoFile) = (iDir[s.leaf] = NoFile)
          /\ iDir' = Named(iDir, s.leaf, s.new) /\ NoFlush(s.leaf) /\ NoFault
          /\ SetProc(p, [s EXCEPT !.pc = "settle", !.disp = iDir[s.leaf]])
       \/ (Expected(p) = NoFile) # (iDir[s.leaf] = NoFile) /\ FailClean(p)
       \/ KeepNames /\ Fault /\ Thrown(p, FALSE)
       \/ /\ Expected(p) # NoFile /\ iDir[s.leaf] # NoFile
          /\ iDir' = Unlinked(iDir, s.leaf) /\ NoFlush(s.leaf)
          /\ Fault /\ Thrown(p, TRUE)
    /\ UNCHANGED <<InvHistory, iDoomed>>

\* Mutant: the directory is not flushed after the exchange.
SettlePosixUnflushed(p) ==
    /\ iPlatform = "posix" /\ iProc[p].pc = "settle"
    /\ SameId(iDir[iProc[p].leaf], iProc[p].new) /\ KeepNames /\ NoFault
    /\ IF Expected(p) = NoFile THEN Returned(p) ELSE Proceed(p, "displace")
    /\ UNCHANGED <<InvHistory, iDoomed>>

\* The directory is flushed and the candidate must be at the name.
SettlePosix(p) ==
    LET s == iProc[p]
        there == SameId(iDir[s.leaf], s.new)
    IN
    /\ iPlatform = "posix" /\ s.pc = "settle"
    /\ \/ /\ UNCHANGED iDir /\ Flush(s.leaf) /\ NoFault
          /\ CASE ~ there -> Proceed(p, "reconcile")
               [] there /\ Expected(p) = NoFile -> Returned(p)
               [] OTHER -> Proceed(p, "displace")
       \/ KeepNames /\ Fault /\ Proceed(p, "reconcile")
    /\ UNCHANGED <<InvHistory, iDoomed>>

\* The displaced object must be the predecessor; it is removed and the
\* directory flushed again.
DropDisplacedPosix(p) ==
    LET s == iProc[p]
        exact == SameId(s.disp, Expected(p))
    IN
    /\ iPlatform = "posix" /\ s.pc = "displace"
    /\ \/ exact /\ UNCHANGED iDir /\ Flush(s.leaf) /\ NoFault /\ Returned(p)
       \/ /\ exact /\ KeepNames /\ Fault
          /\ \E gone \in BOOLEAN :
                SetProc(p, [s EXCEPT !.pc = "reconcile",
                             !.disp = IF gone THEN NoFile ELSE @])
       \/ ~ exact /\ KeepNames /\ NoFault /\ Proceed(p, "reconcile")
    /\ UNCHANGED <<InvHistory, iDoomed>>

\* reconcile: the predecessor is exchanged back, or the fresh name removed;
\* what cannot be undone exactly is left for manual cleanup.
ReconcilePosix(p) ==
    LET s == iProc[p]
        undone == Named(iDir, s.leaf, Expected(p))
        there == SameId(iDir[s.leaf], s.new)
        may == IF Expected(p) = NoFile
               THEN there
               ELSE SameId(s.disp, Expected(p)) /\ iDir[s.leaf] # NoFile
    IN
    /\ iPlatform = "posix" /\ s.pc = "reconcile"
    /\ \/ ~ may /\ KeepNames /\ NoFault /\ Thrown(p, TRUE)
       \/ KeepNames /\ may /\ Fault /\ Thrown(p, TRUE)
       \/ /\ may /\ iDir' = undone
          /\ \/ there /\ Flush(s.leaf) /\ NoFault /\ Thrown(p, FALSE)
             \/ ~ there /\ NoFlush(s.leaf) /\ NoFault /\ Thrown(p, TRUE)
             \/ there /\ NoFlush(s.leaf) /\ Fault /\ Thrown(p, TRUE)
    /\ UNCHANGED <<InvHistory, iDoomed>>

\* Once flushed, the backup goes; one that will not is left for manual cleanup.
DropBackupWindows(p) ==
    /\ UNCHANGED iDir /\ Flush(iProc[p].leaf)
    /\ \/ NoFault /\ Returned(p)
       \/ Expected(p) # NoFile /\ Fault /\ Thrown(p, TRUE)

\* Windows verifies candidate and backup and flushes them.
SettleWindows(p) ==
    LET s == iProc[p]
        sound == SameId(iDir[s.leaf], s.new) /\ SameId(s.disp, Expected(p))
    IN
    /\ iPlatform = "windows" /\ s.pc = "settle"
    /\ \/ sound /\ DropBackupWindows(p)
       \/ ~ sound /\ KeepNames /\ NoFault /\ Proceed(p, "reconcile")
       \/ sound /\ KeepNames /\ Fault /\ Proceed(p, "reconcile")
    /\ UNCHANGED <<InvHistory, iDoomed>>

\* Without durability the fresh name is deleted, or the backup put back.
RollbackWindows(p) ==
    LET s == iProc[p]
        there == SameId(iDir[s.leaf], s.new)
        may == IF Expected(p) = NoFile
               THEN there
               ELSE SameId(s.disp, Expected(p)) /\ iDir[s.leaf] # NoFile
    IN
    /\ iPlatform = "windows" /\ s.pc = "reconcile"
    /\ \/ ~ may /\ KeepNames /\ NoFault /\ Thrown(p, TRUE)
       \/ KeepNames /\ may /\ Fault /\ Thrown(p, TRUE)
       \/ /\ may /\ iDir' = Named(iDir, s.leaf, Expected(p))
          /\ \/ Flush(s.leaf) /\ NoFault /\ Thrown(p, FALSE)
             \/ NoFlush(s.leaf) /\ Fault /\ Thrown(p, TRUE)
    /\ UNCHANGED <<InvHistory, iDoomed>>

-----------------------------------------------------------------------------
(* The publisher's transaction.                                            *)

relation(inv, com, flo) ==
    CASE inv = NoFile /\ com = NoFile /\ flo = NoFile -> "genesis"
      [] inv = NoFile \/ com = NoFile -> "invalid-object"
      [] Document(com) # Document(inv) \/ com.of # inv.id -> "invalid-object"
      [] flo = NoFile -> IF inv.gen = 1 THEN "pending" ELSE "invalid-object"
      [] Document(flo) = Document(inv) -> "accepted"
      [] flo.gen = inv.gen - 1 -> "pending"
      [] OTHER -> "floor-conflict"

MarkManual(p, s) == Publish(p, s, "marker", Object(0, NoFacts, 0))

\* What the transaction finds decides: a marker stops it, damage is marked,
\* a stale expectation or unreadable roots refuse it, the same roots leave it
\* unchanged, an inventory the reader has not accepted yet keeps it pending.
ReadState(p) ==
    LET inv == iDir["inventory"]
        com == iDir["commit"]
        flo == iDir["floor"]
        gen == IF inv = NoFile THEN 0 ELSE inv.gen
        state == relation(inv, com, flo)
        s == [iProc[p] EXCEPT !.inv = inv, !.com = com, !.flo = flo]
    IN
    /\ p \in Publishers /\ iProc[p].pc = "holding"
    /\ CASE iDir["marker"] # NoFile -> Proceed(p, "release")
         [] iDir["marker"] = NoFile
              /\ state \in {"invalid-object", "floor-conflict"} ->
              MarkManual(p, s)
         [] OTHER ->
              \/ Proceed(p, "release")
              \/ \E f \in Facts :
                    /\ state \in {"genesis", "accepted"}
                    /\ inv # NoFile => inv.facts # f
                    /\ IF gen = MaxGeneration
                       THEN MarkManual(p, s)
                       ELSE Publish(p, s, "inventory", Object(gen + 1, f, 0))
    /\ KeepNames /\ NoFault /\ UNCHANGED <<InvHistory, iDoomed>>

\* The inventory is read back, its ACL and the workspaces' roots verified
\* again, and then committed to by identity.
CommitInventory(p) ==
    LET s == iProc[p]
        exact == SameId(iDir["inventory"], s.inv)
    IN
    /\ s.pc = "inventoryDone"
    /\ \/ /\ exact /\ NoFault
          /\ Publish(p, s, "commit", Object(s.inv.gen, s.inv.facts, s.inv.id))
       \/ ~ exact /\ NoFault /\ Proceed(p, "failed")
       \/ Fault /\ Proceed(p, "failed")
    /\ KeepNames /\ UNCHANGED <<InvHistory, iDoomed>>

\* Reading the commit back is the linearization point of the publication.
VerifyCommit(p) ==
    /\ iProc[p].pc = "commitDone"
    /\ \/ /\ SameId(iDir["commit"], iProc[p].com) /\ NoFault
          /\ published' = published \cup {Document(iProc[p].com)}
          /\ Proceed(p, "release")
       \/ /\ ~ SameId(iDir["commit"], iProc[p].com) /\ NoFault
          /\ Proceed(p, "failed") /\ UNCHANGED published
       \/ Fault /\ Proceed(p, "failed") /\ UNCHANGED published
    /\ KeepNames /\ UNCHANGED <<iPlatform, accepted, iDoomed>>

\* A transaction that failed with its inventory visible leaves the marker.
MarkFailure(p) ==
    /\ iProc[p].pc = "failed"
    /\ IF iDir["marker"] = NoFile
       THEN MarkManual(p, iProc[p])
       ELSE Proceed(p, "release")
    /\ KeepNames /\ NoFault /\ UNCHANGED <<InvHistory, iDoomed>>

-----------------------------------------------------------------------------
(* The daemon's readAccepted.                                              *)

\* The commit must name this inventory object; the floor must be the one this
\* generation follows, and is advanced before the inventory is accepted.
readAccepted(p) ==
    LET inv == iDir["inventory"]
        com == iDir["commit"]
        flo == iDir["floor"]
        s == [iProc[p] EXCEPT !.inv = inv, !.com = com, !.flo = flo]
        sound == /\ iDir["marker"] = NoFile /\ inv # NoFile /\ com # NoFile
                 /\ Document(com) = Document(inv) /\ com.of = inv.id
        floor == Object(inv.gen, inv.facts, 0)
    IN
    /\ p = Reader /\ iProc[p].pc = "holding"
    /\ \/ Proceed(p, "release")
       \/ /\ sound /\ flo # NoFile /\ Document(flo) = Document(inv)
          /\ SetProc(p, [s EXCEPT !.pc = "floorDone"])
       \/ /\ sound
          /\ IF flo = NoFile THEN inv.gen = 1 ELSE flo.gen = inv.gen - 1
          /\ Publish(p, s, "floor", floor)
    /\ KeepNames /\ NoFault /\ UNCHANGED <<InvHistory, iDoomed>>

\* Everything is read again and must be what was read first.
ConfirmAccepted(p) ==
    LET s == iProc[p] IN
    /\ s.pc = "floorDone"
    /\ \/ /\ iDir["marker"] = NoFile /\ SameId(iDir["inventory"], s.inv)
          /\ SameId(iDir["commit"], s.com) /\ SameId(iDir["floor"], s.flo)
          /\ accepted' = accepted \cup {Document(s.inv)}
       \/ UNCHANGED accepted
    /\ Proceed(p, "release")
    /\ KeepNames /\ NoFault /\ UNCHANGED <<iPlatform, published, iDoomed>>

-----------------------------------------------------------------------------
(* Faults of the surroundings.                                             *)

ProcessDies(p) ==
    /\ iProc[p].pc # "idle" /\ Fault
    /\ SetProc(p, Idle) /\ CloseHandle(p) /\ UNCHANGED InvHistory

InventoryPowerLoss ==
    /\ Fault /\ iDir' \in iDisk /\ iDisk' = {iDir'} /\ iDoomed' = FALSE
    /\ iProc' = [p \in Processes |-> Idle] /\ UNCHANGED InvHistory

InventoryInit ==
    /\ iPlatform \in {"posix", "windows"}
    /\ iDir = [n \in Leaves |-> NoFile] /\ iDisk = {iDir} /\ iDoomed = FALSE
    /\ iProc = [p \in Processes |-> Idle]
    /\ accepted = {} /\ published = {} /\ iOpened = 0 /\ iFaults = 0

PublicationStep(p) ==
    \/ PrepareCandidate(p) \/ ExchangePosix(p) \/ ReplaceFileWindows(p)
    \/ SettlePosix(p) \/ DropDisplacedPosix(p) \/ ReconcilePosix(p)
    \/ SettleWindows(p) \/ RollbackWindows(p)

InventoryStep(p) ==
    \/ RenameFence(p) \/ FlushFence(p) \/ RollbackFencePosix(p)
    \/ RollbackFenceWindows(p) \/ LockFence(p) \/ FenceTimeout(p)
    \/ ReadState(p) \/ PublicationStep(p) \/ CommitInventory(p)
    \/ VerifyCommit(p) \/ MarkFailure(p) \/ readAccepted(p)
    \/ ConfirmAccepted(p) \/ ReleaseFence(p)

InventoryNext ==
    \/ \E p \in Processes : OpenFence(p) \/ InventoryStep(p) \/ ProcessDies(p)
    \/ InventoryPowerLoss

-----------------------------------------------------------------------------
(* Properties.                                                             *)

\* Every name holds an object of its kind or nothing, every process stands at a
\* known point of its call and remembers only objects.
InventoryTypeOK ==
    /\ iPlatform \in {"posix", "windows"} /\ iDoomed \in BOOLEAN
    /\ iDir \in [Leaves -> InvObject \cup {NoFile}]
    /\ iDisk \subseteq [Leaves -> InvObject \cup {NoFile}]
    /\ \A p \in Processes :
          /\ iProc[p].pc \in HoldingPcs \cup
                {"idle", "fenceTemp", "fenceFlush", "wait"}
          /\ iProc[p].leaf \in Leaves \cup {"none"}
          /\ {iProc[p].inv, iProc[p].com, iProc[p].flo, iProc[p].new,
              iProc[p].disp} \subseteq InvObject \cup {NoFile}

\* A directory state readAccepted would accept the inventory of.
Acceptable(d) ==
    /\ d["marker"] = NoFile /\ d["inventory"] # NoFile /\ d["commit"] # NoFile
    /\ Document(d["commit"]) = Document(d["inventory"])
    /\ d["commit"].of = d["inventory"].id
    /\ IF d["floor"] = NoFile THEN d["inventory"].gen = 1
       ELSE \/ Document(d["floor"]) = Document(d["inventory"])
            \/ d["floor"].gen = d["inventory"].gen - 1

\* Neither a dead publisher, a dead reader, a failed call, two holders of a
\* fence nor a power loss at any moment lets the daemon accept an inventory
\* older than one it accepted or management was told is published, or a
\* different one of the same generation.
InventoryNeverRollsBack ==
    \A d \in iDisk \cup {iDir} : Acceptable(d) =>
        \A a \in accepted \cup published :
            \/ d["inventory"].gen > a.gen
            \/ Document(d["inventory"]) = a
=============================================================================
