------------------------ MODULE WorkspaceLifecycle ------------------------
(***************************************************************************)
(* The native workspace lifecycle of one workspace in the daemon           *)
(* (daemon/src/workspace-*.js and the lifecycle handlers of daemon.js):    *)
(* create, refresh, restore or migration, reset or delete, the atomic      *)
(* publication of the live slot, the manual-cleanup record, and recovery   *)
(* at boot.  Several operations run interleaved in one process; every      *)
(* awaited step may fail; the process may crash and the host lose power.   *)
(*                                                                         *)
(* A generation pointer's fingerprint is the chain of generations it hangs *)
(* on, so that a chain forked or skipped shows.                            *)
(***************************************************************************)
EXTENDS Naturals, Sequences, FiniteSets

CONSTANTS
    Tasks,      \* lifecycle operations in flight at once
    BootTask,   \* the task that replays a publication at boot
    Contents,   \* what the source repository may hold when it is cloned
    Staged,     \* what the sealed restore claim holds
    Shipped,    \* TRUE: dispatchers wired to the real resolver and materializer
    MaxGen,     \* bound: generations
    MaxEpoch,   \* bound: authorities adopted
    MaxOps,     \* bound: operations started
    MaxFault    \* bound: step failures, crashes and power losses

ASSUME WorkspaceAssumption ==
    /\ BootTask \in Tasks /\ Shipped \in BOOLEAN
    /\ Staged \notin Contents /\ {"none", "partial"} \cap (Contents \cup {Staged}) = {}
    /\ MaxGen \in Nat /\ MaxEpoch \in Nat /\ MaxOps \in Nat /\ MaxFault \in Nat

VARIABLES
    live, liveDur,   \* generation/live.ptr: as read, and as power loss leaves it
    rec, recDur,     \* lifecycle/manual-cleanup.json: the same
    dir,             \* generations/<n>: what each candidate directory holds
    synced,          \* generations whose directory was synced
    jrn,             \* the journal files boot recovery reads
    journaled,       \* whether publications are journaled, fixed for the host
    task,            \* the operations in flight
    lease,           \* the adopted authority and the invocation that holds it
    barred,          \* barredWorkspaceIds has the workspace
    mode,            \* "down", "boot" or "up"
    claim,           \* the sealed restore claim: "available" or "consumed"
    told,            \* history: results reported as committed
    spent            \* operations, faults, and whether power was lost

disk == <<live, liveDur, rec, recDur, dir, synced, jrn>>
vars == <<disk, journaled, task, lease, barred, mode, claim, told, spent>>

Gens == 1..MaxGen

-----------------------------------------------------------------------------
(* The live slot.                                                          *)

NoSlot == [k |-> "none"]
buildGenerationPointer(gen, content, priorFp) ==
    [k |-> "ptr", gen |-> gen, content |-> content, priorFp |-> priorFp]
buildTombstone(p) == [k |-> "tomb", gen |-> p.gen, prior |-> p]
Fp(p) == Append(p.priorFp, <<p.gen, p.content>>)
FpOf(p) == IF p.k = "ptr" THEN Fp(p) ELSE << >>

\* The chain a slot stands for, also under a tombstone.
Chain(s) == CASE s.k = "ptr"  -> Fp(s)
              [] s.k = "tomb" -> Fp(s.prior)
              [] OTHER        -> << >>

\* A pointer names generation 1 with no prior, or its prior's successor.
validateGenerationPointer(p) == p.gen = Len(p.priorFp) + 1

\* Compare-and-swap: a first publication needs an empty slot, a successor the
\* exact pointer it chains onto.  A tombstone in the slot fails to parse.
assertSuccession(next, current) ==
    IF next.priorFp = << >> THEN current.k = "none"
    ELSE current.k = "ptr" /\ next.gen = current.gen + 1 /\ next.priorFp = Fp(current)

assertTombstoneSuccession(next, current) == current = next.prior

-----------------------------------------------------------------------------
(* Scripts: the awaited steps of each operation, in order.                 *)

Publish == <<"cas", "temp", "replace", "flushParent">>
Journaled(s) == IF journaled THEN <<"j-prepare">> \o s \o <<"j-commit">> ELSE s
Materialize == <<"exists", "mkdir", "copy">>
Prove == <<"contain", "graph", "manifest">>

runCreateClone == <<"paths">> \o Materialize \o Prove \o <<"attest">> \o Journaled(Publish)
runRefresh == <<"read-base", "paths", "fence", "expect-base">> \o Materialize
              \o Prove \o <<"attest">> \o Journaled(Publish)
runRestoreMigration == <<"fence", "accepted-base", "provenance">> \o Materialize
                       \o Prove \o <<"attest">> \o Journaled(Publish)

\* Mutant: the record is only prepared once the tombstone is in the slot.
runResetDeleteLatePreparation ==
    <<"fence", "quiesce", "disposition", "backup", "residual", "recheck",
      "tomb-cas", "tomb-temp", "tomb-replace", "prep-replace", "prep-flush",
      "tomb-flush", "commit", "clear-unlink", "clear-flush">>

runResetDelete ==
    <<"fence", "quiesce", "disposition", "backup", "residual", "prep-replace",
      "prep-flush", "recheck", "tomb-cas", "tomb-temp", "tomb-replace", "tomb-flush",
      "commit", "clear-unlink", "clear-flush">>

Script(op) == CASE op = "create"  -> runCreateClone
                [] op = "refresh" -> runRefresh
                [] op = "restore" -> runRestoreMigration
                [] op = "reset"   -> runResetDelete
                [] OTHER          -> Publish

After(op, pc) == LET s == Script(op) IN s[1 + CHOOSE i \in 1..Len(s) : s[i] = pc]
IsLast(op, pc) == LET s == Script(op) IN pc = s[Len(s)]

\* undo: a reset is clearing its record because nothing was published.
Idle == [op |-> "none", pc |-> "idle", cand |-> 0, gen |-> 0, held |-> 0,
         base |-> NoSlot, ptr |-> NoSlot, own |-> FALSE, undo |-> FALSE]
Running(t) == task[t].op # "none"
At(t, pc) == Running(t) /\ task[t].pc = pc
IsPublishing(t) == task[t].op \in {"create", "refresh", "restore", "replay"}
Builders == {"create", "refresh"}

Become(t, r) == task' = [task EXCEPT ![t] = r]
Advance(t, r) == Become(t, [r EXCEPT !.pc = After(r.op, r.pc)])

-----------------------------------------------------------------------------
(* The lease registry as these operations see it (module LeaseRegistry): an *)
(* activity is joined under the adopted authority only, an exclusive one   *)
(* alone; it is current while that authority stays adopted.                *)

Holders == {t \in Tasks : task[t].held # 0}
ExclusiveOps == {"restore", "reset"}

acquireFence(t) ==
    /\ lease.bound /\ task[t].cand = lease.epoch
    /\ \A u \in Holders : task[u].held = lease.epoch /\ task[u].op \notin ExclusiveOps
    /\ lease.invoke \in {0, lease.epoch}
    /\ task[t].op \in ExclusiveOps => Holders = {} /\ lease.invoke = 0

isCurrent(t) == lease.bound /\ task[t].held = lease.epoch

-----------------------------------------------------------------------------
(* Ends of an operation.                                                   *)

\* Mutant: a refusal leaves the fence behind.
finallyWithoutRelease(t) == Become(t, [Idle EXCEPT !.held = task[t].held])

\* The finally of every operation: its lease is released whatever happened.
finally(t) == Become(t, Idle)

\* A failed or refused operation that reported no commit.  A restore removes
\* the candidate it made, unless the pointer may already be live; a clone that
\* fails removes its target, whoever made it; the removal may itself fail.  A
\* journal whose publication did not land is withdrawn.
MayBeLive == {"flushParent", "j-commit"}

Removable(t) ==
    \/ task[t].op = "restore" /\ task[t].own /\ task[t].pc \notin MayBeLive
    \/ task[t].op \in Builders /\ task[t].pc \in {"mkdir", "copy"}

Withdrawn(t) == IF IsPublishing(t) /\ task[t].pc \notin MayBeLive /\ jrn.phase = "prepared"
                    /\ jrn.cand = task[t].ptr
                THEN [jrn EXCEPT !.phase = "none"] ELSE jrn

refuse(t) ==
    /\ finally(t)
    /\ \/ Removable(t) /\ dir' = [dir EXCEPT ![task[t].gen] = "none"]
       \/ UNCHANGED dir
    /\ jrn' = Withdrawn(t)
    /\ UNCHANGED <<live, liveDur, rec, recDur, synced>>

\* Mutant: the bar follows the unbind and is skipped when that fails.
commitTerminalLateBar(t) ==
    \/ /\ barred' = TRUE
       /\ lease' = [lease EXCEPT !.bound = FALSE]
       /\ Advance(t, task[t])
    \/ /\ barred' = barred
       /\ lease' = lease
       /\ finally(t)

\* The daemon bars the workspace at once, then unbinds it; when the unbind
\* fails the operation throws and its record stays.
commitTerminal(t) ==
    /\ barred' = TRUE
    /\ \/ /\ lease' = [lease EXCEPT !.bound = FALSE]
          /\ Advance(t, task[t])
       \/ /\ lease' = lease
          /\ finally(t)

\* commitManualCleanup: the same bar and unbind, without a publication.
commitManualCleanup(t) ==
    /\ barred' = TRUE
    /\ lease' \in {lease, [lease EXCEPT !.bound = FALSE]}
    /\ finally(t)
    /\ UNCHANGED disk

\* clearTerminalPreparation after nothing was published: the record goes, the
\* operation is refused.
Undo(t) ==
    /\ Become(t, [task[t] EXCEPT !.pc = "clear-unlink", !.undo = TRUE])
    /\ UNCHANGED <<disk, barred, lease>>

-----------------------------------------------------------------------------
(* Steps.  The guard of each is the awaited step the operation stands at;  *)
(* a condition the code checks there either lets it pass or refuses it.    *)

Memory == <<journaled, mode, claim, told, spent>>
Pass(t, r) == Advance(t, r) /\ UNCHANGED disk
Test(t, ok, r) == IF ok THEN Pass(t, r) ELSE refuse(t)
Reads == UNCHANGED <<barred, lease, Memory>>

\* The refresh dispatcher derives the successor from the live pointer.
readBase(t) ==
    /\ At(t, "read-base") /\ Reads
    /\ Test(t, live.k = "ptr" /\ live.gen < MaxGen,
            [task[t] EXCEPT !.base = live, !.gen = live.gen + 1])

\* The manifest paths are listed before the candidate is materialised: the real
\* resolver walks the candidate directory and throws when it is not there.
resolveManifestPaths(t) ==
    /\ At(t, "paths") /\ Reads
    /\ Test(t, Shipped => dir[task[t].gen] # "none", task[t])

fence(t) ==
    /\ At(t, "fence") /\ Reads
    /\ Test(t, acquireFence(t), [task[t] EXCEPT !.held = lease.epoch])

assertExpectedBase(t) ==
    /\ At(t, "expect-base") /\ Reads
    /\ Test(t, live = task[t].base /\ isCurrent(t), task[t])

\* The slot holds the pointer of the generation the accepted authority names:
\* for a restore the one it succeeds, for a reset the one it disposes of.
Accepted(t, gen) ==
    Test(t, isCurrent(t) /\ live.k = "ptr" /\ live.gen = gen, [task[t] EXCEPT !.base = live])

assertAcceptedBase(t) ==
    /\ At(t, "accepted-base") /\ Reads
    /\ Accepted(t, task[t].gen - 1)

readLiveDisposition(t) ==
    /\ At(t, "disposition") /\ Reads
    /\ Accepted(t, task[t].gen)

\* Quarantine, provenance and checksums of the staged tree, by failure only.
verifyRestoreProvenance(t) ==
    /\ At(t, "provenance") /\ Reads
    /\ Pass(t, task[t])

\* The real materializer refuses overlapping paths, and both dispatchers pass
\* the candidate path as the git directory too.
assertTargetFree(t) ==
    /\ At(t, "exists") /\ Reads
    /\ Test(t, /\ ~(Shipped /\ task[t].op \in Builders)
               /\ dir[task[t].gen] = "none", task[t])

\* The directory is made by this call or not at all: mkdir is exclusive, and
\* git clone takes no directory that holds something.
makeCandidate(t) ==
    /\ At(t, "mkdir") /\ Reads
    /\ IF dir[task[t].gen] # "none" THEN refuse(t)
       ELSE /\ dir' = [dir EXCEPT ![task[t].gen] = "partial"]
            /\ synced' = synced \ {task[t].gen}
            /\ Advance(t, [task[t] EXCEPT !.own = TRUE])
            /\ UNCHANGED <<live, liveDur, rec, recDur, jrn>>

\* Restore writes and syncs every file and directory; git syncs nothing.
copyCandidate(t) ==
    /\ At(t, "copy") /\ Reads
    /\ \E c \in IF task[t].op = "restore" THEN {Staged} ELSE Contents :
          dir' = [dir EXCEPT ![task[t].gen] = c]
    /\ synced' = IF task[t].op = "restore" THEN synced \cup {task[t].gen} ELSE synced
    /\ Advance(t, task[t])
    /\ UNCHANGED <<live, liveDur, rec, recDur, jrn>>

\* Root identity, no-follow containment and the git graph, by failure only.
verifyContained(t) ==
    /\ At(t, "contain") /\ Reads
    /\ Pass(t, task[t])

verifyRepositoryGraph(t) ==
    /\ At(t, "graph") /\ Reads
    /\ Pass(t, task[t])

\* The manifest fixes what the candidate holds; the pointer commits to it.
computeManifestEntries(t) ==
    LET p == buildGenerationPointer(task[t].gen, dir[task[t].gen], FpOf(task[t].base)) IN
    /\ At(t, "manifest") /\ Reads
    /\ Test(t, validateGenerationPointer(p), [task[t] EXCEPT !.ptr = p])

\* Readiness, then the last look at the fence.  An attestation carries its own
\* probe time or its single-use claim, so the replay window never meets it twice.
attest(t) ==
    /\ At(t, "attest") /\ Reads
    /\ Test(t, task[t].op = "create" \/ isCurrent(t), task[t])

casLive(t) ==
    /\ At(t, "cas") /\ Reads
    /\ Test(t, assertSuccession(task[t].ptr, live), task[t])

writeTemp(t) ==
    /\ At(t, "temp") /\ Reads
    /\ Pass(t, task[t])

replaceLive(t) ==
    /\ At(t, "replace") /\ Reads
    /\ live' = task[t].ptr
    /\ Advance(t, task[t])
    /\ UNCHANGED <<liveDur, rec, recDur, dir, synced, jrn>>

Published(t) == told \cup {[k |-> "ptr", fp |-> Fp(task[t].ptr)]}

\* Mutant: success is reported and the directory is not flushed.
flushParentSkipped(t) ==
    /\ At(t, "flushParent")
    /\ IF IsLast(task[t].op, "flushParent")
       THEN finally(t) /\ told' = Published(t) ELSE Advance(t, task[t]) /\ UNCHANGED told
    /\ mode' = "up"
    /\ UNCHANGED <<disk, barred, lease, journaled, claim, spent>>

flushParent(t) ==
    /\ At(t, "flushParent")
    /\ liveDur' = live
    /\ IF IsLast(task[t].op, "flushParent")
       THEN finally(t) /\ told' = IF task[t].op = "replay" THEN told ELSE Published(t)
       ELSE Advance(t, task[t]) /\ UNCHANGED told
    /\ mode' = "up"
    /\ UNCHANGED <<live, rec, recDur, dir, synced, jrn, barred, lease, journaled, claim, spent>>

\* External: the journal writer.  It records the candidate and the prior pointer
\* before a publication and the commit after it.
journalPrepare(t) ==
    /\ At(t, "j-prepare") /\ Reads
    /\ jrn' = [phase |-> "prepared", cand |-> task[t].ptr, prior |-> live]
    /\ Advance(t, task[t])
    /\ UNCHANGED <<live, liveDur, rec, recDur, dir, synced>>

journalCommit(t) ==
    /\ At(t, "j-commit")
    /\ jrn' = [jrn EXCEPT !.phase = "committed"]
    /\ finally(t) /\ told' = Published(t)
    /\ UNCHANGED <<live, liveDur, rec, recDur, dir, synced>>
    /\ UNCHANGED <<barred, lease, journaled, mode, claim, spent>>

-----------------------------------------------------------------------------
(* Reset and delete.  The manual-cleanup record is written before the      *)
(* tombstone and removed after the workspace is barred.                    *)

\* Invocations in flight refuse the reset; the idle session is retired.
assertQuiescent(t) ==
    /\ At(t, "quiesce") /\ Reads
    /\ Test(t, lease.invoke = 0 /\ isCurrent(t), task[t])

computeDirtyBackup(t) ==
    /\ At(t, "backup") /\ Reads
    /\ Test(t, dir[task[t].gen] # "none", task[t])

assertResidualProcessAbsence(t) ==
    /\ At(t, "residual") /\ Reads
    /\ Test(t, isCurrent(t), task[t])

\* A record that is already there is never replaced.  (The same bytes would be
\* accepted as they are, but a record left behind bars the workspace first.)
prepareTerminal(t) ==
    \/ /\ At(t, "prep-replace") /\ Reads
       /\ IF rec THEN refuse(t)
          ELSE /\ rec' = TRUE
               /\ Advance(t, task[t])
               /\ UNCHANGED <<live, liveDur, recDur, dir, synced, jrn>>
    \/ /\ At(t, "prep-flush") /\ Reads
       /\ recDur' = rec
       /\ Advance(t, task[t])
       /\ UNCHANGED <<live, liveDur, rec, dir, synced, jrn>>

recheckFence(t) ==
    /\ At(t, "recheck") /\ UNCHANGED Memory
    /\ IF isCurrent(t) THEN Pass(t, task[t]) /\ UNCHANGED <<barred, lease>> ELSE Undo(t)

publishTombstone(t) ==
    /\ UNCHANGED Memory
    /\ \/ /\ At(t, "tomb-cas")
          /\ IF assertTombstoneSuccession(buildTombstone(task[t].base), live)
             THEN Pass(t, task[t]) /\ UNCHANGED <<barred, lease>> ELSE Undo(t)
       \/ /\ At(t, "tomb-temp")
          /\ Pass(t, task[t]) /\ UNCHANGED <<barred, lease>>
       \/ /\ At(t, "tomb-replace")
          /\ live' = buildTombstone(task[t].base)
          /\ Advance(t, task[t])
          /\ UNCHANGED <<liveDur, rec, recDur, dir, synced, jrn, barred, lease>>
       \/ /\ At(t, "tomb-flush")
          /\ liveDur' = live
          /\ Advance(t, task[t])
          /\ UNCHANGED <<live, rec, recDur, dir, synced, jrn, barred, lease>>

barTerminal(t) ==
    /\ At(t, "commit")
    /\ commitTerminal(t)
    /\ UNCHANGED <<disk, Memory>>

Terminal == [k |-> "terminal", fp |-> << >>]

clearTerminalPreparation(t) ==
    \/ /\ At(t, "clear-unlink") /\ Reads
       /\ rec' = FALSE
       /\ Advance(t, task[t])
       /\ UNCHANGED <<live, liveDur, recDur, dir, synced, jrn>>
    \/ /\ At(t, "clear-flush")
       /\ recDur' = rec
       /\ finally(t)
       /\ told' = IF task[t].undo THEN told ELSE told \cup {Terminal}
       /\ UNCHANGED <<live, liveDur, rec, dir, synced, jrn>>
       /\ UNCHANGED <<barred, lease, journaled, mode, claim, spent>>

-----------------------------------------------------------------------------
(* An awaited step that throws.  A rename that throws did not land.        *)

Fault == spent.faults < MaxFault /\ spent' = [spent EXCEPT !.faults = @ + 1]

\* A publication step of a tombstone, or the flush of the record: ambiguous.
Ambiguous == {"prep-flush", "tomb-temp", "tomb-replace", "tomb-flush"}

StepFails(t) ==
    /\ Running(t) /\ task[t].op # "replay" /\ Fault
    /\ UNCHANGED <<journaled, mode, claim>>
    /\ CASE task[t].pc \in Ambiguous ->
              /\ commitManualCleanup(t)
              /\ told' = IF task[t].pc = "prep-flush" THEN told ELSE told \cup {Terminal}
         [] task[t].pc = "tomb-cas" -> Undo(t) /\ UNCHANGED told
         [] task[t].pc \in {"clear-unlink", "clear-flush"} ->
              IF task[t].undo THEN commitManualCleanup(t) /\ UNCHANGED told
              ELSE finally(t) /\ told' = told \cup {Terminal} /\ UNCHANGED <<disk, barred, lease>>
         [] task[t].pc \in {"recheck", "commit"} -> FALSE
         [] OTHER -> refuse(t) /\ UNCHANGED <<told, barred, lease>>

-----------------------------------------------------------------------------
(* The daemon around the operations.                                       *)

\* The request each dispatcher derives from the accepted binding, never from
\* the frame's own claims.  Refresh finds its generation later, from the slot;
\* restore names the successor of the accepted generation.
Request(op, gen) == [Idle EXCEPT !.op = op, !.pc = Script(op)[1], !.cand = lease.epoch, !.gen = gen]
dispatchCreate == Request("create", lease.gen)
dispatchRefresh == Request("refresh", lease.gen)
dispatchRestoreMigration == Request("restore", lease.gen + 1)
dispatchResetDelete == Request("reset", lease.gen)

\* A frame is served for a bound workspace that is not barred.
Served(t) ==
    /\ mode = "up" /\ ~Running(t) /\ ~barred /\ lease.bound /\ spent.ops < MaxOps
    /\ spent' = [spent EXCEPT !.ops = @ + 1]
    /\ UNCHANGED <<disk, journaled, lease, barred, mode, told>>

\* The publisher leaves it to its callers to run one build per workspace.
NoBuild == \A u \in Tasks : task[u].op \notin Builders

WorkspaceCreate(t) == Served(t) /\ NoBuild /\ Become(t, dispatchCreate) /\ UNCHANGED claim
WorkspaceRefresh(t) == Served(t) /\ NoBuild /\ Become(t, dispatchRefresh) /\ UNCHANGED claim
WorkspaceResetDelete(t) == Served(t) /\ Become(t, dispatchResetDelete) /\ UNCHANGED claim

\* The sealed claim is single use.
resolveRestoreContext == claim = "available" /\ claim' = "consumed"
WorkspaceRestoreMigration(t) ==
    /\ Served(t) /\ lease.gen < MaxGen
    /\ resolveRestoreContext
    /\ Become(t, dispatchRestoreMigration)

\* External: the bot binds the workspace at a generation, unbinds it, invokes.
\* The generation of a workspace never goes back: the daemon refuses a lower one
\* while the workspace is bound, and the bot's mappings name successive ones.
Bind(g) ==
    /\ mode = "up" /\ lease.epoch < MaxEpoch /\ g >= lease.gen
    /\ lease' = [lease EXCEPT !.bound = TRUE, !.epoch = @ + 1, !.gen = g]
    /\ UNCHANGED <<disk, journaled, task, barred, mode, claim, told, spent>>

Unbind ==
    /\ mode = "up" /\ lease.bound
    /\ lease' = [lease EXCEPT !.bound = FALSE]
    /\ UNCHANGED <<disk, journaled, task, barred, mode, claim, told, spent>>

Invoke ==
    /\ mode = "up" /\ lease.bound /\ ~barred /\ lease.invoke = 0
    /\ \A u \in Holders : task[u].held = lease.epoch /\ task[u].op \notin ExclusiveOps
    /\ lease' = [lease EXCEPT !.invoke = lease.epoch]
    /\ UNCHANGED <<disk, journaled, task, barred, mode, claim, told, spent>>

InvokeEnds ==
    /\ lease.invoke # 0
    /\ lease' = [lease EXCEPT !.invoke = 0]
    /\ UNCHANGED <<disk, journaled, task, barred, mode, claim, told, spent>>

Stopped ==
    /\ task' = [t \in Tasks |-> Idle]
    /\ lease' = [lease EXCEPT !.bound = FALSE, !.invoke = 0]
    /\ barred' = FALSE /\ mode' = "down" /\ claim' = "available"
    /\ UNCHANGED <<journaled, told>>

Crash == mode # "down" /\ Fault /\ Stopped /\ UNCHANGED disk

\* What was not flushed may or may not be on the disk afterwards; a git
\* checkout that was never synced may be torn.
PowerLoss ==
    /\ mode # "down" /\ spent.faults < MaxFault /\ Stopped
    /\ spent' = [spent EXCEPT !.faults = @ + 1, !.power = TRUE]
    /\ \E l \in {live, liveDur} : live' = l /\ liveDur' = l
    /\ \E r \in {rec, recDur} : rec' = r /\ recDur' = r
    /\ \E torn \in SUBSET {g \in Gens \ synced : dir[g] # "none"} :
          dir' = [g \in Gens |-> IF g \in torn THEN "partial" ELSE dir[g]]
    /\ synced' = {g \in Gens : dir[g] # "none"}
    /\ UNCHANGED jrn

-----------------------------------------------------------------------------
(* Recovery at boot, before the daemon connects.                           *)

classifyGenerationRecovery ==
    LET landed == live.k = "ptr" /\ Fp(live) = Fp(jrn.cand)
        replayable == FpOf(live) = FpOf(jrn.prior) /\ jrn.cand.priorFp = FpOf(live)
    IN IF rec THEN "manual_cleanup"
       ELSE CASE jrn.phase = "none"      -> "committed"
              [] jrn.phase = "committed" -> IF landed THEN "committed" ELSE "manual_cleanup"
              [] jrn.phase = "prepared"  -> IF landed THEN "committed-needs-flush"
                                            ELSE IF replayable THEN "safe-replay" ELSE "manual_cleanup"

\* A live slot that holds a tombstone does not parse as a pointer: the read
\* throws, as does any other failed read, and the workspace is barred.
readSnapshotInputs == live.k # "tomb"

recoverWorkspaces ==
    /\ mode = "down"
    /\ LET found == IF readSnapshotInputs THEN classifyGenerationRecovery ELSE "unreadable" IN
       /\ barred' = (found \in {"unreadable", "manual_cleanup"})
       /\ IF found = "safe-replay"
          THEN /\ Become(BootTask, [Idle EXCEPT !.op = "replay", !.pc = "cas",
                                                !.gen = jrn.cand.gen, !.ptr = jrn.cand])
               /\ mode' = "boot"
          ELSE mode' = "up" /\ UNCHANGED task
       /\ liveDur' = IF found = "committed-needs-flush" THEN live ELSE liveDur
    /\ UNCHANGED <<live, rec, recDur, dir, synced, jrn, journaled, lease, claim, told, spent>>

\* A read, flush or replayed publication that fails bars the workspace.
recoveryFails ==
    /\ mode \in {"down", "boot"} /\ Fault
    /\ task' = [t \in Tasks |-> Idle]
    /\ barred' = TRUE /\ mode' = "up"
    /\ UNCHANGED <<disk, journaled, lease, claim, told>>

-----------------------------------------------------------------------------
Steps(t) ==
    \/ readBase(t) \/ resolveManifestPaths(t) \/ fence(t) \/ assertExpectedBase(t)
    \/ assertAcceptedBase(t) \/ readLiveDisposition(t)
    \/ verifyRestoreProvenance(t) \/ assertTargetFree(t)
    \/ makeCandidate(t) \/ copyCandidate(t) \/ verifyContained(t)
    \/ verifyRepositoryGraph(t) \/ computeManifestEntries(t) \/ attest(t)
    \/ casLive(t) \/ writeTemp(t) \/ replaceLive(t) \/ flushParent(t)
    \/ journalPrepare(t) \/ journalCommit(t)
    \/ assertQuiescent(t) \/ computeDirtyBackup(t) \/ assertResidualProcessAbsence(t)
    \/ prepareTerminal(t) \/ recheckFence(t) \/ publishTombstone(t) \/ barTerminal(t)
    \/ clearTerminalPreparation(t)

Init ==
    /\ live = NoSlot /\ liveDur = NoSlot /\ rec = FALSE /\ recDur = FALSE
    /\ dir = [g \in Gens |-> "none"] /\ synced = {}
    /\ jrn = [phase |-> "none", cand |-> NoSlot, prior |-> NoSlot]
    /\ journaled \in BOOLEAN
    /\ task = [t \in Tasks |-> Idle]
    /\ lease = [bound |-> FALSE, epoch |-> 0, gen |-> 0, invoke |-> 0]
    /\ barred = FALSE /\ mode = "down" /\ claim = "available"
    /\ told = {} /\ spent = [ops |-> 0, faults |-> 0, power |-> FALSE]

Next ==
    \/ \E t \in Tasks : Steps(t) \/ StepFails(t)
                      \/ WorkspaceCreate(t) \/ WorkspaceRefresh(t)
                      \/ WorkspaceResetDelete(t) \/ WorkspaceRestoreMigration(t)
    \/ \E g \in Gens : Bind(g)
    \/ Unbind \/ Invoke \/ InvokeEnds \/ Crash \/ PowerLoss
    \/ recoverWorkspaces \/ recoveryFails

Spec == Init /\ [][Next]_vars

-----------------------------------------------------------------------------
(* Properties.                                                             *)

\* The state stays within its shape: the live slot is empty, a pointer whose
\* chain is as long as its generation says, or a tombstone over one; and only
\* the replay at boot runs while the daemon is not serving.
TypeOK ==
    /\ \A s \in {live, liveDur} : s.k # "none" =>
          Len(Chain(s)) = s.gen /\ \A i \in 1..s.gen : Chain(s)[i][1] = i
    /\ {rec, recDur, barred, journaled} \subseteq BOOLEAN
    /\ \A g \in Gens : dir[g] \in Contents \cup {Staged, "none", "partial"}
    /\ synced \subseteq Gens /\ mode \in {"down", "boot", "up"}
    /\ \A t \in Tasks : Running(t) => mode = IF task[t].op = "replay" THEN "boot" ELSE "up"

\* An invocation never runs in a workspace that a reset or delete has replaced
\* by a tombstone, however binds, failed unbinds and resets interleave.
InvokeRoutesToPointer == lease.invoke # 0 => live.k # "tomb"

\* While a tombstone is in the slot and not yet flushed, the manual-cleanup
\* record is on the disk: power loss can never leave the workspace half reset
\* with nothing that bars it.
TerminalRecordCovers == live.k = "tomb" /\ liveDur.k # "tomb" => recDur

\* A reset or delete reported as done or as needing manual cleanup after its
\* publication began keeps the workspace barred whenever the daemon serves,
\* across crashes and power loss.
TerminalSurvivesRestart == Terminal \in told /\ mode = "up" => barred

\* A publication reported as committed is still part of the chain of the slot
\* that power loss would leave: reported history is never lost or forked.
ReportedPublicationDurable ==
    \A r \in told : r.k = "ptr" =>
        /\ Len(r.fp) <= Len(Chain(liveDur))
        /\ SubSeq(Chain(liveDur), 1, Len(r.fp)) = r.fp

\* The live pointer names a candidate directory that holds what was verified:
\* no cleanup of a failed restore and no competing materialisation takes it
\* away.  A cloned tree, which nothing syncs, may be torn by power loss.
PublishedGenerationPresent ==
    live.k = "ptr" => \/ dir[live.gen] = live.content
                      \/ spent.power /\ live.content # Staged

\* A lease outlives no operation: whichever step failed, the next exclusive
\* operation and the next bind find the fence free again.
NoOrphanLease == \A t \in Tasks : task[t].held # 0 => Running(t)

\* A reset or delete bars its workspace from its first write on, and for good:
\* the two facts above about the tombstone, the manual-cleanup record and the
\* answer (runResetDelete, classifyGenerationRecovery).
TerminalBars == TypeOK /\ TerminalRecordCovers /\ TerminalSurvivesRestart

\* What was reported as published stays published, and its files stay there
\* (flushParent, cleanupCandidate).
PublicationKept == ReportedPublicationDurable /\ PublishedGenerationPresent
=============================================================================
