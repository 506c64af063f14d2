------------------------- MODULE AuthoritySuccessor -------------------------
(***************************************************************************)
(* Successor transactions of the management authority                      *)
(* (bot/src/management-runtime.js over native-control/src/adapter.js).     *)
(*                                                                         *)
(* After Genesis every change of the managed mapping or of the token       *)
(* configuration is one transaction: some thirty durable writes in a fixed *)
(* order, made by a short-lived management command that holds the          *)
(* management locks.  The command can die between any two of them, and any *)
(* write can fail before or after it took effect.  What the next command   *)
(* finds on disk decides whether the transaction is completed (the head    *)
(* reached "reader-pending") or given up for good: a create-once record    *)
(* `terminal-close' blocks every later write, and the management state     *)
(* says "manual".  A terminalization suffix (receipt, history marker,      *)
(* final state, terminal head) is stored before it is applied, so that     *)
(* `recover' can replay it, even past a terminal-close.  With a bound      *)
(* reader the bot writes a lease, a projection and an acknowledgement      *)
(* before the receipt may be written.                                      *)
(*                                                                         *)
(* Fingerprints stand for the records they are taken of: two records match *)
(* when transaction and counters match.  Second copies (archives) written  *)
(* just before a live record are part of the same step.                    *)
(***************************************************************************)
EXTENDS Naturals, Sequences, FiniteSets, TLC

CONSTANTS Keys,      \* idempotency keys the operators use
          Ops,       \* management mutations offered, a subset of Operations
          Genesis,   \* transaction identity of Genesis
          NoTx,      \* no transaction
          MaxSeq,    \* bound: history sequence of the last successor
          MaxFault   \* bound: crashes and failed writes

VARIABLES disk,      \* the control directory
          run,       \* the management command that holds the locks
          faults,    \* crashes and failures so far
          spoiled    \* a manual cleanup was itself interrupted

vars == <<disk, run, faults, spoiled>>

Operations == {"tokens-attest", "mapping-reconcile", "mapping-revoke",
               "mapping-rollback"}
ASSUME OpsAssumption == Ops \subseteq Operations

Tx == [key : Keys, op : Ops, rev : 0 .. MaxSeq]

Idle == [todo |-> <<>>, tx |-> NoTx, suffix |-> FALSE, reason |-> "",
         again |-> FALSE]

mg == disk.mg
head == disk.head
Rec(kind, t) == <<kind, t>> \in disk.recs
WithRec(kind, t) == [disk EXCEPT !.recs = @ \cup {<<kind, t>>}]
Bound == disk.reader = "bound-reader"
Counters(s) == <<s.rev, s.epoch, s.fence, s.tok, s.map>>
NoClose == disk.close.tx = NoTx

\* The control directory a terminal Genesis leaves.
GenesisDisk(reader) ==
    [mg |-> [rev |-> 0, epoch |-> 1, fence |-> 1, tok |-> 1, map |-> 0,
             phase |-> "terminal", tx |-> Genesis, suffix |-> FALSE],
     req |-> <<>>, recs |-> {},
     head |-> [tx |-> Genesis, seq |-> 1, phase |-> "none"],
     fence |-> [res |-> 1, com |-> 1, resTx |-> Genesis, comTx |-> Genesis],
     epoch |-> [res |-> 1, com |-> 1, resTx |-> Genesis, comTx |-> Genesis],
     token |-> [phase |-> "committed", res |-> 1, com |-> 1,
                resTx |-> Genesis, comTx |-> Genesis],
     target |-> [tx |-> Genesis, fence |-> 1], root |-> 1, marker |-> 1,
     close |-> [tx |-> NoTx, reason |-> ""], reader |-> reader]

Init ==
    /\ \E reader \in {"no-reader", "bound-reader"} : disk = GenesisDisk(reader)
    /\ run = Idle /\ faults = 0 /\ spoiled = FALSE

-----------------------------------------------------------------------------
(* What the durable records say.                                           *)

\* The published floors belong to the head's own transaction
\* (validatePublishedFloors on a reader-pending or terminal head).
FloorsPublished(t) ==
    /\ disk.epoch = [res |-> disk.req[t].epoch, com |-> disk.req[t].epoch,
                     resTx |-> t, comTx |-> t]
    /\ disk.fence = [res |-> disk.req[t].fence, com |-> disk.req[t].fence,
                     resTx |-> t, comTx |-> t]

\* Everything a reader-pending head stands on.
LineageOK(t) ==
    /\ FloorsPublished(t)
    /\ \A kind \in {"closeProof", "reservation", "commit", "baseline", "graph",
                    "finality"} : Rec(kind, t)

readSuccessorBundle ==
    LET t == head.tx IN
    /\ LineageOK(t)
    /\ IF head.phase = "terminal"
       THEN /\ disk.marker = head.seq /\ Rec("receipt", t)
            /\ Bound => Rec("ack", t)
       ELSE disk.marker = head.seq - 1

\* The suffix persisted for the transaction of the management state may be
\* replayed although terminal-close is durable.  `kind' "read" tolerates a
\* receipt that is not written yet.
terminalReplayMatches(kind) ==
    LET t == mg.tx IN
    /\ mg.phase \in {"terminal", "terminalizing", "manual"}
    /\ t # Genesis /\ Rec("suffix", t)
    /\ disk.close.tx = t
    /\ Counters(mg) = Counters(disk.req[t])
    /\ mg.phase # "terminal" => mg.suffix
    /\ head.tx = t /\ head.phase \in {"reader-pending", "terminal"}
    /\ LineageOK(t)
    /\ disk.marker \in {head.seq - 1, head.seq}
    /\ kind \in {"read", "receipt"} \/ Rec("receipt", t)

\* Mutant: nothing looks at the close record.
requireNoTerminalCloseNever == TRUE

requireNoTerminalClose == NoClose
requireNoTerminalCloseOrReplay(kind) == NoClose \/ terminalReplayMatches(kind)

readAuthoritySuccessorHeadRaw == requireNoTerminalCloseOrReplay("read")

readAuthoritySuccessorHead ==
    /\ requireNoTerminalCloseOrReplay("read")
    /\ head.phase \in {"reader-pending", "terminal"} => readSuccessorBundle

\* The reader proof written at Genesis is validated against the live token
\* floor, which every tokens-attest moves.
readBoundReaderProof == Bound => disk.token.comTx = Genesis

\* The target, its wrapper and the control root are one exact envelope.
readRetainedTargetProof == NoClose /\ disk.target.fence = disk.root

\* readSuccessorTokenLineage: the floor is committed with its attestation.
validateCommittedTokenLineage == disk.token.phase = "committed"

-----------------------------------------------------------------------------
(* Running a command: one durable write after the other.                   *)

Doing(step) == run.todo # <<>> /\ Head(run.todo) = step
Busy == run.todo # <<>>
InCleanup == Busy /\ run.todo[Len(run.todo)] = "state"

\* Mutant: the suffix itself is never stored beside the terminal-close.
manualCleanupNoSuffixRecord(t, suffix, reason, again) ==
    [todo |-> <<"close", "state">>, tx |-> t, suffix |-> suffix,
     reason |-> reason, again |-> again]

\* Giving up a transaction: the create-once close record, the suffix when one
\* was built, and the management state.
manualCleanup(t, suffix, reason, again) ==
    [todo |-> IF suffix THEN <<"close", "suffix", "state">>
                        ELSE <<"close", "state">>,
     tx |-> t, suffix |-> suffix, reason |-> reason, again |-> again]

\* Mutant: the final state is published before the receipt and the marker.
TerminalStepsStateFirst ==
    <<"terminalizing", "final", "receipt", "marker", "headTerminal">>

\* The terminalization suffix: prepared in the management state, then applied.
TerminalSteps == <<"terminalizing", "receipt", "marker", "final", "headTerminal">>

\* A call that throws: the command falls into manual cleanup, with the suffix
\* when one was built; a cleanup that fails is tried once more when it ran
\* inside the mutation, and otherwise ends the command.
failed ==
    IF ~InCleanup
    THEN manualCleanup(run.tx,
                       run.suffix \/ \E i \in DOMAIN TerminalSteps :
                                         TerminalSteps[i] = Head(run.todo),
                       "error", FALSE)
    ELSE IF run.again THEN manualCleanup(run.tx, run.suffix, "cleanup-failed", FALSE)
    ELSE Idle

done == IF Len(run.todo) = 1 THEN Idle ELSE [run EXCEPT !.todo = Tail(@)]

CountFault == /\ faults < MaxFault /\ faults' = faults + 1
              /\ spoiled' = (spoiled \/ InCleanup)

\* One native operation: refused unless `ok'; its write may be durable and
\* the call fail all the same.
Step(step, ok, next) ==
    /\ Doing(step)
    /\ IF ok
       THEN /\ disk' = next
            /\ \/ run' = done /\ UNCHANGED <<faults, spoiled>>
               \/ run' = failed /\ CountFault
       ELSE disk' = disk /\ run' = failed /\ UNCHANGED <<faults, spoiled>>

\* A write fails and leaves nothing behind.
NativeFails ==
    /\ Busy /\ CountFault /\ run' = failed /\ UNCHANGED disk

\* The management process dies; its locks are released.
Crash == /\ Busy /\ CountFault /\ run' = Idle /\ UNCHANGED disk

-----------------------------------------------------------------------------
(* Commands.                                                               *)

\* The writes of a mutation up to the reader-pending head.
ReservationSteps ==
    <<"request", "fence", "headReserved", "closeProof", "headClosed",
      "epochReserve", "reservation", "commit">>
    \o (IF Bound THEN <<"fenceBinding">> ELSE <<>>) \o <<"baseline">>
rotateTokenSidecar ==
    <<"tokenReserve", "attestation", "attestedFloor", "target", "root">>
prepareMappingMutation(op) ==
    (IF op = "mapping-reconcile" THEN <<>> ELSE <<"tombstone">>)
    \o (IF op = "mapping-revoke" THEN <<>> ELSE <<"generation">>)
    \o <<"target", "root", "handoff">>
PublicationSteps(op) ==
    <<"graph", "headReplaced", "epochCommit">>
    \o (IF op = "tokens-attest" THEN <<"tokenCommit">> ELSE <<>>)
    \o <<"audit", "finality", "fenceCommit", "headPending">>
MutationSteps(op) ==
    ReservationSteps
    \o (IF op = "tokens-attest" THEN rotateTokenSidecar
        ELSE prepareMappingMutation(op))
    \o PublicationSteps(op)
    \o (IF Bound THEN <<>> ELSE TerminalSteps)

Start(t, todo) == [Idle EXCEPT !.todo = todo, !.tx = t]

\* The evidence a pending transaction is completed from.
readSuccessorRecovery(t) ==
    disk.target = [tx |-> t, fence |-> disk.req[t].fence]
assertCommittedTokenLineage(t) ==
    /\ validateCommittedTokenLineage
    /\ disk.token.com = disk.req[t].tok
    /\ t.op = "tokens-attest" => disk.token.comTx = t

ReaderRecords(t) == \A kind \in {"lease", "projection", "ack"} : Rec(kind, t)

completeNoReaderSuccessor(t) ==
    IF readSuccessorRecovery(t) /\ assertCommittedTokenLineage(t)
    THEN Start(t, TerminalSteps) ELSE manualCleanup(t, FALSE, "error", FALSE)
completeBoundSuccessor(t) ==
    IF ReaderRecords(t) /\ readSuccessorRecovery(t)
         /\ assertCommittedTokenLineage(t)
    THEN Start(t, TerminalSteps) ELSE manualCleanup(t, FALSE, "error", FALSE)
completeSuccessor(t) ==
    IF Bound THEN completeBoundSuccessor(t) ELSE completeNoReaderSuccessor(t)

\* A mutation that finds an unfinished transaction: only its own retry, at
\* reader-pending and with the reader's acknowledgement, may complete it.
recoverSuccessorHead(t) ==
    IF head.tx = t /\ head.phase = "reader-pending"
    THEN completeSuccessor(t)
    ELSE manualCleanup(head.tx, FALSE, "mismatch", TRUE)

reserveSuccessor(t) ==
    /\ ~Busy /\ mg.phase = "terminal"
    /\ t.rev <= mg.rev
    /\ \/ /\ ~readAuthoritySuccessorHead
          /\ run' = manualCleanup(IF readAuthoritySuccessorHeadRaw
                                  THEN head.tx ELSE mg.tx,
                                  FALSE, "floor", FALSE)
       \/ /\ readAuthoritySuccessorHead
          /\ head.phase \notin {"none", "terminal"}
          /\ run' = recoverSuccessorHead(t)
       \/ /\ readAuthoritySuccessorHead
          /\ head.phase \in {"none", "terminal"}
          /\ ~(readBoundReaderProof /\ disk.fence.com = mg.fence)
          /\ run' = manualCleanup(mg.tx, FALSE, "reader-floor", FALSE)
       \/ /\ readAuthoritySuccessorHead
          /\ head.phase \in {"none", "terminal"}
          /\ readBoundReaderProof /\ disk.fence.com = mg.fence
          /\ readRetainedTargetProof
          /\ disk.target.fence = disk.fence.com
          /\ head.phase = "terminal" => disk.target.tx = head.tx
          /\ t.rev = mg.rev
          /\ disk.marker < MaxSeq
          /\ run' = Start(t, MutationSteps(t.op))
    /\ UNCHANGED <<disk, faults, spoiled>>

\* Mutant: recover leaves a transaction alone that did not reach its reader.
recoverPublicSuccessorLenient(key) ==
    /\ ~Busy /\ readAuthoritySuccessorHeadRaw
    /\ head.phase = "reader-pending" /\ readSuccessorBundle
    /\ ~mg.suffix /\ NoClose /\ head.tx.key = key
    /\ Bound => Rec("ack", head.tx)
    /\ run' = Start(head.tx, TerminalSteps)
    /\ UNCHANGED <<disk, faults, spoiled>>

\* `recover' with an idempotency key.
recoverPublicSuccessor(key) ==
    LET t == head.tx IN
    /\ ~Busy
    /\ readAuthoritySuccessorHeadRaw
    /\ head.phase # "none"
    /\ \/ /\ mg.suffix /\ mg.tx = t
          /\ run' = IF t.key = key
                    THEN [Start(t, Tail(TerminalSteps)) EXCEPT !.suffix = TRUE]
                    ELSE manualCleanup(t, TRUE, "mismatch", FALSE)
       \/ /\ ~(mg.suffix /\ mg.tx = t)
          /\ ~(NoClose /\ t.key = key
               /\ (head.phase \in {"reader-pending", "terminal"}
                     => readSuccessorBundle))
          /\ run' = manualCleanup(t, FALSE, "mismatch", FALSE)
       \/ /\ ~(mg.suffix /\ mg.tx = t)
          /\ NoClose /\ t.key = key
          /\ head.phase = "reader-pending" /\ readSuccessorBundle
          /\ Bound => ReaderRecords(t)
          /\ run' = completeSuccessor(t)
       \/ /\ ~(mg.suffix /\ mg.tx = t)
          /\ NoClose /\ t.key = key
          /\ head.phase \notin {"reader-pending", "terminal"}
          /\ run' = manualCleanup(t, FALSE, "unsupported", FALSE)
    /\ UNCHANGED <<disk, faults, spoiled>>

\* A change of the management principals: its audit entry must be durable.
mutate ==
    /\ ~Busy /\ mg.phase = "terminal" /\ NoClose
    /\ run' = Start(mg.tx, <<"authAudit">>)
    /\ UNCHANGED <<disk, faults, spoiled>>

-----------------------------------------------------------------------------
(* The native operations, in the order a mutation calls them.              *)

t == run.tx
r == disk.req[t]
HasRecs(kinds) == \A kind \in kinds : Rec(kind, t)

\* A create-once record, refused without the records it is built on.
Write(step, needs) ==
    Step(step, requireNoTerminalClose /\ HasRecs(needs), WithRec(step, t))

Candidate ==
    LET tokens == IF t.op = "tokens-attest" THEN 1 ELSE 0 IN
    [seq |-> disk.marker + 1, rev |-> mg.rev + 1, epoch |-> disk.epoch.res + 1,
     fence |-> disk.fence.com + 1, tok |-> mg.tok + tokens,
     map |-> mg.map + 1 - tokens]

\* The transaction the next one follows: Genesis, or a terminal head with its
\* history marker.
readAuthoritativeSuccessorPredecessor ==
    IF head.phase = "none" THEN disk.marker = 1
    ELSE head.phase = "terminal" /\ disk.marker = head.seq

writeAuthoritySuccessorRequest ==
    Step("request",
         /\ requireNoTerminalClose
         /\ mg.epoch = disk.epoch.com /\ Candidate.epoch = disk.epoch.com + 1
         /\ mg.fence = disk.fence.com /\ mg.tok = disk.token.com
         /\ readAuthoritativeSuccessorPredecessor
         /\ t \in DOMAIN disk.req => r = Candidate,
         [disk EXCEPT !.req = (t :> Candidate) @@ @])

Reserve(floor, g) ==
    IF floor.res = g /\ floor.resTx = t THEN floor
    ELSE [floor EXCEPT !.res = g, !.resTx = t]
MayReserve(floor, g) ==
    \/ floor.res = g /\ floor.resTx = t
    \/ g = floor.res + 1 /\ g > floor.com
Commit(floor, g) == [floor EXCEPT !.com = g, !.comTx = t]

\* Mutant: the floor takes another reservation after one nobody committed.
reserveFenceGenerationAgain ==
    Step("fence", TRUE, [disk EXCEPT !.fence.res = @ + 1, !.fence.resTx = t])

reserveFenceGeneration ==
    Step("fence", MayReserve(disk.fence, r.fence),
         [disk EXCEPT !.fence = Reserve(@, r.fence)])

\* The head moves one phase at a time and never without the proofs of the
\* phase it enters.
writeAuthoritySuccessorHead(step, from, phase, proofs) ==
    Step(step,
         /\ requireNoTerminalCloseOrReplay("head")
         /\ IF phase = "reserved"
            THEN head.tx # t /\ readAuthoritativeSuccessorPredecessor
            ELSE head.tx = t /\ head.phase \in from
         /\ r.fence = disk.fence.res
         /\ HasRecs(proofs)
         /\ phase = "reader-pending" => disk.epoch.comTx = t,
         [disk EXCEPT !.head = [tx |-> t, seq |-> r.seq, phase |-> phase]])

ReplacedProofs == {"closeProof", "reservation", "commit", "baseline", "graph"}
PendingProofs == ReplacedProofs \cup {"finality"}

headReserved ==
    writeAuthoritySuccessorHead("headReserved", {"none", "terminal"}, "reserved", {})
headClosed ==
    writeAuthoritySuccessorHead("headClosed", {"reserved"}, "closed", {"closeProof"})
headReplaced ==
    writeAuthoritySuccessorHead("headReplaced", {"closed"}, "replaced",
                                ReplacedProofs)
headPending ==
    writeAuthoritySuccessorHead("headPending", {"replaced"}, "reader-pending",
                                PendingProofs)

writeAuthoritySuccessorClose == Write("closeProof", {})

\* writeAuthoritySuccessorReservation: the epoch floor first, then the record.
reserveAuthorityEpoch ==
    Step("epochReserve",
         requireNoTerminalClose /\ disk.epoch.com = r.epoch - 1
           /\ MayReserve(disk.epoch, r.epoch),
         [disk EXCEPT !.epoch = Reserve(@, r.epoch)])
writeAuthoritySuccessorReservation == Write("reservation", {})
writeAuthoritySuccessorCommit == Write("commit", {"reservation"})
writeAuthoritySuccessorFence == Write("fenceBinding", {"reservation", "commit"})
writeAuthoritySuccessorBaseline ==
    Write("baseline", {"closeProof", "reservation", "commit"})

\* The token floor: reserved, attested, committed.
reserveTokenFloor ==
    Step("tokenReserve",
         /\ requireNoTerminalClose
         /\ disk.token.phase \in {"reserved", "committed"}
         /\ r.tok = disk.token.res + 1,
         [disk EXCEPT !.token = [@ EXCEPT !.phase = "reserved", !.res = r.tok,
                                          !.resTx = t]])
writeTokenConfigAttestation ==
    Step("attestation", requireNoTerminalClose /\ disk.token.resTx = t,
         WithRec("attestation", t))
writeAttestedTokenFloor ==
    Step("attestedFloor",
         requireNoTerminalClose /\ disk.token.phase = "reserved"
           /\ HasRecs({"attestation"}),
         [disk EXCEPT !.token.phase = "attested"])
commitTokenFloor ==
    Step("tokenCommit",
         requireNoTerminalClose /\ disk.token.phase = "attested"
           /\ disk.token.resTx = t,
         [disk EXCEPT !.token = [@ EXCEPT !.phase = "committed", !.com = disk.token.res,
                                          !.comTx = t]])

\* publishManagedSnapshot: the target first, then its wrapper and the control
\* root that names it.
publishTarget ==
    Step("target",
         /\ requireNoTerminalClose /\ mg.rev = r.rev - 1
         /\ r.fence = disk.root + 1,
         [disk EXCEPT !.target = [tx |-> t, fence |-> r.fence]])
publishEnvelope ==
    Step("root", requireNoTerminalClose, [disk EXCEPT !.root = r.fence])
writeMappingTombstone == Write("tombstone", {})
writeMappingGeneration == Write("generation", {})
writeMappingHandoffReceipt ==
    Step("handoff",
         /\ requireNoTerminalClose /\ disk.target = [tx |-> t, fence |-> r.fence]
         /\ t.op # "mapping-reconcile" => HasRecs({"tombstone"})
         /\ t.op # "mapping-revoke" => HasRecs({"generation"}),
         WithRec("handoff", t))

writeSuccessorPublicationGraph == Write("graph", {"closeProof", "baseline"})

commitAuthoritySuccessorEpoch ==
    Step("epochCommit",
         /\ requireNoTerminalClose /\ HasRecs({"reservation", "commit"})
         /\ disk.epoch.res = r.epoch /\ disk.epoch.resTx = t
         /\ disk.epoch.com = r.epoch - 1,
         [disk EXCEPT !.epoch = Commit(@, r.epoch)])

appendManagementAudit == Step("audit", requireNoTerminalClose, disk)
appendAuthAudit == Step("authAudit", requireNoTerminalClose, disk)

writeAuthoritySuccessorFinality ==
    Step("finality",
         requireNoTerminalClose /\ disk.epoch.comTx = t
           /\ HasRecs({"closeProof", "reservation", "commit", "baseline"}),
         WithRec("finality", t))

commitFenceGeneration ==
    Step("fenceCommit",
         disk.fence.resTx = t /\ disk.fence.res = r.fence
           /\ disk.fence.com = r.fence - 1,
         [disk EXCEPT !.fence = Commit(@, r.fence)])

-----------------------------------------------------------------------------
(* The terminalization suffix.                                             *)

\* The state a transaction ends in, in the phase given.
StateOf(phase, suffix) ==
    [rev |-> r.rev, epoch |-> r.epoch, fence |-> r.fence, tok |-> r.tok,
     map |-> r.map, phase |-> phase, tx |-> t, suffix |-> suffix]

\* compareAndSwapManagementState ties every state to the live floors.
StateBound(state) ==
    /\ state.epoch = (IF state.phase = "terminal" THEN disk.epoch.com
                      ELSE disk.epoch.res)
    /\ state.fence = disk.fence.com
    /\ state.phase # "manual" => /\ disk.token.phase = "committed"
                                 /\ state.tok = disk.token.com
    /\ state.phase = "terminal" => disk.target = [tx |-> t, fence |-> state.fence]

persistTerminalization ==
    Step("terminalizing",
         /\ requireNoTerminalClose
         /\ mg.rev = r.rev - 1
         /\ StateBound(StateOf("terminalizing", TRUE)),
         [disk EXCEPT !.mg = StateOf("terminalizing", TRUE)])

\* The live target is the transaction's, and so are the reader's records.
exactLiveSuccessor ==
    /\ disk.target = [tx |-> t, fence |-> r.fence]
    /\ Bound => ReaderRecords(t)

writeAuthoritySuccessorReceipt ==
    Step("receipt",
         /\ requireNoTerminalCloseOrReplay("receipt")
         /\ HasRecs({"finality"})
         /\ head.tx = t
         /\ \/ head.phase = "reader-pending"
            \/ head.phase = "terminal" /\ HasRecs({"receipt"})
         /\ exactLiveSuccessor,
         WithRec("receipt", t))

requireMatchingSuccessorReceipt == head.tx = t /\ Rec("receipt", t)

commitManagedHistoryMarker ==
    Step("marker",
         /\ requireNoTerminalCloseOrReplay("read")
         /\ \/ disk.marker = r.seq
            \/ /\ disk.marker = r.seq - 1
               /\ requireNoTerminalCloseOrReplay("marker")
               /\ requireMatchingSuccessorReceipt,
         [disk EXCEPT !.marker = r.seq])

publishFinalState ==
    LET final == StateOf("terminal", FALSE) IN
    Step("final",
         \/ mg = final
         \/ /\ mg.rev = r.rev /\ StateBound(final)
            /\ requireNoTerminalCloseOrReplay("state"),
         [disk EXCEPT !.mg = final])

headTerminal ==
    Step("headTerminal",
         /\ requireNoTerminalCloseOrReplay("read")
         /\ head.tx = t
         /\ \/ head.phase = "terminal"
            \/ /\ head.phase = "reader-pending"
               /\ requireNoTerminalCloseOrReplay("head")
               /\ r.fence = disk.fence.res
               /\ HasRecs(PendingProofs \cup {"receipt"})
               /\ disk.marker = r.seq /\ exactLiveSuccessor,
         [disk EXCEPT !.head.phase = "terminal"])

-----------------------------------------------------------------------------
(* Manual cleanup.                                                         *)

\* terminalCloseOrManualCleanup: create once; a replay must be the same record
\* or carry the suffix the durable state already holds.
terminalClose ==
    Step("close",
         \/ NoClose
         \/ /\ disk.close.tx = t
            /\ IF run.suffix THEN terminalReplayMatches("read") /\ mg.tx = t
               ELSE disk.close.reason = run.reason,
         IF NoClose
         THEN [disk EXCEPT !.close = [tx |-> t, reason |-> run.reason]]
         ELSE disk)

persistTerminalizationSuffix ==
    Step("suffix", LineageOK(t) /\ head.tx = t, WithRec("suffix", t))

\* Mutant: the fence and the epoch of the state read are kept.
CleanedUpOldFloors ==
    LET base == IF run.suffix THEN StateOf("manual", TRUE)
                ELSE [mg EXCEPT !.phase = "manual", !.tx = t, !.suffix = FALSE] IN
    [base EXCEPT !.tok = IF validateCommittedTokenLineage THEN disk.token.com
                         ELSE @]

\* The state read, brought to the floors; a suffix brings its own counters.
CleanedUp ==
    LET base == IF run.suffix THEN StateOf("manual", TRUE)
                ELSE [mg EXCEPT !.phase = "manual", !.tx = t, !.suffix = FALSE] IN
    [base EXCEPT !.epoch = disk.epoch.res, !.fence = disk.fence.com,
                 !.tok = IF validateCommittedTokenLineage THEN disk.token.com
                         ELSE @]

writeManualCleanup(cleaned) ==
    Step("state",
         IF mg.phase = "manual" THEN mg.tx = t /\ disk.close.tx = t
         ELSE /\ StateBound(cleaned) /\ cleaned.fence >= mg.fence
              /\ mg.rev = cleaned.rev
              /\ cleaned.suffix =>
                   /\ Counters(cleaned) = Counters(r)
                   /\ LineageOK(t) /\ head.tx = t /\ disk.close.tx = t,
         IF mg.phase = "manual" THEN disk ELSE [disk EXCEPT !.mg = cleaned])

writeManualState == writeManualCleanup(CleanedUp)

-----------------------------------------------------------------------------
(* The bot: a bound reader acknowledges the pending transaction.           *)

\* The bot holds no management lock; each write reads the live proof again
\* and is refused once a close record is durable.
readBotAuthoritySuccessorLiveProof ==
    /\ head.phase = "reader-pending" /\ LineageOK(head.tx)
    /\ disk.target = [tx |-> head.tx, fence |-> disk.root]
BotWrites(kind, needs) ==
    /\ Bound /\ requireNoTerminalClose /\ readBotAuthoritySuccessorLiveProof
    /\ ~Rec(kind, head.tx) /\ \A k \in needs : Rec(k, head.tx)
    /\ disk' = WithRec(kind, head.tx)
    /\ UNCHANGED <<run, faults, spoiled>>

writeBotLease == BotWrites("lease", {"fenceBinding"})
writeBotProjection == BotWrites("projection", {"lease"})
writeBotAck == BotWrites("ack", {"projection"})
completePendingSuccessor == writeBotLease \/ writeBotProjection \/ writeBotAck

-----------------------------------------------------------------------------
Progress ==
    \/ writeAuthoritySuccessorRequest \/ reserveFenceGeneration
    \/ headReserved \/ headClosed \/ headReplaced \/ headPending
    \/ writeAuthoritySuccessorClose \/ reserveAuthorityEpoch
    \/ writeAuthoritySuccessorReservation \/ writeAuthoritySuccessorCommit
    \/ writeAuthoritySuccessorFence \/ writeAuthoritySuccessorBaseline
    \/ reserveTokenFloor \/ writeTokenConfigAttestation
    \/ writeAttestedTokenFloor \/ commitTokenFloor
    \/ publishTarget \/ publishEnvelope
    \/ writeMappingTombstone \/ writeMappingGeneration
    \/ writeMappingHandoffReceipt \/ writeSuccessorPublicationGraph
    \/ commitAuthoritySuccessorEpoch \/ appendManagementAudit \/ appendAuthAudit
    \/ writeAuthoritySuccessorFinality \/ commitFenceGeneration
    \/ persistTerminalization \/ writeAuthoritySuccessorReceipt
    \/ commitManagedHistoryMarker \/ publishFinalState \/ headTerminal
    \/ terminalClose \/ persistTerminalizationSuffix \/ writeManualState

Next ==
    \/ Progress
    \/ completePendingSuccessor
    \/ \E tx \in Tx : reserveSuccessor(tx)
    \/ \E key \in Keys : recoverPublicSuccessor(key)
    \/ mutate
    \/ NativeFails \/ Crash

\* The operator retries `recover' with the key of the unfinished transaction.
Retry == \E key \in Keys : head.tx # Genesis /\ key = head.tx.key
                           /\ recoverPublicSuccessor(key)

-----------------------------------------------------------------------------
(* Properties.                                                             *)

\* The floors of both counters are reserved at most one ahead of what is
\* committed, and the management state never runs ahead of what is reserved
\* (reserveFenceGeneration, writeAuthoritySuccessorReservation and the state
\* compare-and-swap).
TypeOK ==
    /\ disk.fence.res \in disk.fence.com .. disk.fence.com + 1
    /\ disk.epoch.res \in disk.epoch.com .. disk.epoch.com + 1
    /\ disk.token.res \in disk.token.com .. disk.token.com + 1
    /\ mg.epoch <= disk.epoch.res /\ mg.fence <= disk.fence.com
    /\ head.seq \in disk.marker .. disk.marker + 1
    /\ run.tx \in Tx \cup {Genesis, NoTx}
    /\ run.todo = <<>> <=> run = Idle

\* A management state that says a successor is terminal stands on its
\* finality, its receipt, the advanced history marker, the published target
\* and, with a bound reader, the reader's acknowledgement: whatever failed or
\* crashed on the way, and also when the suffix was replayed past a
\* terminal-close (resumeTerminalization).
TerminalStateBacked ==
    (mg.phase = "terminal" /\ mg.tx # Genesis) =>
        /\ \A kind \in {"finality", "receipt"} : Rec(kind, mg.tx)
        /\ disk.marker >= disk.req[mg.tx].seq
        /\ disk.target.fence >= mg.fence
        /\ Bound => Rec("ack", mg.tx)

\* Past the close only the suffix of the closed transaction is completed and
\* the state that records the cleanup written.
FrozenStep ==
    ~NoClose =>
        /\ UNCHANGED <<disk.req, disk.fence, disk.epoch, disk.token,
                       disk.target, disk.root, disk.close>>
        /\ \A rec \in disk'.recs \ disk.recs :
              rec[1] \in {"suffix", "receipt"} /\ rec[2] = disk.close.tx
        /\ head'.tx = head.tx
        /\ mg'.phase = "terminal" => mg' = mg \/ mg'.tx = disk.close.tx

\* A closed transaction whose state still holds its suffix can be completed
\* by `recover': the durable records satisfy the replay check
\* (terminalReplayMatches), so the close is not a dead end.
SuffixReplayable ==
    (mg.phase = "manual" /\ mg.suffix) => terminalReplayMatches("read")

\* A cleanup that was not itself interrupted and had no suffix leaves the
\* management state saying so (manualCleanup).
CleanupRecorded ==
    (~Busy /\ ~NoClose /\ ~spoiled /\ ~Rec("suffix", disk.close.tx))
        => mg.phase = "manual"

Unfinished == head.phase \in {"reserved", "closed", "replaced", "reader-pending"}
=============================================================================
