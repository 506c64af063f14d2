-------------------------- MODULE AuthorityGenesis --------------------------
(***************************************************************************)
(* Genesis of the management authority (management-runtime.js #genesis     *)
(* over native-control/src/adapter.js and, for the reader's side,          *)
(* managed-authority-reader.js).                                           *)
(*                                                                         *)
(* Genesis is one transaction of some thirty durable writes on an empty    *)
(* control directory.  Its command may die or fail between any two of      *)
(* them; the same command, run again with the same inputs, then decides    *)
(* from the management state and from the records what to do: start over   *)
(* (no state yet), complete a handshake that waits for the bot, finish the *)
(* suffix of a committed transaction, or give up for good with the         *)
(* create-once terminal-close.  In "handshake" mode the bot answers a      *)
(* grant that expires after thirty seconds, without holding a lock.        *)
(*                                                                         *)
(* Every record belongs to the one transaction that owns the authority     *)
(* request, so a record is in the model by its name; archives written just *)
(* before a live record are part of its step.  The target is absent at     *)
(* first (a retained legacy file is not modelled).                         *)
(***************************************************************************)
EXTENDS Naturals, Sequences, FiniteSets

CONSTANTS Inputs,       \* the input tuples operators try Genesis with
          Nobody,       \* no transaction
          MaxGenFault   \* bound: crashes and failed writes

VARIABLES mode,         \* the reader mode the inputs ask for
          store,        \* the control directory
          cmd,          \* the management command that holds the locks
          bot,          \* writes the bot has still to make
          late,         \* the grant's thirty seconds are over
          gfaults       \* crashes and failures so far

genVars == <<mode, store, cmd, bot, late, gfaults>>

Handshake == mode = "handshake"
NoCommand == [todo |-> <<>>, tx |-> Nobody, kind |-> "run", reason |-> "",
              again |-> FALSE]
Working == cmd.todo # <<>>
Has(kinds) == kinds \subseteq store.recs
With(kind) == [store EXCEPT !.recs = @ \cup {kind}]
NotClosed == store.close.tx = Nobody

Init ==
    /\ mode \in {"no-reader", "handshake"}
    /\ store = [phase |-> "none", tx |-> Nobody, owner |-> Nobody,
                blocker |-> Nobody, recs |-> {},
                close |-> [tx |-> Nobody, reason |-> ""]]
    /\ cmd = NoCommand /\ bot = <<>> /\ late = FALSE /\ gfaults = 0

-----------------------------------------------------------------------------
(* What the records prove.                                                 *)

\* The publication graph and the live authority it was built from; with a
\* reader also the fence binding and the root published over its floor.
PublicationRecords ==
    {"graph", "baseline", "commit", "attestation", "root"}
    \cup (IF Handshake THEN {"fenceBinding", "refresh"} ELSE {})

\* The boundary every later proof is taken at: the graph, the floors it was
\* built on and the committed epoch.
BoundaryRecords ==
    PublicationRecords \cup
    {"tokenReserved", "tokenAttested", "reservation", "precommit", "epoch"}
    \cup (IF Handshake THEN {"readerFloor"} ELSE {})
exactPrecommitBoundary == Has(BoundaryRecords \cup {"epochFloor"})

\* validatePublishedFloors: both floors are committed by Genesis.
validatePublishedFloors == Has({"epochFloor", "fenceCommitted"})

AdmissionPair == {"admissionRequest", "admissionGrant"}
BotRecords == {"projection", "readerState", "ack"}

\* The admission pair the handshake state names, unexpired.
AdmissionLive == Has(AdmissionPair) /\ ~late

\* The bot's records appear all together or not at all.
readBoundReaderProof ==
    /\ Has({"root"})
    /\ \/ Has(BotRecords)
       \/ /\ store.recs \cap BotRecords = {}
          /\ Handshake => \/ AdmissionLive
                          \/ /\ store.recs \cap AdmissionPair = {}
                             /\ store.phase # "handshake-pending"

\* recoverGenesisSuffix, before it writes: the request and what it reserved,
\* a committed epoch and the records of the reader mode.
recoveryRequestProved ==
    Has({"authorityRequest", "request", "tokenReserved", "attestation", "root"})
recoveryEpochProved == Has({"epoch", "precommit", "reservation", "commit"})
recoveryFloorsProved == Has({"fenceReserved", "tokenAttested"})
recoveryReaderProved ==
    IF Handshake
    THEN AdmissionLive /\ Has(BotRecords \cup {"readerFloor"})
    ELSE store.recs \cap (AdmissionPair \cup BotRecords) = {}
recoverGenesisSuffix ==
    /\ recoveryRequestProved /\ recoveryEpochProved /\ recoveryFloorsProved
    /\ recoveryReaderProved /\ Has(BoundaryRecords)

-----------------------------------------------------------------------------
(* Running a command.                                                      *)

\* #manualCleanup: the create-once close record, then the state.
Cleanup(reason, again) ==
    [cmd EXCEPT !.todo = <<"close", "state">>, !.reason = reason,
                !.again = again]

SuffixSteps ==
    <<"fenceCommitted", "epochFloor", "tokenCommitted", "zFinality",
      "authorityReceipt", "finalityProof", "receipt", "suffix">>
InSuffix(step) ==
    step = "complete" \/ \E i \in DOMAIN SuffixSteps : SuffixSteps[i] = step

\* Where an error leads.  A first run gives up after its first native
\* mutation, unless the handshake is durable; a repeated one gives up when the
\* suffix cannot be written (not in a handshake) or the proof not reopened.
Failed(phase) ==
    LET step == Head(cmd.todo) IN
    IF step \in {"close", "state"}
    THEN IF cmd.again THEN Cleanup("error", FALSE) ELSE NoCommand
    ELSE IF cmd.kind = "run"
    THEN IF step \in {"unblock", "probe"} \/ phase = "handshake-pending" THEN NoCommand
         ELSE Cleanup("error", step = "audit")
    ELSE IF InSuffix(step)
    THEN IF cmd.kind = "recover" THEN Cleanup("suffix", FALSE) ELSE NoCommand
    ELSE IF step = "terminal" THEN NoCommand
    ELSE Cleanup("proof", FALSE)

Finished ==
    IF Len(cmd.todo) = 1 THEN NoCommand ELSE [cmd EXCEPT !.todo = Tail(@)]

CountGenFault == gfaults < MaxGenFault /\ gfaults' = gfaults + 1

\* One native operation: refused unless `ok'; its write may be durable and
\* the call fail all the same.
Do(step, ok, next) ==
    /\ Working /\ Head(cmd.todo) = step
    /\ \/ /\ ok /\ store' = next /\ cmd' = Finished /\ UNCHANGED gfaults
       \/ /\ ok /\ store' = next /\ cmd' = Failed(next.phase) /\ CountGenFault
       \/ /\ ~ok /\ cmd' = Failed(store.phase) /\ UNCHANGED <<store, gfaults>>
    /\ UNCHANGED <<mode, bot, late>>

\* Records refused without their predecessors, past a close and, when they
\* are immutable, a second time.
Replace(kind, needs) == Do(kind, NotClosed /\ Has(needs), With(kind))
Create(kind, needs) ==
    Do(kind, NotClosed /\ Has(needs) /\ kind \notin store.recs, With(kind))

\* A suffix record: recovery takes the one that is there.
ExactOrWrite(kind, needs) ==
    Do(kind,
       \/ cmd.kind # "run" /\ kind \in store.recs
       \/ NotClosed /\ Has(needs),
       With(kind))

GenNativeFails ==
    /\ Working /\ CountGenFault /\ cmd' = Failed(store.phase)
    /\ UNCHANGED <<mode, store, bot, late>>

GenCrash == /\ Working /\ CountGenFault /\ cmd' = NoCommand
            /\ UNCHANGED <<mode, store, bot, late>>

-----------------------------------------------------------------------------
(* The command, by what it finds in the management state.                  *)

GenesisSteps ==
    <<"unblock", "probe", "authorityRequest", "fenceReserved", "auth",
      "prepared", "request", "tokenReserved", "attestation", "tokenAttested",
      "epochReserved", "reservation", "commit", "target", "root">>
    \o (IF Handshake THEN <<"readerFloor", "fenceBinding", "refresh">> ELSE <<>>)
    \o <<"baseline", "graph", "replaced", "epochFloor", "precommit", "epoch",
         "tokenCommitted", "fenceCommitted", "zFinality", "authorityReceipt">>
HandshakeSteps ==
    <<"pending", "admissionRequest", "admissionGrant", "markerSeal", "marker",
      "bound">>
FinalSteps ==
    <<"finalityProof", "receipt", "recheck", "markerSeal", "marker", "recheck",
      "terminal", "audit">>
ReopenSteps == <<"finalize", "terminal", "audit">>

Begin(t, kind, todo) ==
    /\ ~Working
    /\ cmd' = [NoCommand EXCEPT !.todo = todo, !.tx = t, !.kind = kind]
    /\ UNCHANGED <<mode, store, bot, late, gfaults>>

\* No management state: Genesis starts, or starts over.
genesis(t) ==
    /\ store.phase = "none"
    /\ Begin(t, "run",
             GenesisSteps \o (IF Handshake THEN HandshakeSteps ELSE <<>>)
               \o FinalSteps)

\* The reader's answer is awaited: the admission is restored from the state,
\* and Genesis completed from the bot's records.
genesisComplete(t) ==
    /\ store.phase = "handshake-pending" /\ store.tx = t
    /\ Begin(t, "complete",
             <<"admissionRequest", "admissionGrant", "restore", "complete">>
               \o SuffixSteps \o ReopenSteps)

\* Any other unfinished state, with the inputs it was made from.
genesisRecover(t) ==
    /\ store.phase \in {"prepared", "replaced", "manual"} /\ store.tx = t
    /\ Begin(t, "recover", <<"complete">> \o SuffixSteps \o ReopenSteps)

\* The same, with other inputs: given up (RECOVERY_INPUT_MISMATCH).
genesisMismatch(t) ==
    /\ ~Working
    /\ store.phase \notin {"none", "terminal"} /\ store.tx # t
    /\ cmd' = [todo |-> <<"close", "state">>, tx |-> store.tx,
               kind |-> "mismatch", reason |-> "input", again |-> FALSE]
    /\ UNCHANGED <<mode, store, bot, late, gfaults>>

\* A repeated command after the end reopens the proof.
genesisReplay(t) ==
    /\ store.phase = "terminal" /\ store.tx = t
    /\ Begin(t, "replay", <<"finalize">>)

-----------------------------------------------------------------------------
(* The native operations, in the order a first run calls them.             *)

\* probeProspectiveCleanup: a blocker of another transaction refuses, one of
\* our own is removed and made again.
MayProbe == store.blocker \in {Nobody, cmd.tx}
unblock == Do("unblock", MayProbe, [store EXCEPT !.blocker = Nobody])
probeProspectiveCleanup ==
    Do("probe", MayProbe, [store EXCEPT !.blocker = cmd.tx])

writeGenesisAuthorityRequest ==
    Do("authorityRequest",
       store.owner = cmd.tx \/ (store.owner = Nobody /\ NotClosed),
       [With("authorityRequest") EXCEPT !.owner = cmd.tx])

\* requireAuthorityRequest: the request binds the live prospective proof.
requireAuthorityRequest == store.owner = cmd.tx

reserveFenceGeneration ==
    Do("fenceReserved",
       Has({"fenceReserved"}) \/ (NotClosed /\ requireAuthorityRequest),
       With("fenceReserved"))
compareAndSwapManagementAuth ==
    Do("auth", Has({"auth"}) \/ NotClosed, With("auth"))
persistPrepared ==
    Do("prepared", NotClosed /\ requireAuthorityRequest,
       [store EXCEPT !.phase = "prepared", !.tx = cmd.tx])
writeGenesisRequest == Replace("request", {"authorityRequest"})
reserveTokenFloor == Replace("tokenReserved", {"authorityRequest"})
writeTokenConfigAttestation == Replace("attestation", {"tokenReserved"})
writeAttestedTokenFloor == Replace("tokenAttested", {"tokenReserved", "attestation"})
reserveAuthorityEpoch == Create("epochReserved", {"authorityRequest"})
writeAuthorityReservation == Create("reservation", {"epochReserved"})
writeAuthorityCommitSnapshot == Create("commit", {"reservation"})

\* publishMapping on an absent target, then its envelope; the control root is
\* what later commands take as published authority.
publishMapping == Replace("target", {"authorityRequest"})
publishEnvelope ==
    Do("root", NotClosed /\ Has({"target"}),
       [With("root") EXCEPT !.blocker = Nobody])
casReaderVersionFloor == Create("readerFloor", {"root"})
writeReaderFenceBinding == Create("fenceBinding", {"commit", "readerFloor"})
refreshReaderFloor == Replace("refresh", {"root", "readerFloor"})
writeAuthorityBaseline == Create("baseline", {"commit"})
writePublicationGraph == Create("graph", {"baseline", "root"})
persistReplaced ==
    Do("replaced", NotClosed /\ Has({"epochReserved"}) /\ readBoundReaderProof,
       [store EXCEPT !.phase = "replaced"])

\* commitAuthorityEpoch: the floor, the precommit proof, then the epoch.
commitEpochFloor ==
    ExactOrWrite("epochFloor", {"epochReserved", "reservation", "commit"})
commitPrecommit == Create("precommit", {"epochFloor", "graph"})
commitAuthorityEpoch == Create("epoch", {"precommit"})
commitTokenFloor ==
    ExactOrWrite("tokenCommitted", {"tokenAttested", "epoch", "precommit"})
commitFenceGeneration == ExactOrWrite("fenceCommitted", {"fenceReserved"})
writeZFinality ==
    Do("zFinality",
       \/ cmd.kind # "run" /\ Has({"zFinality"})
       \/ /\ NotClosed /\ exactPrecommitBoundary /\ validatePublishedFloors
          /\ Has({"tokenCommitted"}) /\ store.phase # "handshake-pending",
       With("zFinality"))
writeGenesisAuthorityReceipt ==
    ExactOrWrite("authorityReceipt", {"authorityRequest", "commit", "root"})

-----------------------------------------------------------------------------
(* The handshake.                                                          *)

persistGenesisHandshakePending ==
    Do("pending", NotClosed /\ store.phase = "replaced",
       [store EXCEPT !.phase = "handshake-pending"])

\* admissionWriterGenesis: only while the handshake is pending.
admissionWriterGenesis == NotClosed /\ store.phase = "handshake-pending"
writeAdmissionRequest ==
    Do("admissionRequest", admissionWriterGenesis, With("admissionRequest"))
writeAdmissionGrant ==
    Do("admissionGrant", admissionWriterGenesis /\ Has({"admissionRequest"}),
       With("admissionGrant"))

\* The first run goes on only when the bot has answered already.
boundReader == Do("bound", readBoundReaderProof /\ Has(BotRecords), store)

\* Mutant: nobody looks at the clock when the admission is restored.
restorePendingGenesisAdmissionForever == Do("restore", Has(AdmissionPair), store)

restorePendingGenesisAdmission == Do("restore", AdmissionLive, store)

completePendingGenesis ==
    Do("complete",
       (Has(BotRecords) \/ readBoundReaderProof) /\ recoverGenesisSuffix, store)

\* The bot: it reads the whole pending authority, then makes its four writes.
readPendingReaderBootstrap ==
    /\ bot = <<>> /\ Handshake /\ ~Has({"ack"})
    /\ AdmissionLive /\ exactPrecommitBoundary /\ validatePublishedFloors
    /\ Has({"zFinality", "tokenCommitted", "fenceBinding"})
    /\ bot' = <<"lease", "projection", "readerState", "ack">>
    /\ UNCHANGED <<mode, store, cmd, late, gfaults>>

pendingReaderWriterGenesis == admissionWriterGenesis /\ AdmissionLive
BotWrite(kind, needs) ==
    /\ bot # <<>> /\ Head(bot) = kind
    /\ \/ /\ pendingReaderWriterGenesis /\ Has(needs)
          /\ store' = With(kind) /\ bot' = Tail(bot)
       \/ /\ ~(pendingReaderWriterGenesis /\ Has(needs))
          /\ bot' = <<>> /\ UNCHANGED store
    /\ UNCHANGED <<mode, cmd, late, gfaults>>
acquireBotLease == BotWrite("lease", {"fenceBinding"})
writeBotReaderProjection == BotWrite("projection", {"zFinality", "tokenCommitted"})
writeBotReaderState == BotWrite("readerState", {"lease", "projection"})
writeBotAcknowledgement == BotWrite("ack", BoundaryRecords \cup {"projection"})
BotStops == /\ bot # <<>> /\ CountGenFault /\ bot' = <<>>
            /\ UNCHANGED <<mode, store, cmd, late>>

\* Thirty seconds pass.
GrantExpires == /\ store.phase = "handshake-pending" /\ ~late /\ late' = TRUE
                /\ UNCHANGED <<mode, store, cmd, bot, gfaults>>

-----------------------------------------------------------------------------
(* The end of Genesis, and giving up.                                      *)

\* validateStoredFinalityGraph: the finality the proof and the receipt name,
\* with the reader's records where there is a reader.
validateStoredFinalityGraph ==
    /\ exactPrecommitBoundary /\ Has({"zFinality", "tokenCommitted"})
    /\ Handshake => AdmissionLive /\ Has(BotRecords)
Proved(kind, needs) ==
    Do(kind,
       /\ NotClosed \/ kind \in store.recs
       /\ validateStoredFinalityGraph /\ Has(needs),
       With(kind))
writeFinalityProof == Proved("finalityProof", {})
writeGenesisReceipt == Proved("receipt", {"finalityProof"})
writeSuffixRecovery == Proved("suffix", {"finalityProof", "receipt"})

\* A first run of a handshake never passes this check: the state says
\* "handshake-pending", and the same command run again completes it.
recheckAdmissionFinality ==
    Do("recheck",
       /\ NotClosed /\ validateStoredFinalityGraph
       /\ Has({"finalityProof", "receipt", "authorityReceipt", "baseline"})
       /\ store.phase \in {"replaced", "terminal"},
       store)

\* commitManagedHistoryMarker: the seal, then the marker itself.
sealHistoryMarker ==
    Do("markerSeal",
       \/ Has({"markerSeal", "marker"})
       \/ NotClosed /\ ~Has({"markerSeal"}) /\ Has({"authorityReceipt"}),
       With("markerSeal"))
commitManagedHistoryMarker == Replace("marker", {"markerSeal"})

\* Mutant: a recovered Genesis is finished without its history marker.
finalizeRecoveredGenesisUnmarked ==
    Do("finalize", NotClosed /\ Has({"zFinality", "finalityProof", "receipt"}),
       store)

\* The proof is reopened: the marker, the finality and the receipt.
finalizeRecoveredGenesis ==
    Do("finalize",
       NotClosed /\ Has({"marker", "zFinality", "finalityProof", "receipt"}),
       store)

publishTerminalGenesis ==
    Do("terminal", NotClosed /\ Has({"epochFloor", "tokenCommitted"}),
       [store EXCEPT !.phase = "terminal"])
appendAudit == Do("audit", NotClosed, store)

\* requireGenesisProof: this process probed, or authority is published.
requireGenesisProof == cmd.kind = "run" \/ Has({"root"})
terminalClose ==
    Do("close",
       \/ NotClosed /\ requireGenesisProof
       \/ store.close = [tx |-> cmd.tx, reason |-> cmd.reason],
       IF NotClosed
       THEN [store EXCEPT !.close = [tx |-> cmd.tx, reason |-> cmd.reason]]
       ELSE store)
publishManualState ==
    Do("state", store.phase # "none" /\ requireGenesisProof,
       [store EXCEPT !.phase = "manual", !.tx = cmd.tx])

GenOperation ==
    \/ unblock \/ probeProspectiveCleanup \/ writeGenesisAuthorityRequest
    \/ reserveFenceGeneration \/ compareAndSwapManagementAuth \/ persistPrepared
    \/ writeGenesisRequest \/ reserveTokenFloor \/ writeTokenConfigAttestation
    \/ writeAttestedTokenFloor \/ reserveAuthorityEpoch
    \/ writeAuthorityReservation \/ writeAuthorityCommitSnapshot
    \/ publishMapping \/ publishEnvelope \/ casReaderVersionFloor
    \/ writeReaderFenceBinding \/ refreshReaderFloor \/ writeAuthorityBaseline
    \/ writePublicationGraph \/ persistReplaced \/ commitEpochFloor
    \/ commitPrecommit \/ commitAuthorityEpoch \/ commitTokenFloor
    \/ commitFenceGeneration \/ writeZFinality \/ writeGenesisAuthorityReceipt
    \/ persistGenesisHandshakePending \/ writeAdmissionRequest
    \/ writeAdmissionGrant \/ boundReader \/ restorePendingGenesisAdmission
    \/ completePendingGenesis \/ writeFinalityProof \/ writeGenesisReceipt
    \/ writeSuffixRecovery \/ recheckAdmissionFinality \/ sealHistoryMarker
    \/ commitManagedHistoryMarker \/ finalizeRecoveredGenesis
    \/ publishTerminalGenesis \/ appendAudit \/ terminalClose
    \/ publishManualState

GenCommand(t) ==
    \/ genesis(t) \/ genesisComplete(t) \/ genesisRecover(t) \/ genesisReplay(t)

BotStep ==
    \/ readPendingReaderBootstrap \/ acquireBotLease \/ writeBotReaderProjection
    \/ writeBotReaderState \/ writeBotAcknowledgement

Next ==
    \/ GenOperation \/ BotStep \/ BotStops \/ GrantExpires
    \/ \E t \in Inputs : GenCommand(t) \/ genesisMismatch(t)
    \/ GenNativeFails \/ GenCrash

-----------------------------------------------------------------------------
(* Properties.                                                             *)

TypeOK ==
    /\ mode \in {"no-reader", "handshake"}
    /\ store.phase \in {"none", "prepared", "replaced", "handshake-pending",
                        "terminal", "manual"}
    /\ {store.tx, store.owner, store.blocker, store.close.tx, cmd.tx}
         \subseteq Inputs \cup {Nobody}
    /\ late \in BOOLEAN /\ gfaults \in 0 .. MaxGenFault

\* Past its terminal-close Genesis writes nothing but the manual state.
FrozenStep ==
    ~NotClosed => /\ store'.recs = store.recs /\ store'.close = store.close
                  /\ store'.phase \in {store.phase, "manual"}

\* Before the control root is published only the process that probed may
\* record that it gives up; and a blocker of other inputs keeps the owner out.
Stranded ==
    ~Has({"root"}) /\ (store.phase = "prepared"
                        \/ store.blocker \notin {Nobody, store.owner})
=============================================================================
