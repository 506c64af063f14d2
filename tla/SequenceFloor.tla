---------------------------- MODULE SequenceFloor ----------------------------
(***************************************************************************)
(* The host-wide release-sequence floor of the native service store and    *)
(* the acquisition that moves it (native-control/src/service-store.js and  *)
(* service-acquisition.js).                                                *)
(*                                                                         *)
(* All services of a host (the bot and the daemons) share one application  *)
(* floor: two mutable files, the floor and its witness, and an append-only *)
(* history with one directory per revision.  A transition of the floor is  *)
(* six durable writes, in this order: the revision directory, whose NAME   *)
(* carries the action and the transaction; the intent record; the witness  *)
(* in state "intent"; the floor; the witness in state "stable"; the state  *)
(* record.  The controller may die between any two of them.  The next      *)
(* session classifies what it finds (LoadFloor) and admits only the exact  *)
(* transaction that left it.                                               *)
(*                                                                         *)
(* A fingerprint is a hash of a record: the model uses the record itself,  *)
(* and a journal entry is named by its transaction and its phase.  One     *)
(* store session runs at a time: every mutation and recovery session holds *)
(* the artifact lock exclusively.                                          *)
(***************************************************************************)
EXTENDS Integers, FiniteSets, Sequences

CONSTANTS
    Services,   \* service keys of the host
    Releases,   \* signed releases, records [seq, man]
    MaxTx,      \* bound: lifecycle transactions ever started
    MaxRev,     \* bound: floor revisions
    MaxCrash    \* bound: controller deaths and expired deadlines

ASSUME BoundsAssumption == MaxTx \in Nat /\ MaxRev \in Nat /\ MaxCrash \in Nat
ASSUME ReleasesAssumption ==
    \A r \in Releases : r.seq \in Nat /\ r.seq > 0

Manifests == {r.man : r \in Releases}
Revisions == 0 .. MaxRev
None == [none |-> TRUE]
NoSeq == 0

VARIABLES
    floor,      \* the floor file
    witness,    \* the witness file
    hist,       \* revision -> history directory, or None
    journal,    \* service -> sequence of transaction records [tx, phase]
    head,       \* service -> number of entries the head file covers
    retained,   \* service -> manifests whose signed envelope it retains
    published,  \* manifests whose artifact directory is published
    deployed,   \* service -> sequence of its current release, 0 when absent
    request,    \* service -> the operator's pending request, or None
    sess,       \* the store session, or None
    lastTx,     \* transactions started so far
    crashes     \* controller deaths so far

vars == <<floor, witness, hist, journal, head, retained, published, deployed,
          request, sess, lastTx, crashes>>

durable == <<floor, witness, hist, journal, head, retained, published, deployed>>

-----------------------------------------------------------------------------
(* Records of the store. *)

EmptyFloor ==
    [rev |-> 0, high |-> NoSeq, highMan |-> None, com |-> NoSeq, comMan |-> None,
     comTx |-> 0, active |-> None]

StableWitness(f) ==
    [state |-> "stable", rev |-> f.rev, action |-> "none", fp |-> None,
     cur |-> f, next |-> None]

IntentWitness(cur, next, action, fp) ==
    [state |-> "intent", rev |-> next.rev, action |-> action, fp |-> fp,
     cur |-> cur, next |-> next]

\* An intent record carries both witnesses; they follow from its floors.
IntendedWitness(h) ==
    IntentWitness(h.intent.prevFloor, h.intent.nextFloor, h.action, h.fp)

Bootstrapped ==
    [action |-> "genesis", fp |-> None, svc |-> None, intent |-> None,
     state |-> [floor |-> EmptyFloor, witness |-> StableWitness(EmptyFloor)]]

Fingerprint(e) == <<e.tx.id, e.phase>>

LastEntry(s) == journal[s][Len(journal[s])]

JournalPending(s) == Len(journal[s]) = head[s] + 1

TransactionOpen(s) ==
    /\ journal[s] # <<>>
    /\ JournalPending(s) \/ LastEntry(s).phase # "committed"

RetainedTransaction(s, fp) ==
    {e.tx : e \in {journal[s][i] : i \in {k \in DOMAIN journal[s] :
                                            Fingerprint(journal[s][k]) = fp}}}

SameRetainedIdentity(s, fp, e) ==
    fp = Fingerprint(e) \/ e.tx \in RetainedTransaction(s, fp)

-----------------------------------------------------------------------------
(* Opening the floor: what a session finds after any sequence of deaths.   *)

Present == {r \in Revisions : hist[r] # None}

LatestRevision == CHOOSE r \in Present : \A q \in Present : q <= r

HistoryChains ==
    \A r \in Present :
        /\ r > 0 => r - 1 \in Present /\ hist[r - 1].state # None
        /\ r > 0 /\ hist[r].intent # None =>
              /\ hist[r].intent.prevFloor = hist[r - 1].state.floor
              /\ hist[r].intent.prevWitness = hist[r - 1].state.witness
        /\ r > 0 /\ hist[r].state # None =>
              /\ hist[r].intent # None
              /\ hist[r].state.floor = hist[r].intent.nextFloor
              /\ hist[r].state.witness = StableWitness(hist[r].intent.nextFloor)

LoadFloor ==
    LET last == LatestRevision
        h == hist[last]
    IN  IF ~HistoryChains THEN "manual"
        ELSE CASE h.state # None ->
                    IF last = floor.rev /\ h.state.floor = floor /\ h.state.witness = witness
                    THEN "stable" ELSE "manual"
               [] h.state = None /\ h.intent = None ->
                    IF /\ hist[last - 1].state.floor = floor
                       /\ hist[last - 1].state.witness = witness
                    THEN "directory-intent" ELSE "manual"
               [] OTHER ->
                    CASE floor = h.intent.prevFloor /\ witness = h.intent.prevWitness ->
                           "before"
                      [] floor = h.intent.prevFloor /\ witness = IntendedWitness(h) ->
                           "witness-intent"
                      [] floor = h.intent.nextFloor /\ witness = IntendedWitness(h) ->
                           "floor-intent"
                      [] /\ floor = h.intent.nextFloor
                         /\ witness = StableWitness(h.intent.nextFloor) ->
                           "stable-unrecorded"
                      [] OTHER -> "manual"

(* A service without metadata never loads the floor that way: it classifies *)
(* the two files alone, then looks at the newest history directory.        *)
FloorPairState ==
    CASE witness.state = "stable" /\ witness.cur = floor /\ witness.rev = floor.rev ->
           "stable"
      [] witness.state = "intent" /\ witness.cur = floor /\ witness.rev = floor.rev + 1 ->
           "before"
      [] /\ witness.state = "intent" /\ witness.next = floor /\ witness.rev = floor.rev
         /\ witness.action = "reserve" =>
               floor.active # None /\ floor.active.fp = witness.fp
         /\ witness.action = "commit" =>
               floor.active = None /\ floor.comTx = witness.fp[1]
         /\ witness.action = "abandon" => floor.active = None ->
           "after"
      [] OTHER -> "manual"

GlobalFloorPending ==
    LET last == LatestRevision
        h == hist[last]
    IN  IF \/ FloorPairState = "manual"
           \/ last < floor.rev \/ last > floor.rev + 1
           \/ h.state # None /\ (h.state.floor # floor \/ h.state.witness # witness)
        THEN "manual"
        ELSE IF \/ FloorPairState # "stable" \/ floor.active # None
                \/ last # floor.rev \/ h.state = None
             THEN "pending" ELSE "clean"

(* Every fact that names an unfinished transaction, as <<service, tx id>>. *)
GlobalBindings ==
    (IF LoadFloor = "stable" THEN {}
     ELSE {<<hist[LatestRevision].svc, hist[LatestRevision].fp[1]>>})
    \cup (IF floor.active = None THEN {} ELSE {<<floor.active.svc, floor.active.fp[1]>>})

RecoveryBindings(s) ==
    GlobalBindings
    \cup (IF /\ journal[s] # <<>>
             /\ GlobalBindings # {} \/ TransactionOpen(s)
          THEN {<<s, LastEntry(s).tx.id>>} ELSE {})

HasMetadata(s) == journal[s] # <<>>

Blocked(s) ==
    \/ ~HasMetadata(s) /\ GlobalFloorPending # "clean"
    \/ TransactionOpen(s) \/ LoadFloor # "stable" \/ floor.active # None

-----------------------------------------------------------------------------
Init ==
    /\ floor = EmptyFloor
    /\ witness = StableWitness(EmptyFloor)
    /\ hist = [r \in Revisions |-> IF r = 0 THEN Bootstrapped ELSE None]
    /\ journal = [s \in Services |-> <<>>]
    /\ head = [s \in Services |-> 0]
    /\ retained = [s \in Services |-> {}]
    /\ published = {}
    /\ deployed = [s \in Services |-> NoSeq]
    /\ request = [s \in Services |-> None]
    /\ sess = None
    /\ lastTx = 0
    /\ crashes = 0

\* The operator asks for an install or an update, with the floor it has read.
\* Asking during a session is the same as asking before or after it: the
\* committed sequence changes at one write.
Request(s, r) ==
    /\ sess = None /\ request[s] = None
    /\ lastTx < MaxTx
    /\ request' = [request EXCEPT ![s] = [rel |-> r, expect |-> floor.com]]
    /\ UNCHANGED <<floor, witness, hist, journal, head, retained, published,
                   deployed, sess, lastTx, crashes>>

AssertFloorCas(s) == request[s].expect = floor.com

\* The request ends, done or refused with the code given.
Refuse(s, code) == request' = [request EXCEPT ![s] = None]

NewTransaction(s) ==
    [id |-> lastTx + 1, svc |-> s,
     op |-> IF deployed[s] = NoSeq THEN "install" ELSE "update",
     rel |-> request[s].rel]

Session(s, mode, tx, pc, mem) ==
    [svc |-> s, mode |-> mode, tx |-> tx, pc |-> pc, mem |-> mem,
     phase |-> "prepared", op |-> None]

\* openMutation, the floor CAS of the lifecycle, and the new transaction.
OpenMutation(s) ==
    /\ sess = None /\ request[s] # None
    /\ lastTx < MaxTx
    /\ IF Blocked(s) THEN
            Refuse(s, "SERVICE_PENDING") /\ UNCHANGED <<sess, lastTx>>
       ELSE IF ~AssertFloorCas(s) THEN
            Refuse(s, "SERVICE_STALE") /\ UNCHANGED <<sess, lastTx>>
       ELSE /\ sess' = Session(s, "mutation", NewTransaction(s), "append", LoadFloor)
            /\ lastTx' = lastTx + 1
            /\ UNCHANGED request
    /\ UNCHANGED durable
    /\ UNCHANGED crashes

\* openRecovery: another service's unfinished floor refuses, and so does
\* nothing to recover; facts that name two transactions are manual cleanup.
\* Mutant: recovery is refused like a mutation while the floor is unfinished.
RecoveryAdmissionLikeMutation(s) ==
    /\ \A b \in GlobalBindings : b[1] = s
    /\ Cardinality(RecoveryBindings(s)) = 1
    /\ LoadFloor = "stable"

RecoveryAdmission(s) ==
    /\ \A b \in GlobalBindings : b[1] = s
    /\ Cardinality(RecoveryBindings(s)) = 1
    /\ LoadFloor # "manual"

OpenRecovery(s) ==
    /\ sess = None
    /\ RecoveryAdmission(s)
    /\ sess' = Session(s, "recovery", LastEntry(s).tx,
                       IF JournalPending(s) THEN "head"
                       ELSE CASE LastEntry(s).phase = "prepared" -> "retain"
                              [] LastEntry(s).phase = "sequence-reserved" -> "publish"
                              [] LastEntry(s).phase = "release-published" -> "finish",
                       LoadFloor)
    /\ UNCHANGED durable
    /\ UNCHANGED <<request, lastTx, crashes>>

-----------------------------------------------------------------------------
(* The journal: an immutable entry first, the head that covers it second.  *)

AppendEntry ==
    /\ sess # None /\ sess.pc = "append"
    /\ ~JournalPending(sess.svc)
    /\ journal' = [journal EXCEPT ![sess.svc] =
                     Append(@, [tx |-> sess.tx, phase |-> sess.phase])]
    /\ sess' = [sess EXCEPT !.pc = "head"]
    /\ UNCHANGED <<floor, witness, hist, head, retained, published, deployed,
                   request, lastTx, crashes>>

AfterHead(phase) ==
    CASE phase = "prepared" -> "retain"
      [] phase = "sequence-reserved" -> "publish"
      [] phase = "release-published" -> "finish"
      [] phase = "committed" -> "done"

WriteHead ==
    /\ sess # None /\ sess.pc = "head"
    /\ JournalPending(sess.svc)
    /\ head' = [head EXCEPT ![sess.svc] = @ + 1]
    /\ sess' = [sess EXCEPT !.pc = AfterHead(LastEntry(sess.svc).phase)]
    /\ deployed' = IF LastEntry(sess.svc).phase = "committed"
                   THEN [deployed EXCEPT ![sess.svc] = sess.tx.rel.seq] ELSE deployed
    /\ UNCHANGED <<floor, witness, hist, journal, retained, published, request, lastTx, crashes>>

-----------------------------------------------------------------------------
(* Acquisition. *)

RetainEnvelope ==
    /\ sess # None /\ sess.pc = "retain"
    /\ retained' = [retained EXCEPT ![sess.svc] = @ \cup {sess.tx.rel.man}]
    /\ sess' = [sess EXCEPT !.pc = "reserve"]
    /\ UNCHANGED <<floor, witness, hist, journal, head, published, deployed,
                   request, lastTx, crashes>>

Prepared == [tx |-> sess.tx, phase |-> "prepared"]
Reserved == [tx |-> sess.tx, phase |-> "sequence-reserved"]

\* What the update compares its release with: the lifecycle passes the
\* committed sequence of the host-wide floor.
CurrentSequence == floor.com

FloorRefusal(r) ==
    IF \/ floor.com > floor.high
       \/ floor.com = floor.high /\ floor.com > 0 /\ floor.comMan # floor.highMan
    THEN "SERVICE_STALE"
    ELSE IF r.seq < floor.high THEN "RELEASE_SEQUENCE_DOWNGRADE"
    ELSE IF r.seq = floor.high /\ floor.high > 0 /\ r.man # floor.highMan
    THEN "RELEASE_SEQUENCE_CONFLICT"
    ELSE "none"

HeldByAnother ==
    LET a == floor.active IN
    /\ a # None
    /\ ~(/\ a.svc = sess.svc
         /\ SameRetainedIdentity(sess.svc, a.fp, Prepared)
         /\ a.seq = sess.tx.rel.seq /\ a.man = sess.tx.rel.man)

ReserveRefusal ==
    IF sess.tx.op = "update" /\ sess.tx.rel.seq <= CurrentSequence
    THEN "RELEASE_SEQUENCE_NOT_ADVANCING"
    ELSE IF HeldByAnother THEN "RELEASE_SEQUENCE_RESERVED"
    ELSE FloorRefusal(sess.tx.rel)

\* Mutant: the reservation leaves the high-water mark where it was.
ReserveFieldsSameMark ==
    LET r == sess.tx.rel IN
    IF sess.mem # "stable" /\ hist[LatestRevision].intent # None
    THEN hist[LatestRevision].intent.nextFloor
    ELSE IF floor.active # None THEN floor
    ELSE [floor EXCEPT
            !.rev = @ + 1,
            !.active = [svc |-> sess.svc, fp |-> Fingerprint(Prepared),
                        seq |-> r.seq, man |-> r.man]]

ReserveFields ==
    LET r == sess.tx.rel IN
    IF sess.mem # "stable" /\ hist[LatestRevision].intent # None
    THEN hist[LatestRevision].intent.nextFloor
    ELSE IF floor.active # None THEN floor
    ELSE [floor EXCEPT
            !.rev = @ + 1,
            !.high = IF r.seq > @ THEN r.seq ELSE @,
            !.highMan = IF r.seq > floor.high THEN r.man ELSE @,
            !.active = [svc |-> sess.svc, fp |-> Fingerprint(Prepared),
                        seq |-> r.seq, man |-> r.man]]

BeginApply(action, fp, next) ==
    sess' = [sess EXCEPT !.pc = "apply",
                         !.op = [action |-> action, fp |-> fp, next |-> next]]

CloseSession == sess' = None

\* reserveApplicationSequence.
ReserveApplicationSequence ==
    /\ sess # None /\ sess.pc = "reserve"
    /\ IF ReserveRefusal # "none" THEN
            CloseSession /\ Refuse(sess.svc, ReserveRefusal)
       ELSE IF floor.active # None /\ sess.mem = "stable" THEN
            /\ sess' = [sess EXCEPT !.pc = "append", !.phase = "sequence-reserved"]
            /\ UNCHANGED request
       ELSE BeginApply("reserve", Fingerprint(Prepared), ReserveFields)
            /\ UNCHANGED request
    /\ UNCHANGED durable
    /\ UNCHANGED <<lastTx, crashes>>

ReservedByThis ==
    /\ floor.active # None
    /\ floor.active.svc = sess.svc
    /\ SameRetainedIdentity(sess.svc, floor.active.fp, Reserved)
    /\ floor.active.seq = sess.tx.rel.seq /\ floor.active.man = sess.tx.rel.man

CommittedByThis ==
    /\ floor.comTx = sess.tx.id
    /\ floor.com = sess.tx.rel.seq /\ floor.comMan = sess.tx.rel.man

\* assertArtifactFloorAdmission: only while a stable floor holds this
\* transaction's reservation, or its commit.
ArtifactFloorAdmission ==
    /\ sess.mem = "stable"
    /\ \/ ReservedByThis
       \/ /\ floor.active = None
          /\ floor.high = sess.tx.rel.seq /\ floor.highMan = sess.tx.rel.man
          /\ CommittedByThis

\* Mutant: the candidate is staged, and published after the commit.
PublishArtifactLate ==
    /\ sess # None /\ sess.pc = "publish"
    /\ sess' = [sess EXCEPT !.pc = "commit"]
    /\ UNCHANGED durable
    /\ UNCHANGED <<request, lastTx, crashes>>

\* openArtifactAccess, staging and publishCandidate.
PublishArtifact ==
    /\ sess # None /\ sess.pc = "publish"
    /\ sess.mode = "recovery" => sess.tx.rel.man \notin published
    /\ IF ArtifactFloorAdmission /\ sess.tx.rel.man \in retained[sess.svc] THEN
            /\ published' = published \cup {sess.tx.rel.man}
            /\ sess' = [sess EXCEPT !.pc = "commit"]
            /\ UNCHANGED request
       ELSE /\ CloseSession /\ Refuse(sess.svc, "SERVICE_PENDING")
            /\ UNCHANGED published
    /\ UNCHANGED <<floor, witness, hist, journal, head, retained, deployed,
                   lastTx, crashes>>

\* observeApplicationPublication: a recovery session re-opens the immutable
\* directory; the floor is not consulted.
ObserveApplicationPublication ==
    /\ sess # None /\ sess.mode = "recovery" /\ sess.pc = "publish"
    /\ sess.tx.rel.man \in published
    /\ sess' = [sess EXCEPT !.pc = "commit"]
    /\ UNCHANGED durable
    /\ UNCHANGED <<request, lastTx, crashes>>

AlreadyCommitted ==
    floor.active = None /\ sess.mem = "stable" /\ CommittedByThis

CommitFields ==
    [floor EXCEPT !.rev = @ + 1, !.com = sess.tx.rel.seq,
                  !.comMan = sess.tx.rel.man, !.comTx = sess.tx.id,
                  !.active = None]

IntendedCommit ==
    LET n == hist[LatestRevision].intent.nextFloor
    IN  n.com = sess.tx.rel.seq /\ n.comMan = sess.tx.rel.man

\* commitApplicationSequence, with the publication observed in this session.
CommitApplicationSequence ==
    /\ sess # None /\ sess.pc = "commit"
    /\ LET pending == sess.mem # "stable" /\ hist[LatestRevision].intent # None
       IN  \/ /\ AlreadyCommitted
              /\ sess' = [sess EXCEPT !.pc = "append", !.phase = "release-published"]
              /\ UNCHANGED request
           \/ /\ ~AlreadyCommitted /\ pending /\ IntendedCommit
              /\ BeginApply("commit", Fingerprint(Reserved),
                            hist[LatestRevision].intent.nextFloor)
              /\ UNCHANGED request
           \/ /\ ~AlreadyCommitted /\ pending /\ ~IntendedCommit
              /\ CloseSession /\ Refuse(sess.svc, "SERVICE_PENDING")
           \/ /\ ~AlreadyCommitted /\ ~pending /\ ReservedByThis
              /\ BeginApply("commit", Fingerprint(Reserved), CommitFields)
              /\ UNCHANGED request
           \/ /\ ~AlreadyCommitted /\ ~pending /\ ~ReservedByThis
              /\ CloseSession /\ Refuse(sess.svc, "RELEASE_SEQUENCE_RESERVED")
    /\ UNCHANGED durable
    /\ UNCHANGED <<lastTx, crashes>>

\* Mutant: abandoning also takes the committed sequence back.
AbandonFieldsLowering == [floor EXCEPT !.rev = @ + 1, !.com = @ - 1, !.active = None]

\* Mutant: abandoning returns the high-water mark to the committed sequence.
AbandonFieldsReturningMark ==
    [floor EXCEPT !.rev = @ + 1, !.high = floor.com, !.highMan = floor.comMan, !.active = None]

AbandonFields == [floor EXCEPT !.rev = @ + 1, !.active = None]

\* abandonApplicationSequence, by a recovery session, at the head's record.
AbandonApplicationSequence ==
    /\ sess # None /\ sess.mode = "recovery" /\ sess.pc \in {"retain", "publish"}
    /\ LET e == IF sess.pc = "retain" THEN Prepared ELSE Reserved
           pending == sess.mem # "stable" /\ hist[LatestRevision].intent # None
       IN  \/ /\ pending
              /\ BeginApply("abandon", Fingerprint(e),
                            hist[LatestRevision].intent.nextFloor)
           \/ /\ ~pending /\ floor.active # None
              /\ floor.rev + 2 * MaxTx + 1 <= MaxRev
              /\ floor.active.svc = sess.svc
              /\ SameRetainedIdentity(sess.svc, floor.active.fp, e)
              /\ BeginApply("abandon", Fingerprint(e), AbandonFields)
    /\ UNCHANGED durable
    /\ UNCHANGED <<request, lastTx, crashes>>

-----------------------------------------------------------------------------
(* applyFloor: the six writes, resumed from the phase the session loaded.  *)

Applying(mem) == sess # None /\ sess.pc = "apply" /\ sess.mem = mem

\* The pending revision must be the very action and transaction record.
DescriptorMatches ==
    LET h == hist[LatestRevision]
    IN  h.action = sess.op.action /\ h.fp = sess.op.fp /\ h.svc = sess.svc

ApplyRefused ==
    /\ sess # None /\ sess.pc = "apply" /\ sess.mem # "stable"
    /\ ~DescriptorMatches
    /\ CloseSession /\ Refuse(sess.svc, "SERVICE_PENDING")
    /\ UNCHANGED durable
    /\ UNCHANGED <<lastTx, crashes>>

WriteHistoryDirectory ==
    /\ Applying("stable")
    /\ sess.op.next.rev = floor.rev + 1
    /\ hist' = [hist EXCEPT ![floor.rev + 1] =
                  [action |-> sess.op.action, fp |-> sess.op.fp, svc |-> sess.svc,
                   intent |-> None, state |-> None]]
    /\ sess' = [sess EXCEPT !.mem = "directory-intent"]
    /\ UNCHANGED <<floor, witness, journal, head, retained, published, deployed,
                   request, lastTx, crashes>>

WriteIntent ==
    /\ Applying("directory-intent") /\ DescriptorMatches
    /\ sess.op.next.rev = floor.rev + 1
    /\ hist' = [hist EXCEPT ![floor.rev + 1].intent =
                  [prevFloor |-> floor, prevWitness |-> witness,
                   nextFloor |-> sess.op.next]]
    /\ sess' = [sess EXCEPT !.mem = "before"]
    /\ UNCHANGED <<floor, witness, journal, head, retained, published, deployed,
                   request, lastTx, crashes>>

PendingIntent == hist[LatestRevision].intent

\* Mutant: the floor first, its witness after it.
WriteIntentWitnessLast ==
    /\ Applying("before") /\ DescriptorMatches
    /\ floor' = PendingIntent.nextFloor
    /\ sess' = [sess EXCEPT !.mem = "witness-intent"]
    /\ UNCHANGED <<witness, hist, journal, head, retained, published, deployed,
                   request, lastTx, crashes>>

WriteIntentWitness ==
    /\ Applying("before") /\ DescriptorMatches
    /\ witness' = IntendedWitness(hist[LatestRevision])
    /\ sess' = [sess EXCEPT !.mem = "witness-intent"]
    /\ UNCHANGED <<floor, hist, journal, head, retained, published, deployed,
                   request, lastTx, crashes>>

WriteFloor ==
    /\ Applying("witness-intent") /\ DescriptorMatches
    /\ floor' = PendingIntent.nextFloor
    /\ sess' = [sess EXCEPT !.mem = "floor-intent"]
    /\ UNCHANGED <<witness, hist, journal, head, retained, published, deployed,
                   request, lastTx, crashes>>

WriteStableWitness ==
    /\ Applying("floor-intent") /\ DescriptorMatches
    /\ witness' = StableWitness(PendingIntent.nextFloor)
    /\ sess' = [sess EXCEPT !.mem = "stable-unrecorded"]
    /\ UNCHANGED <<floor, hist, journal, head, retained, published, deployed,
                   request, lastTx, crashes>>

AfterApply(s) ==
    CASE s.op.action = "reserve" -> [s EXCEPT !.pc = "append", !.phase = "sequence-reserved"]
      [] s.op.action = "commit" -> [s EXCEPT !.pc = "append", !.phase = "release-published"]
      [] s.op.action = "abandon" -> [s EXCEPT !.pc = "done"]

WriteHistoryState ==
    /\ Applying("stable-unrecorded") /\ DescriptorMatches
    /\ hist' = [hist EXCEPT ![LatestRevision].state =
                  [floor |-> PendingIntent.nextFloor, witness |-> StableWitness(PendingIntent.nextFloor)]]
    /\ sess' = AfterApply([sess EXCEPT !.mem = "stable"])
    /\ UNCHANGED <<floor, witness, journal, head, retained, published, deployed,
                   request, lastTx, crashes>>

-----------------------------------------------------------------------------
\* The platform half of the transaction (module ServiceLifecycle), then the
\* committed record.
FinishTransaction ==
    /\ sess # None /\ sess.pc = "finish"
    /\ sess' = [sess EXCEPT !.pc = "append", !.phase = "committed"]
    /\ UNCHANGED durable
    /\ UNCHANGED <<request, lastTx, crashes>>

Close ==
    /\ sess # None /\ sess.pc = "done"
    /\ CloseSession
    /\ Refuse(sess.svc, IF LastEntry(sess.svc).phase = "committed" THEN "ok" ELSE "abandoned")
    /\ UNCHANGED durable
    /\ UNCHANGED <<lastTx, crashes>>

\* The controller dies between two writes.
Crash ==
    /\ sess # None /\ crashes < MaxCrash
    /\ CloseSession /\ Refuse(sess.svc, "crashed")
    /\ crashes' = crashes + 1
    /\ UNCHANGED durable
    /\ UNCHANGED lastTx

\* The acquisition deadline: seen before and after each call into the store,
\* never inside one.
AcquisitionExpires ==
    /\ sess # None /\ crashes < MaxCrash
    /\ sess.mode = "mutation" /\ sess.pc \in {"retain", "reserve", "publish", "commit"}
    /\ CloseSession /\ Refuse(sess.svc, "SERVICE_ACQUISITION_DEADLINE_EXCEEDED")
    /\ crashes' = crashes + 1
    /\ UNCHANGED durable
    /\ UNCHANGED lastTx

SessionStep ==
    \/ AppendEntry \/ WriteHead \/ RetainEnvelope
    \/ ReserveApplicationSequence \/ PublishArtifact
    \/ ObserveApplicationPublication \/ CommitApplicationSequence
    \/ ApplyRefused \/ WriteHistoryDirectory \/ WriteIntent \/ WriteIntentWitness
    \/ WriteFloor \/ WriteStableWitness \/ WriteHistoryState
    \/ FinishTransaction \/ Close

Next ==
    \/ \E s \in Services, r \in Releases : Request(s, r)
    \/ \E s \in Services : OpenMutation(s) \/ OpenRecovery(s)
    \/ SessionStep
    \/ AbandonApplicationSequence
    \/ Crash
    \/ AcquisitionExpires

Spec == Init /\ [][Next]_vars

(* Recovery with the operation that was interrupted.                       *)
ReplayInterrupted ==
    /\ sess # None /\ sess.mode = "recovery" /\ LoadFloor # "stable"
    /\ \/ hist[LatestRevision].action = "reserve" /\ RetainEnvelope
       \/ hist[LatestRevision].action = "commit" /\ ObserveApplicationPublication
       \/ hist[LatestRevision].action = "abandon" /\ AbandonApplicationSequence

-----------------------------------------------------------------------------
(* Properties. *)

Floors ==
    [rev : Nat, high : Nat, highMan : Manifests \cup {None}, com : Nat,
     comMan : Manifests \cup {None}, comTx : Nat,
     active : [svc : Services, fp : Nat \X {"prepared"}, seq : Nat, man : Manifests]
              \cup {None}]

TypeOK ==
    /\ floor \in Floors
    /\ witness.state \in {"stable", "intent"}
    /\ DOMAIN hist = Revisions
    /\ \A s \in Services : head[s] \in Nat /\ deployed[s] \in Nat
    /\ published \subseteq Manifests
    /\ lastTx \in 0 .. MaxTx /\ crashes \in 0 .. MaxCrash

(* validateServiceSequenceFloor: what the comment in #reserve relies on.   *)
(* The committed sequence never passes the reserved high-water mark, and   *)
(* one sequence number names one manifest.                                 *)
FloorRelation ==
    /\ floor.com <= floor.high
    /\ floor.com = floor.high /\ floor.com > 0 => floor.comMan = floor.highMan

(* At every instant, so after a death between any two of the six writes,   *)
(* the next session can classify the floor, finds exactly the phase the    *)
(* writer believed, and finds facts that name one transaction only; and    *)
(* the short classification for services without metadata agrees.          *)
EveryCrashBoundaryRecoverable ==
    /\ LoadFloor # "manual"
    /\ GlobalFloorPending =
          (IF LoadFloor = "stable" /\ floor.active = None THEN "clean" ELSE "pending")
    /\ sess # None => sess.mem = LoadFloor
    /\ \A s \in Services :
          (\A b \in GlobalBindings : b[1] = s) => Cardinality(RecoveryBindings(s)) <= 1

(* The floor's commit is never ahead of the artifact: what the floor says  *)
(* is committed has been published, and its transaction reached the        *)
(* sequence-reserved record of its service's journal first.                *)
CommittedIsPublished ==
    floor.com > 0 =>
        /\ floor.comMan \in published
        /\ \E s \in Services : \E i \in DOMAIN journal[s] :
              /\ journal[s][i].tx.id = floor.comTx
              /\ journal[s][i].phase = "sequence-reserved"

(* The floor moves one revision at a time, never lowers a mark, and never  *)
(* gives a sequence number that was once reserved to another manifest.     *)
FloorOnlyRises ==
    [][/\ floor'.high >= floor.high
       /\ floor'.com >= floor.com
       /\ floor' # floor => floor'.rev = floor.rev + 1
       /\ floor'.high = floor.high => floor'.highMan = floor.highMan]_vars

(* The floor is moved only by the operation that its newest history        *)
(* directory names, of the service that holds the reservation: no other    *)
(* session, and no other operation of the same transaction, ever finishes  *)
(* or undoes an interrupted transition.                                    *)
OnlyNamedOperationMoves ==
    [][floor' # floor =>
         /\ floor.active # None => floor.active.svc = sess.svc
         /\ hist[LatestRevision].svc = sess.svc
         /\ hist[LatestRevision].fp = sess.op.fp
         /\ hist[LatestRevision].action = sess.op.action]_vars

(* An unfinished transition of the floor is eventually finished.           *)
PendingFloorSettles ==
    (LoadFloor # "stable") ~> (LoadFloor = "stable")

(* docs/adr/0006: an update advances beyond the SERVICE's own sequence, so *)
(* a sibling may reuse the same signed release: a service whose own        *)
(* release is older than a committed one is never told that the release    *)
(* does not advance.                                                       *)
SiblingMayReuse ==
    /\ sess # None /\ sess.pc = "reserve"
    /\ ReserveRefusal = "RELEASE_SEQUENCE_NOT_ADVANCING"
    => sess.tx.rel.seq <= deployed[sess.svc]

-----------------------------------------------------------------------------
=============================================================================
