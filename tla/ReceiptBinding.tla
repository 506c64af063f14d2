---------------------------- MODULE ReceiptBinding ----------------------------
(***************************************************************************)
(* Receipt bindings of the daemon (daemon/src/daemon.js, with              *)
(* inventory-floor.js, workspace-adopted-lease-candidate.js and the lease  *)
(* registry): a BIND_WORKSPACE is proved by two reads of the inventory on  *)
(* disk, a positive proof is adopted by the lease registry, an INVOKE is   *)
(* admitted against it, and a poll or an admission that finds the inventory *)
(* changed takes everything back.                                          *)
(*                                                                         *)
(* The four generations of an authority are two here: `fence` stands for   *)
(* authorityEpoch and fenceGeneration, `mapping` for mappingGeneration and *)
(* workspaceGeneration; `ident` stands for its other fields.  Epochs are   *)
(* only ever compared for equality, so each holder of one has a flag that  *)
(* says whether the epoch has moved since.                                 *)
(***************************************************************************)
EXTENDS Integers, FiniteSets

CONSTANTS
    Workspace,
    BindingId,
    BindAuthority,   \* receiptAuthority of the messages: [workspace, fence, mapping, ident]
    Inventory,       \* contents the file may have: [generation, fingerprint, workspaces]
    Admission,       \* concurrent admissions; each takes one lease at most
    Entry,           \* heap cells of the lease registry
    MaxSocket,       \* bound: sockets, opened one after the other
    MaxBindings,     \* MAX_BINDINGS_PER_SOCKET
    Poller,          \* the poll, as a reader
    Missing,         \* a read with another status than "present"
    Failed,          \* a read that throws
    None

Socket == 1 .. MaxSocket      \* socketGeneration

ASSUME ReceiptAssumption ==
    /\ MaxSocket \in Nat /\ MaxBindings \in Nat
    /\ \A a \in BindAuthority : /\ a.workspace \in Workspace
                                /\ a.fence \in Nat /\ a.mapping \in Nat
    /\ \A i \in Inventory : i.generation \in Nat /\ i.workspaces \subseteq Workspace
    /\ Missing \notin Inventory /\ Failed \notin Inventory /\ None \notin Inventory

VARIABLES
    disk,        \* the accepted inventory, or Missing
    read,        \* the read in progress: inventoryReadMutex allows one
    key,         \* priorKey of the inventory floor
    sock,        \* readiness state of each socket
    bind,        \* binding states: objects, also after they left the maps
    admit,       \* admitReadyWorkload calls
    snapshot,    \* inventorySnapshot
    polling,     \* inventoryPollTimer is set
    poll,        \* runInventoryPoll
    authorities, activities, entries, leases    \* the lease registry

registry == <<authorities, activities, entries, leases>>

vars == <<disk, read, key, sock, bind, admit, snapshot, polling, poll, registry>>

\* {...receiptAuthority(binding), ...proof, socketGeneration, bindingId}; the
\* binding fingerprint is a function of the authority and the inventory.
invokeCandidate(a, s, b, i) ==
    [workspace |-> a.workspace,
     gen |-> [authorityEpoch |-> a.fence, fenceGeneration |-> a.fence,
              mappingGeneration |-> a.mapping, workspaceGeneration |-> a.mapping,
              inventoryGeneration |-> i.generation, socketGeneration |-> s],
     ident |-> a.ident, route |-> None, inventory |-> i.fingerprint, binding |-> b]

ReceiptCandidate ==
    {invokeCandidate(a, s, b, i) :
        a \in BindAuthority, s \in Socket, b \in BindingId, i \in Inventory}

Registry == INSTANCE LeaseRegistry WITH
    Candidate <- ReceiptCandidate, Lease <- Admission,
    MaxWorkspaces <- Cardinality(Workspace), MaxActiveWorkspaces <- Cardinality(Workspace)

\* buildAdoptedLeaseCandidate: the candidate of the lifecycle operations.
adoptedCandidate(a, s, b, i) ==
    [invokeCandidate(a, s, b, i) EXCEPT !.gen["inventoryGeneration"] = Registry!Undefined,
                                        !.inventory = None]

FloorRec == [authority : BindAuthority, inventory : Inventory \cup {None}]

ReadRec == [who : (Socket \X BindingId) \cup Admission \cup {Poller},
            result : Inventory \cup {Missing, Failed}]

SockRec == [up : {"unused", "open", "closing", "closed"},
            committed : BOOLEAN, receiptCommitted : BOOLEAN,
            floor : [Workspace -> FloorRec \cup {None}],
            bindings : SUBSET BindingId, retired : SUBSET BindingId]

BindRec == [authority : BindAuthority, invalidated : BOOLEAN,
            phase : {"pending", "positive", "negative"},
            proof : Inventory \cup {None},
            pc : {"first", "second", "done"},
            first : Inventory \cup {None},
            moved : BOOLEAN,         \* the epoch is not first.epoch any more
            cascaded : BOOLEAN]      \* an inventory cascade began since BIND

AdmitRec == [pc : {"verify", "pool", "publish", "served", "retiring"},
             of : Socket \X BindingId,
             cascaded : BOOLEAN]     \* providerEpoch # admissionEpoch

ASSUME NoneAssumption ==
    /\ None \notin FloorRec /\ None \notin BindRec /\ None \notin AdmitRec
    /\ None \notin Registry!Authority

TypeOK ==
    /\ disk \in Inventory \cup {Missing}
    /\ key \in Inventory \cup {Missing}
    /\ read \in ReadRec \cup {None}
    /\ sock \in [Socket -> SockRec]
    /\ bind \in [Socket \X BindingId -> BindRec \cup {None}]
    /\ admit \in [Admission -> AdmitRec \cup {None}]
    /\ snapshot \in [inventory : Inventory, moved : BOOLEAN] \cup {None}
    /\ polling \in BOOLEAN
    /\ poll \in {"idle", "reading", "cascading"}
    /\ authorities \in [Workspace -> Registry!Authority \cup {None}]

Init ==
    /\ disk \in Inventory \cup {Missing}
    /\ key = disk                             \* initialInventoryRead
    /\ read = None
    /\ sock = [s \in Socket |-> [up |-> "unused", committed |-> FALSE,
                                 receiptCommitted |-> FALSE,
                                 floor |-> [w \in Workspace |-> None],
                                 bindings |-> {}, retired |-> {}]]
    /\ bind = [o \in Socket \X BindingId |-> None]
    /\ admit = [a \in Admission |-> None]
    /\ snapshot = None
    /\ polling = FALSE
    /\ poll = "idle"
    /\ Registry!Init

cascading == poll = "cascading"       \* inventoryCascading

Connected(s) == sock[s].up \in {"open", "closing"}     \* connections.has

Objects(s, B) == {<<s, b>> : b \in B}

candidate(o) == invokeCandidate(bind[o].authority, o[1], o[2], bind[o].proof)

-----------------------------------------------------------------------------
(* The inventory and its reads. *)

\* The native side accepts another inventory.
inventoryChanges(d) ==
    /\ d # disk
    /\ disk' = d
    /\ UNCHANGED <<read, key, sock, bind, admit, snapshot, polling, poll, registry>>

Awaits(who) ==
    \/ who = Poller /\ poll = "reading"
    \/ \E a \in Admission : who = a /\ admit[a] # None /\ admit[a].pc \in {"verify", "publish"}
    \/ \E o \in Socket \X BindingId : who = o /\ bind[o] # None /\ bind[o].pc # "done"

\* The file is read; what it says may be old when the reader goes on.
readAccepted(who, result) ==
    /\ read = None
    /\ Awaits(who)
    /\ result \in {disk, Missing, Failed}
    /\ read' = [who |-> who, result |-> result]
    /\ UNCHANGED <<disk, key, sock, bind, admit, snapshot, polling, poll, registry>>

\* Reader who goes on with the result; a result other than the last moves the epoch.
Resumes(who) ==
    /\ read # None /\ read.who = who
    /\ read' = None
    /\ key' = IF read.result = Failed THEN key ELSE read.result
    /\ UNCHANGED disk

EpochMoves == read.result \notin {Failed, key}

\* Binding states once the read in progress has been observed.
moved(f) ==
    [o \in DOMAIN f |-> IF f[o] # None /\ f[o].pc = "second" /\ EpochMoves
                        THEN [f[o] EXCEPT !.moved = TRUE] ELSE f[o]]

snapshotMoved == IF snapshot = None \/ ~EpochMoves THEN snapshot
                 ELSE [snapshot EXCEPT !.moved = TRUE]

-----------------------------------------------------------------------------
(* Sockets. *)

\* A socket registers; the last one is closed.
registerOk(s) ==
    /\ sock[s].up = "unused"
    /\ \A t \in 1 .. s - 1 : sock[t].up = "closed"
    /\ sock' = [sock EXCEPT ![s].up = "open", ![s].committed = TRUE,
                            ![s].receiptCommitted = TRUE]
    /\ polling' = TRUE
    /\ UNCHANGED <<disk, read, key, bind, admit, snapshot, poll, registry>>

closing(f, s) == [f EXCEPT ![s].up = "closing"]

\* invalidateBindingRequests for the bindings in O.
invalidated(f, O) ==
    [o \in DOMAIN f |-> IF o \in O THEN [f[o] EXCEPT !.invalidated = TRUE] ELSE f[o]]

\* workspaceLeases.retireBinding for each of the bindings in O that has a proof;
\* one that is not the adopted authority of its workspace is refused.
retireBindings(O) ==
    LET adopted == {o \in O : bind[o].proof # None /\
                        authorities[bind[o].authority.workspace]
                            = Registry!requireAuthority(candidate(o))}
        W == {bind[o].authority.workspace : o \in adopted}
    IN  /\ authorities' = [w \in Workspace |-> IF w \in W THEN None ELSE authorities[w]]
        /\ Registry!Invalidate(W)
        /\ UNCHANGED leases

\* Mutant: the registry keeps the authorities of a closed socket.
MutantClosed(s) ==
    LET O == Objects(s, sock[s].bindings)
    IN  /\ Connected(s)
        /\ sock' = [sock EXCEPT ![s].up = "closed", ![s].committed = FALSE,
                                ![s].receiptCommitted = FALSE,
                                ![s].bindings = {}, ![s].retired = {}]
        /\ bind' = invalidated(bind, O)
        /\ polling' = FALSE /\ snapshot' = None
        /\ UNCHANGED <<disk, read, key, admit, poll, registry>>

\* The close event.  The bindings of a socket that a cascade has fenced stay in
\* the map.
closed(s) ==
    LET O == Objects(s, sock[s].bindings)
        receipt == sock[s].receiptCommitted
    IN  /\ Connected(s)
        /\ sock' = [sock EXCEPT ![s].up = "closed", ![s].committed = FALSE,
                                ![s].receiptCommitted = FALSE,
                                ![s].bindings = IF receipt THEN {} ELSE @,
                                ![s].retired = IF receipt THEN {} ELSE @]
        /\ bind' = IF receipt THEN invalidated(bind, O) ELSE bind
        /\ IF receipt THEN retireBindings(O) ELSE UNCHANGED registry
        /\ polling' = FALSE /\ snapshot' = None
        /\ UNCHANGED <<disk, read, key, admit, poll>>

-----------------------------------------------------------------------------
(* BIND_WORKSPACE and UNBIND_WORKSPACE. *)

regressed(a, floor) == a.fence < floor.fence \/ a.mapping < floor.mapping

generationAdvanced(a, floor) == a.fence > floor.fence \/ a.mapping > floor.mapping

OfWorkspace(s, w) == {b \in sock[s].bindings : bind[<<s, b>>].authority.workspace = w}

\* Mutant: a second binding of the same authority is let in.
MutantReservable(s, a) ==
    LET floor == sock[s].floor[a.workspace] IN
    \/ floor = None
    \/ generationAdvanced(a, floor.authority) /\ ~regressed(a, floor.authority)
    \/ a = floor.authority

\* reserveReceiptAuthorityFloor returns true.
reservable(s, a) ==
    LET floor == sock[s].floor[a.workspace] IN
    \/ floor = None
    \/ generationAdvanced(a, floor.authority) /\ ~regressed(a, floor.authority)
    \/ a = floor.authority /\ OfWorkspace(s, a.workspace) = {}

\* The bindings an advanced generation retires.
superseded(s, a) ==
    LET floor == sock[s].floor[a.workspace] IN
    IF floor # None /\ generationAdvanced(a, floor.authority)
    THEN OfWorkspace(s, a.workspace) ELSE {}

retireSuperseded(f, s, B) ==
    [f EXCEPT ![s].bindings = @ \ B, ![s].retired = @ \cup B]

NewBinding(a) ==
    [authority |-> a, invalidated |-> FALSE, phase |-> "pending", proof |-> None,
     pc |-> "first", first |-> None, moved |-> FALSE, cascaded |-> FALSE]

\* Mutant: the floor is lowered again.
MutantReserved(s, b, a) ==
    [retireSuperseded(sock, s, superseded(s, a)) EXCEPT
        ![s].bindings = @ \cup {b},
        ![s].floor[a.workspace] = [authority |-> a, inventory |-> None]]

reserved(s, b, a) ==
    LET floor == sock[s].floor[a.workspace] IN
    [retireSuperseded(sock, s, superseded(s, a)) EXCEPT
        ![s].bindings = @ \cup {b},
        ![s].floor[a.workspace] =
            [authority |-> a, inventory |-> IF floor = None THEN None ELSE floor.inventory]]

\* Up to the first await.  A binding id that is known is refused if it is retired
\* or names something else; otherwise at most its BIND_OK is sent again.
acceptReceiptBinding(s, b, a) ==
    LET known == sock[s].bindings \cup sock[s].retired
        O == Objects(s, superseded(s, a))
        fits == Cardinality(known) < MaxBindings /\ reservable(s, a)
    IN  /\ Connected(s) /\ sock[s].receiptCommitted
        /\ ~(b \in sock[s].bindings /\ bind[<<s, b>>].authority = a)
        /\ UNCHANGED <<disk, read, key, admit, snapshot, polling, poll>>
        /\ IF b \notin known /\ fits
           THEN /\ sock' = reserved(s, b, a)
                /\ bind' = [invalidated(bind, O) EXCEPT ![<<s, b>>] = NewBinding(a)]
                /\ retireBindings(O)
           ELSE /\ sock' = closing(sock, s)
                /\ UNCHANGED <<bind, registry>>

currentReceiptBinding(o) ==
    /\ sock[o[1]].receiptCommitted
    /\ Connected(o[1])
    /\ o[2] \in sock[o[1]].bindings
    /\ ~bind[o].invalidated

ownsReceiptAuthorityFloor(o) ==
    LET floor == sock[o[1]].floor[bind[o].authority.workspace] IN
    floor # None /\ floor.authority = bind[o].authority

\* The binding was replaced, or its socket is gone: the handler returns; one that
\* does not own the floor any more is retired first.
bindReturns(o) ==
    LET lost == currentReceiptBinding(o) /\ ~ownsReceiptAuthorityFloor(o)
    IN  /\ ~currentReceiptBinding(o) \/ lost
        /\ bind' = [moved(IF lost THEN invalidated(bind, {o}) ELSE bind)
                      EXCEPT ![o].pc = "done"]
        /\ sock' = IF lost THEN retireSuperseded(sock, o[1], {o[2]}) ELSE sock
        /\ snapshot' = snapshotMoved
        /\ UNCHANGED registry

negative(o) ==
    /\ bind' = [moved(bind) EXCEPT ![o].pc = "done", ![o].phase = "negative"]
    /\ snapshot' = snapshotMoved
    /\ UNCHANGED registry

\* Mutant: the status of the read is not looked at.
MutantFirstRead(o) ==
    /\ bind[o] # None /\ bind[o].pc = "first"
    /\ Resumes(o)
    /\ UNCHANGED <<admit, polling, poll, registry, sock>>
    /\ currentReceiptBinding(o)
    /\ bind' = [moved(bind) EXCEPT ![o].pc = "second", ![o].first = read.result]
    /\ snapshot' = snapshotMoved

\* The first read is back.
firstRead(o) ==
    /\ bind[o] # None /\ bind[o].pc = "first"
    /\ Resumes(o)
    /\ UNCHANGED <<admit, polling, poll>>
    /\ \/ /\ currentReceiptBinding(o) => read.result # Failed
          /\ bindReturns(o)
       \/ /\ currentReceiptBinding(o)
          /\ read.result = Failed \/ ownsReceiptAuthorityFloor(o)
          /\ UNCHANGED sock
          /\ IF read.result \in Inventory
             THEN /\ bind' = [moved(bind) EXCEPT ![o].pc = "second", ![o].first = read.result]
                  /\ snapshot' = snapshotMoved
                  /\ UNCHANGED registry
             ELSE negative(o)

\* acceptReceiptInventoryFloor returns true.
accepts(floor, i) ==
    \/ floor.inventory = None
    \/ i.generation > floor.inventory.generation
    \/ i = floor.inventory

adopts(c) ==
    LET a == Registry!requireAuthority(c)
        previous == authorities[c.workspace]
    IN  \/ previous = None \/ Registry!sameAuthority(previous, a)
        \/ /\ ~Registry!regresses(previous, a) /\ Registry!advances(previous, a)
           /\ Registry!authorityChanged(previous, a) => Registry!mappingAdvanced(previous, a)

\* Mutant: the answer of the registry is not looked at.
MutantProved(o, i) ==
    LET c == invokeCandidate(bind[o].authority, o[1], o[2], i)
        w == bind[o].authority.workspace
    IN  /\ sock' = [sock EXCEPT ![o[1]].floor[w].inventory = i]
        /\ IF w \in i.workspaces
           THEN /\ bind' = [moved(bind) EXCEPT ![o].pc = "done", ![o].phase = "positive",
                                               ![o].proof = i]
                /\ snapshot' = IF snapshot = None THEN [inventory |-> i, moved |-> FALSE]
                                                  ELSE snapshotMoved
                /\ IF authorities[w] = Registry!requireAuthority(c) \/ ~adopts(c)
                   THEN UNCHANGED registry ELSE Registry!adoptBinding(c)
           ELSE negative(o)

\* The second read agrees with the first: the proof is adopted, BIND_OK is sent.
proved(o, i) ==
    LET c == invokeCandidate(bind[o].authority, o[1], o[2], i)
        w == bind[o].authority.workspace
    IN  /\ sock' = [sock EXCEPT ![o[1]].floor[w].inventory = i]
        /\ IF w \in i.workspaces /\ adopts(c)
           THEN /\ bind' = [moved(bind) EXCEPT ![o].pc = "done", ![o].phase = "positive",
                                               ![o].proof = i]
                /\ snapshot' = IF snapshot = None THEN [inventory |-> i, moved |-> FALSE]
                                                  ELSE snapshotMoved
                /\ IF authorities[w] = Registry!requireAuthority(c)
                   THEN UNCHANGED registry ELSE Registry!adoptBinding(c)
           ELSE negative(o)

\* The second read is back.
secondRead(o) ==
    LET i == bind[o].first
        floor == sock[o[1]].floor[bind[o].authority.workspace]
        agrees == read.result = i /\ ~bind[o].moved /\ ~EpochMoves /\ accepts(floor, i)
    IN  /\ bind[o] # None /\ bind[o].pc = "second"
        /\ Resumes(o)
        /\ UNCHANGED <<admit, polling, poll>>
        /\ \/ bindReturns(o)
           \/ /\ currentReceiptBinding(o) /\ ownsReceiptAuthorityFloor(o)
              /\ IF agrees THEN proved(o, i) ELSE negative(o) /\ UNCHANGED sock

\* An unknown binding id, or a session that cannot be retired, closes the socket.
unbindReceiptBinding(s, b, fails) ==
    LET o == <<s, b>> IN
    /\ Connected(s) /\ sock[s].receiptCommitted
    /\ b \in sock[s].bindings \/ fails
    /\ b \in sock[s].bindings /\ fails => bind[o].proof # None
    /\ sock' = LET f == IF b \in sock[s].bindings THEN retireSuperseded(sock, s, {b}) ELSE sock
               IN  IF fails THEN closing(f, s) ELSE f
    /\ IF b \in sock[s].bindings
       THEN bind' = invalidated(bind, {o}) /\ retireBindings({o})
       ELSE UNCHANGED <<bind, registry>>
    /\ UNCHANGED <<disk, read, key, admit, snapshot, polling, poll>>

-----------------------------------------------------------------------------
(* Admission of an INVOKE. *)

Idle(f, a) == [f EXCEPT ![a] = None]

\* readinessRejection lets only a promoted binding through, which has a proof.
admitReadyWorkload(a, o) ==
    /\ admit[a] = None
    /\ Connected(o[1]) /\ sock[o[1]].committed
    /\ o[2] \in sock[o[1]].bindings
    /\ bind[o].phase = "positive" /\ bind[o].proof # None
    /\ admit' = [admit EXCEPT ![a] = [pc |-> "verify", of |-> o, cascaded |-> FALSE]]
    /\ UNCHANGED <<disk, read, key, sock, bind, snapshot, polling, poll, registry>>

rotated(a) ==
    \/ cascading \/ admit[a].cascaded
    \/ read.result # bind[admit[a].of].proof

\* The read before admission is back.  A binding whose inventory is stale is
\* invalidated; one that lost its proof meanwhile makes the admission throw.
\* Otherwise the lease is taken, unless the registry refuses.
verified(a, refused) ==
    LET o == admit[a].of IN
    /\ admit[a] # None /\ admit[a].pc = "verify"
    /\ Resumes(a)
    /\ snapshot' = snapshotMoved
    /\ UNCHANGED <<sock, polling, poll>>
    /\ IF rotated(a) \/ refused
       THEN /\ admit' = Idle(admit, a)
            /\ bind' = IF rotated(a) /\ bind[o].proof # None
                       THEN [moved(invalidated(bind, {o})) EXCEPT
                               ![o].phase = "negative", ![o].proof = None]
                       ELSE moved(bind)
            /\ UNCHANGED registry
       ELSE /\ admit' = [admit EXCEPT ![a].pc = "pool"]
            /\ bind' = moved(bind)
            /\ \E e \in Entry : Registry!acquireActivity(a, candidate(o), FALSE, e)

\* pool.ensureSession is over; if it threw, the lease is released.
ensured(a, thrown) ==
    /\ admit[a] # None /\ admit[a].pc = "pool"
    /\ IF thrown
       THEN admit' = Idle(admit, a) /\ Registry!release(a)
       ELSE admit' = [admit EXCEPT ![a].pc = "publish"] /\ UNCHANGED registry
    /\ UNCHANGED <<disk, read, key, sock, bind, snapshot, polling, poll>>

currentBindingState(o) ==
    /\ sock[o[1]].committed
    /\ o[2] \in sock[o[1]].bindings
    /\ ~bind[o].invalidated
    /\ bind[o].proof # None

\* The read after the session was made is back.  After a rotation the lease goes
\* to the session's retirement.
published(a) ==
    LET o == admit[a].of IN
    /\ admit[a] # None /\ admit[a].pc = "publish"
    /\ Resumes(a)
    /\ bind' = moved(bind) /\ snapshot' = snapshotMoved
    /\ UNCHANGED <<sock, polling, poll>>
    /\ IF rotated(a)
       THEN admit' = [admit EXCEPT ![a].pc = "retiring"] /\ UNCHANGED registry
       ELSE IF Registry!isCurrent(a) /\ currentBindingState(o)
       THEN admit' = [admit EXCEPT ![a].pc = "served"] /\ UNCHANGED registry
       ELSE admit' = Idle(admit, a) /\ Registry!release(a)

\* The request is over, or the retirement of the session.
released(a) ==
    /\ admit[a] # None /\ admit[a].pc \in {"served", "retiring"}
    /\ admit' = Idle(admit, a)
    /\ Registry!release(a)
    /\ UNCHANGED <<disk, read, key, sock, bind, snapshot, polling, poll>>

-----------------------------------------------------------------------------
(* The poll and the cascade. *)

\* collectCommittedReceiptProofs
committedProofs ==
    {bind[o].proof : o \in {p \in Socket \X BindingId :
        /\ Connected(p[1]) /\ sock[p[1]].committed /\ sock[p[1]].receiptCommitted
        /\ p[2] \in sock[p[1]].bindings}} \ {None}

hasActiveReceiptBindings ==
    \E s \in Socket : /\ Connected(s) /\ sock[s].committed /\ sock[s].receiptCommitted
                      /\ sock[s].bindings # {}

\* Mutant: the sockets stay committed while sessions are disposed of.
MutantInvalidationCascade ==
    LET O == UNION {Objects(s, sock[s].bindings) : s \in {t \in Socket : Connected(t)}}
    IN  /\ poll' = "cascading"
        /\ snapshot' = None
        /\ Registry!invalidateAll
        /\ UNCHANGED sock
        /\ bind' = [o \in DOMAIN bind |->
              IF bind[o] = None THEN None
              ELSE IF o \in O
              THEN [bind[o] EXCEPT !.phase = "negative", !.proof = None, !.cascaded = TRUE]
              ELSE [bind[o] EXCEPT !.cascaded = TRUE]]
        /\ admit' = [a \in Admission |->
              IF admit[a] = None THEN None ELSE [admit[a] EXCEPT !.cascaded = TRUE]]

\* cascadeInventoryInvalidation up to the await of the disposals.
cascadeInventoryInvalidation ==
    LET O == UNION {Objects(s, sock[s].bindings) : s \in {t \in Socket : Connected(t)}}
    IN  /\ poll' = "cascading"
        /\ snapshot' = None
        /\ Registry!invalidateAll
        /\ sock' = [s \in Socket |->
              IF Connected(s) THEN [sock[s] EXCEPT !.receiptCommitted = FALSE] ELSE sock[s]]
        /\ bind' = [o \in DOMAIN bind |->
              IF bind[o] = None THEN None
              ELSE IF o \in O
              THEN [bind[o] EXCEPT !.invalidated = TRUE, !.phase = "negative",
                                   !.proof = None, !.cascaded = TRUE]
              ELSE [bind[o] EXCEPT !.cascaded = TRUE]]
        /\ admit' = [a \in Admission |->
              IF admit[a] = None THEN None ELSE [admit[a] EXCEPT !.cascaded = TRUE]]

\* ... and after it: every socket there is now is closed.
cascadeEnds ==
    /\ cascading
    /\ poll' = "idle"
    /\ sock' = [s \in Socket |->
          IF Connected(s)
          THEN [sock[s] EXCEPT !.committed = FALSE, !.receiptCommitted = FALSE, !.up = "closing"]
          ELSE sock[s]]
    /\ polling' = FALSE /\ snapshot' = None
    /\ UNCHANGED <<disk, read, key, bind, admit, registry>>

\* A tick of the timer: the snapshot may have expired.
runInventoryPoll(expired) ==
    /\ polling /\ poll = "idle"
    /\ UNCHANGED <<disk, read, key, polling>>
    /\ IF ~hasActiveReceiptBindings
       THEN /\ ~expired /\ snapshot # None
            /\ snapshot' = None
            /\ UNCHANGED <<sock, bind, admit, poll, registry>>
       ELSE IF expired
       THEN snapshot # None /\ cascadeInventoryInvalidation
       ELSE /\ poll' = "reading"
            /\ UNCHANGED <<sock, bind, admit, snapshot, registry>>

\* Whether the read of the poll shows a change.
drifted ==
    \/ read.result \notin Inventory
    \/ \E i \in committedProofs : i # read.result
    \/ snapshot # None /\ (snapshot.moved \/ EpochMoves \/ snapshot.inventory # read.result)

\* Mutant: a read that fails is left to the next tick.
MutantPolled ==
    /\ poll = "reading"
    /\ Resumes(Poller)
    /\ UNCHANGED polling
    /\ IF drifted /\ read.result \in Inventory
       THEN cascadeInventoryInvalidation
       ELSE /\ poll' = "idle"
            /\ bind' = moved(bind) /\ snapshot' = snapshotMoved
            /\ UNCHANGED <<sock, admit, registry>>

polled ==
    /\ poll = "reading"
    /\ Resumes(Poller)
    /\ UNCHANGED polling
    /\ IF drifted
       THEN cascadeInventoryInvalidation
       ELSE /\ poll' = "idle"
            /\ snapshot' = [inventory |-> read.result, moved |-> FALSE]
            /\ bind' = moved(bind)
            /\ UNCHANGED <<sock, admit, registry>>

-----------------------------------------------------------------------------
Reads == \E who \in (Socket \X BindingId) \cup Admission \cup {Poller} :
            \E result \in {disk, Missing, Failed} : readAccepted(who, result)

BindSteps == \E o \in Socket \X BindingId : firstRead(o) \/ secondRead(o)

Polls == polled \/ \E expired \in BOOLEAN : runInventoryPoll(expired)

Admissions(a) ==
    \/ \E refused \in BOOLEAN : verified(a, refused)
    \/ \E thrown \in BOOLEAN : ensured(a, thrown)
    \/ published(a)
    \/ released(a)

Next ==
    \/ \E d \in Inventory \cup {Missing} : inventoryChanges(d)
    \/ Reads
    \/ \E s \in Socket : registerOk(s) \/ closed(s)
    \/ \E s \in Socket, b \in BindingId, a \in BindAuthority : acceptReceiptBinding(s, b, a)
    \/ \E s \in Socket, b \in BindingId, fails \in BOOLEAN : unbindReceiptBinding(s, b, fails)
    \/ BindSteps
    \/ \E a \in Admission, o \in Socket \X BindingId : admitReadyWorkload(a, o)
    \/ \E a \in Admission : Admissions(a)
    \/ Polls
    \/ cascadeEnds

Spec == Init /\ [][Next]_vars

-----------------------------------------------------------------------------
(* Properties *)

Bound(o) == o[2] \in sock[o[1]].bindings

\* No two bindings of a socket are for the same workspace, and each one holds
\* the floor of its workspace: reserveReceiptAuthorityFloor keeps this across
\* successors, retirements and handlers that are still reading.
OneBindingPerWorkspace ==
    \A s \in Socket : \A b \in sock[s].bindings :
        /\ \A d \in sock[s].bindings :
              bind[<<s, b>>].authority.workspace = bind[<<s, d>>].authority.workspace => b = d
        /\ ownsReceiptAuthorityFloor(<<s, b>>)

\* The proof a binding has is that of the floor, and on a socket in service the
\* lease registry has adopted exactly this proof.
ProofIsAdopted ==
    \A o \in Socket \X BindingId :
        /\ Bound(o) /\ Connected(o[1]) /\ sock[o[1]].receiptCommitted
        /\ bind[o].proof # None
        => /\ sock[o[1]].floor[bind[o].authority.workspace].inventory = bind[o].proof
           /\ authorities[bind[o].authority.workspace] = Registry!requireAuthority(candidate(o))

\* A bind that was under way when a cascade began never gets a proof, and no bind
\* does on a socket the cascade found.
NoProofAcrossCascade ==
    [][\A o \in Socket \X BindingId :
          bind[o] # None /\ bind[o].proof = None /\ bind'[o].proof # None =>
              ~bind[o].cascaded /\ sock[o[1]].receiptCommitted]_vars

\* The floor of a workspace never moves back on a socket.
FloorMovesForward ==
    [][\A s \in Socket, w \in Workspace :
          LET f == sock[s].floor[w]
              g == sock'[s].floor[w]
          IN  f # None =>
                /\ g # None
                /\ ~regressed(g.authority, f.authority)
                /\ f.inventory # None =>
                      g.inventory # None /\ g.inventory.generation >= f.inventory.generation]_vars

\* Whatever ends a binding that has a proof, UNBIND, a successor, the close of
\* its socket or a cascade, fences the leases of its requests in the registry.
CurrentLeaseIsBound ==
    \A a \in Admission :
        admit[a] # None /\ Registry!Held(a) /\ Registry!isCurrent(a)
            /\ bind[admit[a].of].proof # None =>
        Bound(admit[a].of) /\ ~bind[admit[a].of].invalidated

\* Reads end, continuations and the timer run, and the disposals a cascade waits
\* for are bounded by the session pool.
Fairness ==
    /\ WF_vars(Reads)
    /\ WF_vars(BindSteps)
    /\ WF_vars(polled) /\ WF_vars(runInventoryPoll(FALSE))
    /\ WF_vars(cascadeEnds)
    /\ \A a \in Admission : WF_vars(Admissions(a))

FairSpec == Spec /\ Fairness

\* An inventory that has changed for good is noticed: no proof against another
\* inventory lasts on a socket in service.
DriftIsCaught ==
    \A i \in Inventory :
        (<>[](disk # i)) => <>[](i \notin committedProofs)

\* Bindings, floors and the lease registry agree between any two steps of binds,
\* unbinds, successors, reads of the inventory, admissions and cascades.
ReceiptsAgree == TypeOK /\ OneBindingPerWorkspace /\ ProofIsAdopted /\ CurrentLeaseIsBound

\* Proofs only ever move forward: the floor of a workspace does, and a bind that a
\* cascade overtook gets none.
ProofsMoveForward == FloorMovesForward /\ NoProofAcrossCascade

\* Not kept by the code: the lifecycle operations present the candidate the INVOKE
\* path presents (they leave out the proof).
OneFenceIdentity ==
    \A o \in Socket \X BindingId :
        bind[o] # None /\ bind[o].proof # None =>
            adoptedCandidate(bind[o].authority, o[1], o[2], bind[o].proof) = candidate(o)

\* Not kept by the code: once a binding is unbound, the registry has no authority
\* of it (an admission that finds the inventory stale drops the proof alone).
UnboundIsRetired ==
    \A s \in Socket : \A b \in sock[s].retired :
        LET a == authorities[bind[<<s, b>>].authority.workspace] IN
        a = None \/ a.binding # b \/ a.gen["socketGeneration"] # s
=============================================================================
