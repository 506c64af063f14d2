----------------------------- MODULE DaemonInvoke -----------------------------
(***************************************************************************)
(* The life of INVOKE requests in the daemon: admission, the SDK ticket,   *)
(* cancellation, the terminal frame, containment when the websocket closes, *)
(* and the activity lease behind all of it (daemon/src/daemon.js, with     *)
(* request-id-fence.js, admission-budget.js, model-command.js and the owned *)
(* queue tickets of sdk-session.js).                                       *)
(*                                                                         *)
(* One working directory is served.  Its sessions come from the pool, which *)
(* keeps at most one that is not disposed of (SessionPool).  A step is one *)
(* message, one promise settlement or one timer; a handler runs from one   *)
(* await to the next.  Only the terminal frame of a send queue is modelled: *)
(* the frames before it can delay it or break the queue.                   *)
(***************************************************************************)
EXTENDS Naturals, FiniteSets

CONSTANTS
    MaxConn,        \* how many websockets the daemon opens, one after the other
    Request,        \* request ids a bot may use, and reuse
    Invocation,     \* INVOKE messages
    CancelId,       \* cancel ids
    MaxSession,     \* bound: SDK sessions, made one after the other
    MaxInFlight,    \* maxInFlightInvokes
    MaxRecords,     \* CANCELLATION_MAX_RECORDS
    Kinds,          \* the kinds of commands that are sent
    Unmanaged,      \* whether requests may name no binding, and take no lease
    Expiry,         \* bound: what the passing of time may sweep, pairs of a set of
                    \* request ids and a set of cancel ids
    MaxGateOps,     \* bound: concurrent gate answers of a request
    None            \* undefined

VARIABLES
    conn,             \* readyState of each websocket
    inv,              \* the handler of each INVOKE, with its cancellation record
    tombstones,       \* cancellationState.tombstones of each websocket
    receipts,         \* cancellationState.receipts of each websocket
    requestIds,       \* RequestIdFence.reservations
    inFlightInvokes,  \* AdmissionBudget.inFlightInvokes
    inFlight,         \* inFlightByRequestId
    session           \* SDK sessions: pool state, session.closed, retirement holds

vars == <<conn, inv, tombstones, receipts, requestIds, inFlightInvokes, inFlight, session>>

Conn == 1 .. MaxConn

Session == 1 .. MaxSession

\* admitting: awaiting admitReadyWorkload or pool.ensureSession
\* running:   awaiting ticket.result
\* retiring:  awaiting pool.retireSession in the catch block
\* sending:   awaiting the send of a terminal frame, inTry or in the catch block
\* done:      the finally block is over
Pc == {"admitting", "running", "retiring", "sending", "done"}

\* plain:     waits in the adapter's own queue
\* committed: the SDK accepted a live control, its handle is not there yet
\* sdk:       the SDK holds the control in its queue
Track == {"plain", "committed", "sdk"}

Outcome == {"not_owned", "already_terminal", "cancelled_before_start", "cancellation_pending"}

InvocationRecord ==
    [conn : Conn, req : Request, kind : Kinds, pc : Pc, inTry : BOOLEAN,
     phase : {"queued", "active", "terminal"}, revoked : BOOLEAN,
     revokedTicket : BOOLEAN, removalVerified : BOOLEAN, terminalSent : BOOLEAN,
     session : Session \cup {None},
     lease : {"none", "held", "released"},   \* in the lease registry
     local : BOOLEAN,                        \* variable activityLease is set
     rec : BOOLEAN,                          \* record.activityLease is set
     stage : {1, 2},                         \* which command of set_model
     ticket : {"none", "queued", "active", "terminal"}, track : Track,
     cancelled : BOOLEAN,                    \* cancellationRequested of the ticket
     result : {"none", "value", "revoked", "error"},
     exec : {"no", "running", "over"},       \* what the SDK really does
     ops : 0 .. MaxGateOps,                  \* request.gateOperations
     outbox : 0 .. 2, frames : 0 .. 2,       \* terminal frames: queued, written
     broken : BOOLEAN,                       \* sendQueue is rejected
     said : {"none", "cancelled", "other"}]

\* What a cancel id was answered, and the invocation that it met.
Receipt == [req : Request, outcome : Outcome, of : Invocation \cup {None}]

SdkSession == [st : {"unused", "live", "retiring", "disposed"}, closed : BOOLEAN,
               holds : SUBSET Invocation]

ASSUME InvokeAssumption ==
    /\ Kinds \subseteq {"prompt", "control", "set_model"}
    /\ Unmanaged \in BOOLEAN
    /\ MaxGateOps \in Nat
    /\ Expiry \subseteq (SUBSET Request) \X (SUBSET CancelId)
    /\ MaxConn \in Nat /\ MaxInFlight \in Nat \ {0} /\ MaxRecords \in Nat
    /\ MaxSession \in Nat
    /\ IsFiniteSet(Request) /\ IsFiniteSet(Invocation) /\ IsFiniteSet(CancelId)
    /\ None \notin Invocation \cup Nat
    /\ None \notin InvocationRecord /\ None \notin Receipt

TypeOK ==
    /\ conn \in [Conn -> {"unused", "open", "closing", "closed"}]
    /\ inv \in [Invocation -> InvocationRecord \cup {None}]
    /\ tombstones \in [Conn -> SUBSET Request]
    /\ receipts \in [Conn -> [CancelId -> Receipt \cup {None}]]
    /\ requestIds \subseteq Request
    /\ inFlightInvokes \in 0 .. MaxInFlight
    /\ inFlight \in [Request -> Invocation \cup {None}]
    /\ session \in [Session -> SdkSession]

Init ==
    /\ conn = [c \in Conn |-> "unused"]
    /\ inv = [i \in Invocation |-> None]
    /\ tombstones = [c \in Conn |-> {}]
    /\ receipts = [c \in Conn |-> [k \in CancelId |-> None]]
    /\ requestIds = {}
    /\ inFlightInvokes = 0
    /\ inFlight = [r \in Request |-> None]
    /\ session = [s \in Session |-> [st |-> "unused", closed |-> FALSE, holds |-> {}]]

Running(i) == inv[i] # None /\ inv[i].pc # "done"

\* cancellationState.records of websocket c
records(c) == {i \in Invocation : Running(i) /\ inv[i].conn = c}

-----------------------------------------------------------------------------
(* The terminal frame. *)

\* Mutant: a broken send queue accepts the next frame.
MutantEnqueue(x, what) ==
    [x EXCEPT !.outbox = @ + 1, !.said = what, !.broken = FALSE]

\* send(): an operation behind a rejected one is rejected as well.
enqueue(x, what) ==
    IF x.broken THEN x ELSE [x EXCEPT !.outbox = @ + 1, !.said = what]

sendInvokeTerminal(x) == enqueue([x EXCEPT !.phase = "terminal"], "other")

sendRevokedCancellationTerminal(x) ==
    IF x.terminalSent THEN x
    ELSE enqueue([x EXCEPT !.phase = "terminal", !.terminalSent = TRUE], "cancelled")

\* "if readyState is OPEN, await the revoked terminal; return"
returnRevoked(x) ==
    IF conn[x.conn] = "open"
    THEN [sendRevokedCancellationTerminal(x) EXCEPT !.pc = "sending"]
    ELSE [x EXCEPT !.pc = "done"]

sendTerminal(x, inTry) == [sendInvokeTerminal(x) EXCEPT !.pc = "sending", !.inTry = inTry]

cancellationRemovalIsVerified(x) == x.revoked /\ (x.revokedTicket => x.removalVerified)

\* The catch block after the retirement.
catchTail(x) ==
    IF cancellationRemovalIsVerified(x)
    THEN [returnRevoked(x) EXCEPT !.inTry = FALSE]
    ELSE sendTerminal(x, FALSE)

-----------------------------------------------------------------------------
(* Sessions and holds. *)

Reject(x) ==
    IF x.ticket \in {"queued", "active"}
    THEN [x EXCEPT !.ticket = "terminal", !.result = "error"] ELSE x

\* #closeAdapter on the sessions in S: every ticket is rejected, what the SDK
\* executes goes on.
closeAdapter(f, S) ==
    [j \in Invocation |-> IF f[j] # None /\ f[j].session \in S THEN Reject(f[j]) ELSE f[j]]

\* Mutant: a session that is retired already takes no further holds.
MutantRetired(S, H) ==
    [s \in Session |->
        IF s \in S /\ session[s].st = "live"
        THEN [st |-> "retiring", closed |-> TRUE, holds |-> H[s]]
        ELSE session[s]]

\* pool.retireSession(s, holds) for every s in S, where H[s] are the invocations
\* whose leases the holds release; a session already disposed of releases at once.
retired(S, H) ==
    [s \in Session |->
        IF s \in S /\ session[s].st # "disposed"
        THEN [st |-> "retiring", closed |-> TRUE, holds |-> session[s].holds \cup H[s]]
        ELSE session[s]]

\* session.dispose() without the pool, which finds the sessions closed later.
disposeDirectly(f, S) ==
    [s \in Session |-> IF s \in S THEN [f[s] EXCEPT !.closed = TRUE] ELSE f[s]]

retireTickets(f, S, H) ==
    LET g == closeAdapter(f, S)
        released == UNION {H[s] : s \in {t \in S : session[t].st = "disposed"}}
    IN  [j \in Invocation |->
            IF j \in released THEN [g[j] EXCEPT !.lease = "released"] ELSE g[j]]

\* Mutant: the finally block releases whatever the local variable holds.
MutantFinally(x) ==
    [x EXCEPT !.lease = IF x.local THEN "released" ELSE @, !.rec = FALSE,
              !.local = FALSE, !.phase = "terminal", !.inTry = FALSE,
              !.stage = 1, !.broken = FALSE, !.revoked = FALSE, !.revokedTicket = FALSE,
              !.removalVerified = FALSE, !.terminalSent = FALSE]

\* What the finally block does to the record: the lease is released unless the
\* close handler took it.  The handler's variables are gone.
finally(x) ==
    [x EXCEPT !.lease = IF x.rec = x.local /\ x.local THEN "released" ELSE @,
              !.rec = FALSE, !.local = FALSE, !.phase = "terminal", !.inTry = FALSE,
              !.stage = 1, !.broken = FALSE, !.revoked = FALSE, !.revokedTicket = FALSE,
              !.removalVerified = FALSE, !.terminalSent = FALSE]

\* Mutant: the slot of the budget is given back twice.
MutantContinue(i, f) ==
    LET over == f[i].pc = "done"
        r == f[i].req
    IN  /\ inv' = [f EXCEPT ![i] = IF over THEN finally(@) ELSE @]
        /\ requestIds' = IF over THEN requestIds \ {r} ELSE requestIds
        /\ inFlight' = IF over /\ inFlight[r] = i /\ f[i].ops = 0
                       THEN [inFlight EXCEPT ![r] = None] ELSE inFlight
        /\ tombstones' = IF over THEN [tombstones EXCEPT ![f[i].conn] = @ \cup {r}]
                                 ELSE tombstones
        /\ inFlightInvokes' = IF over THEN inFlightInvokes - 2 ELSE inFlightInvokes

\* The handler of i goes on with the records f; if it is over, the finally block
\* runs in the same step.
continue(i, f) ==
    LET over == f[i].pc = "done"
        r == f[i].req
    IN  /\ inv' = [f EXCEPT ![i] = IF over THEN finally(@) ELSE @]
        /\ requestIds' = IF over THEN requestIds \ {r} ELSE requestIds
        /\ inFlightInvokes' = IF over THEN inFlightInvokes - 1 ELSE inFlightInvokes
        /\ inFlight' = IF over /\ inFlight[r] = i /\ f[i].ops = 0
                       THEN [inFlight EXCEPT ![r] = None] ELSE inFlight
        /\ tombstones' = IF over THEN [tombstones EXCEPT ![f[i].conn] = @ \cup {r}]
                                 ELSE tombstones

\* Mutant: the session is retired, the lease stays with the handler.
MutantCaught(i, x, untrusted) ==
    IF x.session # None /\ (session[x.session].closed \/ untrusted)
    THEN LET H == [s \in Session |-> {}]
             y == [x EXCEPT !.pc = "retiring"]
         IN  /\ session' = retired({x.session}, H)
             /\ continue(i, retireTickets([inv EXCEPT ![i] = y], {x.session}, H))
    ELSE /\ continue(i, [inv EXCEPT ![i] = catchTail(x)])
         /\ UNCHANGED session

\* The catch block: a closed session, or a removal that cannot be trusted, is
\* retired with the lease as its hold before the failure is reported.
caught(i, x, untrusted) ==
    IF x.session # None /\ (session[x.session].closed \/ untrusted)
    THEN LET H == [s \in Session |-> IF s = x.session /\ x.local THEN {i} ELSE {}]
             y == [x EXCEPT !.local = FALSE, !.rec = FALSE, !.pc = "retiring"]
         IN  /\ session' = retired({x.session}, H)
             /\ continue(i, retireTickets([inv EXCEPT ![i] = y], {x.session}, H))
    ELSE /\ continue(i, [inv EXCEPT ![i] = catchTail(x)])
         /\ UNCHANGED session

-----------------------------------------------------------------------------
(* Websockets. *)

connectToBot(c) ==
    /\ conn[c] = "unused"
    /\ \A d \in 1 .. c - 1 : conn[d] = "closed"
    /\ conn' = [conn EXCEPT ![c] = "open"]
    /\ UNCHANGED <<inv, tombstones, receipts, requestIds, inFlightInvokes, inFlight, session>>

Hears(c) == conn[c] \in {"open", "closing"}

\* connection.close(), by either side.
startClose(c) ==
    /\ conn[c] = "open"
    /\ conn' = [conn EXCEPT ![c] = "closing"]
    /\ UNCHANGED <<inv, tombstones, receipts, requestIds, inFlightInvokes, inFlight, session>>

closePolicyViolation(c) == conn' = [conn EXCEPT ![c] = "closing"]

-----------------------------------------------------------------------------
(* Cancellation. *)

recordPhase(x) == IF x.phase = "queued" /\ x.ticket = "active" THEN "active" ELSE x.phase

\* Mutant: a queued-looking ticket counts as removed.
MutantRevocable(x) ==
    \/ x.ticket = "none"
    \/ x.ticket = "queued" /\ (x.track \in {"plain", "committed"} \/ ~x.cancelled)

\* Whether revokeCancellationBeforeStart succeeds: no ticket yet, or a ticket that
\* can still be removed.  handle.cancel() of the SDK fails once it has dequeued
\* the input, which is before the adapter hears of it.
revocable(x) ==
    \/ x.ticket = "none"
    \/ x.ticket = "queued" /\ x.track = "plain"
    \/ x.ticket = "queued" /\ x.track = "sdk" /\ ~x.cancelled /\ x.exec = "no"

revokeCancellationBeforeStart(x) ==
    CASE x.ticket = "none" -> [x EXCEPT !.revoked = TRUE]
      [] x.ticket # "none" /\ x.track = "plain" ->
            [x EXCEPT !.revoked = TRUE, !.revokedTicket = TRUE,
                      !.ticket = "terminal", !.result = "revoked"]
      [] OTHER -> [x EXCEPT !.revoked = TRUE, !.revokedTicket = TRUE, !.cancelled = TRUE]

\* Mutant: receipts are not counted.
MutantSlots(c, T, K) == Cardinality(records(c)) + Cardinality(tombstones[c] \ T)

\* Used slots of a websocket once T and K are swept.
slots(c, T, K) ==
    Cardinality(records(c)) + Cardinality(tombstones[c] \ T)
        + Cardinality({k \in CancelId \ K : receipts[c][k] # None})

\* sweepCancellationState: the tombstones T and the receipts K have expired.
sweep(c, T, K) ==
    [k \in CancelId |-> IF k \in K THEN None ELSE receipts[c][k]]

outcomeFor(c, r, T) ==
    LET own == {i \in records(c) : inv[i].req = r} IN
    IF own = {}
    THEN [i |-> None, outcome |-> IF r \in tombstones[c] \ T THEN "already_terminal"
                                                           ELSE "not_owned"]
    ELSE LET i == CHOOSE j \in own : TRUE
             x == inv[i]
         IN  [i |-> i, outcome |->
                CASE recordPhase(x) = "terminal" -> "already_terminal"
                  [] recordPhase(x) = "queued" /\ revocable(x) -> "cancelled_before_start"
                  [] OTHER -> "cancellation_pending"]

\* CANCEL_INVOKE with a cancel id that has no receipt.
cancelInvoke(c, k, r, T, K) ==
    LET o == outcomeFor(c, r, T)
        revoked == revokeCancellationBeforeStart(inv[o.i])
    IN  /\ Hears(c)
        /\ sweep(c, T, K)[k] = None
        /\ tombstones' = [tombstones EXCEPT ![c] = @ \ T]
        /\ UNCHANGED <<requestIds, inFlightInvokes, inFlight, session>>
        /\ IF slots(c, T, K) >= MaxRecords
           THEN /\ closePolicyViolation(c)
                /\ receipts' = [receipts EXCEPT ![c] = sweep(c, T, K)]
                /\ UNCHANGED inv
           ELSE /\ receipts' = [receipts EXCEPT ![c] = [sweep(c, T, K) EXCEPT ![k] =
                      [req |-> r, outcome |-> o.outcome, of |-> o.i]]]
                /\ inv' = IF o.outcome = "cancelled_before_start"
                          THEN [inv EXCEPT ![o.i] =
                                  IF revoked.revokedTicket THEN revoked
                                  ELSE sendRevokedCancellationTerminal(revoked)]
                          ELSE inv
                /\ UNCHANGED conn

\* The cancel id is known: the receipt is sent again, or it conflicts.
cancelConflicts(c, k, r) ==
    /\ Hears(c)
    /\ receipts[c][k] # None
    /\ receipts[c][k].req # r
    /\ closePolicyViolation(c)
    /\ UNCHANGED <<inv, tombstones, receipts, requestIds, inFlightInvokes, inFlight, session>>

\* Requests of websocket c that gate answers are routed to and that captured its
\* binding: a request without a lease has none.
Routed(c) == {r \in Request : /\ inFlight[r] # None
                              /\ inv[inFlight[r]].conn = c
                              /\ inv[inFlight[r]].lease # "none"}

\* Their sessions, which the binding fence disposes of.
fencedSessions(c) == {inv[inFlight[r]].session : r \in Routed(c)}

unrouted(c) == [r \in Request |-> IF r \in Routed(c) THEN None ELSE inFlight[r]]

\* Mutant: only work the adapter knows to be active is contained.
MutantContained(c) ==
    {i \in records(c) : inv[i].phase = "active" /\ inv[i].ticket = "active"}

\* Records whose sessions a close retires: those that cannot be revoked.
contained(c) ==
    {i \in records(c) : /\ recordPhase(inv[i]) # "terminal"
                        /\ ~(recordPhase(inv[i]) = "queued" /\ revocable(inv[i]))
                        /\ inv[i].session # None}

\* The close event: containCancellationOnClose; then receipt bindings are retired
\* and their requests fenced, other bindings stay.
closed(c, receipt) ==
    LET C == contained(c)
        S == {inv[i].session : i \in C}
        F == IF receipt THEN fencedSessions(c) ELSE {}
        H == [s \in Session |-> {i \in C : inv[i].session = s /\ inv[i].rec}]
        f == [i \in Invocation |->
                CASE i \in C -> [inv[i] EXCEPT !.rec = FALSE]
                  [] /\ i \in records(c) \ C
                     /\ recordPhase(inv[i]) = "queued" /\ revocable(inv[i]) ->
                        revokeCancellationBeforeStart(inv[i])
                  [] OTHER -> inv[i]]
    IN  /\ Hears(c)
        /\ conn' = [conn EXCEPT ![c] = "closed"]
        /\ session' = disposeDirectly(retired(S, H), F)
        /\ inv' = closeAdapter(retireTickets(f, S, H), F)
        /\ inFlight' = IF receipt THEN unrouted(c) ELSE inFlight
        /\ UNCHANGED <<tombstones, receipts, requestIds, inFlightInvokes>>

-----------------------------------------------------------------------------
(* INVOKE. *)

NewRecord(c, r, kind) ==
    [conn |-> c, req |-> r, kind |-> kind, pc |-> "admitting", inTry |-> TRUE,
     phase |-> "queued", revoked |-> FALSE, revokedTicket |-> FALSE,
     removalVerified |-> FALSE, terminalSent |-> FALSE, session |-> None,
     lease |-> "none", local |-> FALSE, rec |-> FALSE, stage |-> 1,
     ticket |-> "none", track |-> "plain", cancelled |-> FALSE, result |-> "none",
     exec |-> "no", ops |-> 0, outbox |-> 0, frames |-> 0, broken |-> FALSE,
     said |-> "none"]

\* Mutant: only the tombstones of this websocket protect a request id.
MutantFresh(c, r, T) == r \notin tombstones[c] \ T

\* Whether requestIds.tryAcquire succeeds and no tombstone is left.
fresh(c, r, T) == r \notin requestIds /\ r \notin tombstones[c] \ T

\* Up to the first await.  At the budget's limit only a terminal failure is sent;
\* a request id in use and a full cancellation state close the websocket.
invoke(i, c, r, kind, T, K) ==
    /\ Hears(c)
    /\ inv[i] = None
    /\ fresh(c, r, T) => inFlightInvokes < MaxInFlight
    /\ tombstones' = [tombstones EXCEPT ![c] = @ \ T]
    /\ receipts' = [receipts EXCEPT ![c] = sweep(c, T, K)]
    /\ UNCHANGED <<inFlight, session>>
    /\ IF fresh(c, r, T) /\ slots(c, T, K) < MaxRecords
       THEN /\ inv' = [inv EXCEPT ![i] = NewRecord(c, r, kind)]
            /\ requestIds' = requestIds \cup {r}
            /\ inFlightInvokes' = inFlightInvokes + 1
            /\ UNCHANGED conn
       ELSE /\ closePolicyViolation(c)
            /\ UNCHANGED <<inv, requestIds, inFlightInvokes>>

\* admitReadyWorkload takes the activity lease before it awaits the pool.
acquireActivity(i) ==
    /\ Running(i) /\ inv[i].pc = "admitting" /\ inv[i].lease = "none"
    /\ inv' = [inv EXCEPT ![i].lease = "held"]
    /\ UNCHANGED <<conn, tombstones, receipts, requestIds, inFlightInvokes, inFlight, session>>

\* Admission fails and has released its lease, or ensureSession throws for an
\* unmanaged request, which has none.
admissionFails(i, thrown) ==
    LET x == [inv[i] EXCEPT !.lease = IF @ = "held" THEN "released" ELSE @] IN
    /\ Running(i) /\ inv[i].pc = "admitting"
    /\ thrown => Unmanaged /\ inv[i].lease = "none"
    /\ continue(i, [inv EXCEPT ![i] =
          IF thrown THEN catchTail(x)
          ELSE IF x.revoked THEN returnRevoked(x) ELSE sendTerminal(x, TRUE)])
    /\ UNCHANGED <<conn, receipts, session>>

\* The inventory rotated while the session was made: the session is retired with
\* the lease as its hold, and admission fails.
admissionRotated(i, s) ==
    LET x == inv[i]
        H == [t \in Session |-> IF t = s THEN {i} ELSE {}]
    IN  /\ Running(i) /\ x.pc = "admitting" /\ x.lease = "held"
        /\ session[s].st \in {"live", "retiring"}
        /\ session' = retired({s}, H)
        /\ continue(i, retireTickets([inv EXCEPT ![i] =
              IF x.revoked THEN returnRevoked(x) ELSE sendTerminal(x, TRUE)], {s}, H))
        /\ UNCHANGED <<conn, receipts>>

\* sendOwned: a session that is closed rejects the ticket.
newTicket(x, s) ==
    IF session[s].closed
    THEN [x EXCEPT !.ticket = "terminal", !.result = "error"]
    ELSE [x EXCEPT !.ticket = "queued", !.result = "none"]

\* ensureSession returned s.  A revoked request ends here; so does one whose
\* binding is not current any more.
admitted(i, s, current) ==
    LET hasLease == inv[i].lease = "held"
        x == [inv[i] EXCEPT !.local = hasLease, !.rec = hasLease, !.session = s]
    IN  /\ Running(i) /\ inv[i].pc = "admitting"
        /\ session[s].st \in {"live", "retiring"}
        /\ ~current => hasLease
        /\ hasLease \/ Unmanaged
        /\ UNCHANGED <<conn, receipts, session>>
        /\ IF x.revoked
           THEN continue(i, [inv EXCEPT ![i] =
                   returnRevoked(IF hasLease THEN [x EXCEPT !.session = None] ELSE x)])
           ELSE IF ~current
           THEN continue(i, [inv EXCEPT ![i] = sendTerminal(x, TRUE)])
           ELSE /\ inv' = [inv EXCEPT ![i] = [newTicket(x, s) EXCEPT !.pc = "running"]]
                /\ inFlight' = [inFlight EXCEPT ![x.req] = i]
                /\ UNCHANGED <<tombstones, requestIds, inFlightInvokes>>

\* Mutant: the result of the first command is not examined.
MutantFirstOfTwo(x) == x.kind = "set_model" /\ x.stage = 1 /\ x.result # "error"

\* setSessionModel goes on with its second command: the list was not revoked.
firstOfTwo(x) == x.kind = "set_model" /\ x.stage = 1 /\ x.result = "value"

\* ticket.result is settled.
ticketSettled(i) ==
    LET x == inv[i]
        y == [x EXCEPT !.removalVerified = @ \/ (x.revokedTicket /\ x.result = "revoked")]
        untrusted == x.revokedTicket /\ x.result = "value"
    IN  /\ Running(i) /\ x.pc = "running" /\ x.ticket = "terminal"
        /\ UNCHANGED <<conn, receipts>>
        /\ CASE firstOfTwo(x) /\ ~untrusted ->
                  /\ continue(i, [inv EXCEPT ![i] = [newTicket(y, x.session) EXCEPT !.stage = 2]])
                  /\ UNCHANGED session
             [] x.kind # "set_model" /\ x.result = "revoked" ->
                  /\ continue(i, [inv EXCEPT ![i] = returnRevoked(y)])
                  /\ UNCHANGED session
             [] ~firstOfTwo(x) /\ ~untrusted /\ x.result = "value" ->
                  /\ continue(i, [inv EXCEPT ![i] = sendTerminal(y, TRUE)])
                  /\ UNCHANGED session
             [] OTHER -> caught(i, y, untrusted)

\* Mutant: the handler awaits the disposal itself.
MutantRetirementAwaited(i) ==
    /\ Running(i) /\ inv[i].pc = "retiring"
    /\ session[inv[i].session].st = "disposed"
    /\ continue(i, [inv EXCEPT ![i] = catchTail(inv[i])])
    /\ UNCHANGED <<conn, receipts, session>>

\* The bounded wait for the retirement is over, however it ended.
retirementAwaited(i) ==
    /\ Running(i) /\ inv[i].pc = "retiring"
    /\ continue(i, [inv EXCEPT ![i] = catchTail(inv[i])])
    /\ UNCHANGED <<conn, receipts, session>>

\* The send of the terminal frame is settled; in the try block a failed one is
\* caught.
sendSettled(i) ==
    LET x == inv[i] IN
    /\ Running(i) /\ x.pc = "sending" /\ x.outbox = 0
    /\ UNCHANGED <<conn, receipts>>
    /\ IF x.broken /\ x.inTry
       THEN caught(i, x, FALSE)
       ELSE /\ continue(i, [inv EXCEPT ![i].pc = "done"])
            /\ UNCHANGED session

\* The next terminal frame of the send queue.  The queue is rejected if an earlier
\* frame could not be sent or the websocket is not open, or if connection.send()
\* reports an error, which does not mean that the frame was not written.
transmit(i, ok, written) ==
    /\ inv[i] # None /\ inv[i].outbox > 0
    /\ written => conn[inv[i].conn] = "open"
    /\ ok => written
    /\ inv' = [inv EXCEPT ![i].outbox = IF ok THEN @ - 1 ELSE 0,
                          ![i].frames = IF written THEN @ + 1 ELSE @,
                          ![i].broken = ~ok]
    /\ UNCHANGED <<conn, tombstones, receipts, requestIds, inFlightInvokes, inFlight, session>>

-----------------------------------------------------------------------------
(* ANSWER: a gate operation keeps the routing entry of its request. *)

\* Mutant: the operation removes whatever entry the request id has.
MutantReleaseSettledGateOwner(i, r) == inv[i].pc = "done"

releaseSettledGateOwner(i, r) == inv[i].pc = "done" /\ inFlight[r] = i

answer(c, r) ==
    LET i == inFlight[r] IN
    /\ Hears(c)
    /\ i # None
    /\ inv[i].conn = c
    /\ inv[i].ops < MaxGateOps
    /\ inv' = [inv EXCEPT ![i].ops = @ + 1]
    /\ UNCHANGED <<conn, tombstones, receipts, requestIds, inFlightInvokes, inFlight, session>>

answered(i) ==
    /\ inv[i] # None /\ inv[i].ops > 0
    /\ inv' = [inv EXCEPT ![i].ops = @ - 1]
    /\ inFlight' = IF inv[i].ops = 1 /\ releaseSettledGateOwner(i, inv[i].req)
                   THEN [inFlight EXCEPT ![inv[i].req] = None] ELSE inFlight
    /\ UNCHANGED <<conn, tombstones, receipts, requestIds, inFlightInvokes, session>>

-----------------------------------------------------------------------------
(* The SDK session: its queue, its execution, its end. *)

Sibling(i) == {j \in Invocation \ {i} : inv[j] # None /\ inv[j].session = inv[i].session}

SdkUnchanged ==
    UNCHANGED <<conn, tombstones, receipts, requestIds, inFlightInvokes, inFlight>>

Queued(i, track) == inv[i] # None /\ inv[i].ticket = "queued" /\ inv[i].track = track

Activate(x) == [x EXCEPT !.ticket = "active", !.exec = "running",
                         !.phase = IF @ = "queued" THEN "active" ELSE @]

\* The serial queue starts a ticket: nothing else of the session runs.
activate(i) ==
    /\ Queued(i, "plain")
    /\ \A j \in Sibling(i) : /\ inv[j].ticket # "active"
                             /\ inv[j].ticket = "queued" => inv[j].track = "plain"
    /\ inv' = [inv EXCEPT ![i] = Activate(@)]
    /\ SdkUnchanged /\ UNCHANGED session

\* A live control is submitted to the SDK while a run is active ...
submit(i) ==
    /\ Queued(i, "plain") /\ inv[i].kind = "control"
    /\ \E j \in Sibling(i) : inv[j].ticket = "active"
    /\ inv' = [inv EXCEPT ![i].track = "committed"]
    /\ SdkUnchanged /\ UNCHANGED session

\* ... its handle arrives ...
submitted(i) ==
    /\ Queued(i, "committed")
    /\ inv' = [inv EXCEPT ![i].track = "sdk"]
    /\ SdkUnchanged /\ UNCHANGED session

\* ... the SDK dequeues it, perhaps after the adapter closed and gave it up ...
dequeue(i) ==
    /\ inv[i] # None /\ inv[i].exec = "no" /\ ~inv[i].cancelled
    /\ \/ Queued(i, "sdk")
       \/ /\ inv[i].track # "plain" /\ inv[i].result = "error"
          /\ session[inv[i].session].st # "disposed"
    /\ inv' = [inv EXCEPT ![i].exec = "running"]
    /\ SdkUnchanged /\ UNCHANGED session

\* ... and the adapter hears of it.
executionReceipt(i) ==
    /\ Queued(i, "sdk") /\ inv[i].exec = "running"
    /\ inv' = [inv EXCEPT ![i] = Activate(@)]
    /\ SdkUnchanged /\ UNCHANGED session

\* The SDK confirms that it removed the control.
removalReceipt(i) ==
    /\ Queued(i, "sdk") /\ inv[i].exec = "no"
    /\ inv' = [inv EXCEPT ![i].ticket = "terminal", ![i].result = "revoked"]
    /\ SdkUnchanged /\ UNCHANGED session

\* Mutant: the adapter believes that the input was removed.
MutantCancelledInputExecuted(i) ==
    /\ Queued(i, "sdk") /\ inv[i].cancelled
    /\ inv' = [inv EXCEPT ![i].exec = "running", ![i].ticket = "terminal",
                          ![i].result = "revoked"]
    /\ SdkUnchanged /\ UNCHANGED session

\* The SDK executes an input whose cancellation it had granted: the adapter
\* rejects the ticket and closes.
cancelledInputExecuted(i) ==
    LET s == inv[i].session IN
    /\ Queued(i, "sdk") /\ inv[i].cancelled
    /\ inv' = closeAdapter([inv EXCEPT ![i].exec = "running"], {s})
    /\ session' = [session EXCEPT ![s].closed = TRUE]
    /\ SdkUnchanged

\* The execution ends, well or not.
executed(i, result) ==
    /\ inv[i] # None /\ inv[i].ticket = "active"
    /\ inv' = [inv EXCEPT ![i].ticket = "terminal", ![i].result = result, ![i].exec = "over"]
    /\ SdkUnchanged /\ UNCHANGED session

Busy(s) == \E i \in Invocation : /\ inv[i] # None /\ inv[i].session = s
                                 /\ inv[i].ticket \in {"queued", "active"}

\* The binding is replaced: its requests lose their routing entries, and their
\* sessions are disposed of behind the back of the pool.
invalidateBindingRequests(c) ==
    /\ Hears(c)
    /\ Routed(c) # {}
    /\ inFlight' = unrouted(c)
    /\ inv' = closeAdapter(inv, fencedSessions(c))
    /\ session' = disposeDirectly(session, fencedSessions(c))
    /\ UNCHANGED <<conn, tombstones, receipts, requestIds, inFlightInvokes>>

\* An idle, hard-cap or gate timer of the session fires, or its contract is broken.
adapterCloses(s) ==
    /\ session[s].st = "live" /\ ~session[s].closed /\ Busy(s)
    /\ session' = [session EXCEPT ![s].closed = TRUE]
    /\ inv' = closeAdapter(inv, {s})
    /\ SdkUnchanged

\* The pool: a session is created when the last one is disposed of, retired when
\* it is closed or idle, and disposed of, which releases the holds.
createSession(s) ==
    /\ session[s].st = "unused"
    /\ \A t \in 1 .. s - 1 : session[t].st = "disposed"
    /\ session' = [session EXCEPT ![s].st = "live"]
    /\ SdkUnchanged /\ UNCHANGED inv

poolRetires(s) ==
    /\ session[s].st = "live" /\ (session[s].closed \/ ~Busy(s))
    /\ session' = [session EXCEPT ![s].st = "retiring", ![s].closed = TRUE]
    /\ SdkUnchanged /\ UNCHANGED inv

disposed(s) ==
    /\ session[s].st = "retiring"
    /\ session' = [session EXCEPT ![s].st = "disposed", ![s].holds = {}]
    /\ inv' = [i \in Invocation |->
          IF inv[i] = None THEN None
          ELSE [inv[i] EXCEPT
                  !.lease = IF i \in session[s].holds THEN "released" ELSE @,
                  !.exec = IF inv[i].session = s /\ @ = "running" THEN "over" ELSE @]]
    /\ SdkUnchanged

-----------------------------------------------------------------------------
Handler(i) ==
    \/ \E thrown \in BOOLEAN : admissionFails(i, thrown)
    \/ \E s \in Session : admissionRotated(i, s)
    \/ \E s \in Session, current \in BOOLEAN : admitted(i, s, current)
    \/ ticketSettled(i)
    \/ retirementAwaited(i)
    \/ sendSettled(i)

Transmits(i) == \E ok, written \in BOOLEAN : transmit(i, ok, written)

Sdk(i) ==
    \/ activate(i) \/ submit(i) \/ submitted(i) \/ dequeue(i) \/ executionReceipt(i)
    \/ removalReceipt(i) \/ cancelledInputExecuted(i)
    \/ \E result \in {"value", "error"} : executed(i, result)

Next ==
    \/ \E c \in Conn : \/ connectToBot(c) \/ startClose(c) \/ invalidateBindingRequests(c)
                       \/ \E receipt \in BOOLEAN : closed(c, receipt)
    \/ \E c \in Conn, k \in CancelId, r \in Request : cancelConflicts(c, k, r)
    \/ \E c \in Conn, k \in CancelId, r \in Request, e \in Expiry :
          cancelInvoke(c, k, r, e[1], e[2])
    \/ \E i \in Invocation, c \in Conn, r \in Request, kind \in Kinds, e \in Expiry :
          invoke(i, c, r, kind, e[1], e[2])
    \/ \E c \in Conn, r \in Request : answer(c, r)
    \/ \E i \in Invocation : \/ acquireActivity(i) \/ Handler(i) \/ Transmits(i)
                             \/ answered(i) \/ Sdk(i)
    \/ \E s \in Session : adapterCloses(s) \/ createSession(s) \/ poolRetires(s) \/ disposed(s)

Spec == Init /\ [][Next]_vars

-----------------------------------------------------------------------------
(* Properties *)

Started == {i \in Invocation : inv[i] # None}

\* The bot never sees two terminal frames of one request, however cancellation,
\* completion, failure and a broken send queue interleave.
OneTerminalFrame == \A i \in Started : inv[i].frames + inv[i].outbox <= 1

\* A request that is reported as cancelled was never executed and never will be,
\* also if the SDK executes an input whose cancellation it had granted.
CancelledNeverRan == \A i \in Started : inv[i].said = "cancelled" => inv[i].exec = "no"

\* A request with the receipt cancelled_before_start does not run; should the SDK
\* break its word, the session is closed.
ReceiptHonoured ==
    \A c \in Conn, k \in CancelId :
        LET r == receipts[c][k] IN
        r # None /\ r.outcome = "cancelled_before_start" =>
            \/ inv[r.of].exec = "no"
            \/ session[inv[r.of].session].closed

\* The activity lease is not released while the SDK may still execute the
\* request: not by the handler, not by a close, not by a retirement.
LeaseUntilQuiet == \A i \in Started : inv[i].lease = "released" => inv[i].exec # "running"

\* A lease that survives its handler is a hold of a session being retired, and
\* nobody but the disposal of that session releases it: not the handler whose
\* ticket settled just before the close took its lease away.
LeaseNotLost ==
    /\ \A i \in Started : inv[i].pc = "done" /\ inv[i].lease = "held" =>
          \E s \in Session : i \in session[s].holds
    /\ \A s \in Session : \A i \in session[s].holds : inv[i].lease = "held"

\* Gate answers of a request that runs reach it: its routing entry is its own,
\* whatever an earlier request with the same id still has to clean up.  Only the
\* binding fence takes the entry away, and then the request ends.
AnswersReachRequest ==
    \A i \in Started : inv[i].pc = "running" =>
        \/ inFlight[inv[i].req] = i
        \/ inFlight[inv[i].req] = None /\ session[inv[i].session].closed
                                     /\ inv[i].ticket = "terminal"

\* The request-id fence and the budget are exact: one handler per request id,
\* and every handler gives both back.
BudgetExact ==
    /\ inFlightInvokes = Cardinality({i \in Invocation : Running(i)})
    /\ requestIds = {inv[i].req : i \in {j \in Invocation : Running(j)}}
    /\ Cardinality(requestIds) = inFlightInvokes

\* Records, tombstones and receipts of a websocket stay within their limit.
CancellationStateBounded ==
    \A c \in Conn :
        Cardinality(records(c)) + Cardinality(tombstones[c])
            + Cardinality({k \in CancelId : receipts[c][k] # None}) <= MaxRecords

\* After the close event no request of the websocket starts on a session that is
\* not being torn down.
NoStartAfterClose ==
    [][\A i \in Started :
          /\ conn[inv[i].conn] = "closed"
          /\ inv[i].exec # "running" /\ inv'[i].exec = "running"
          => session'[inv'[i].session].closed]_vars

\* Continuations and timers run, and the SDK answers or its timers fire; its
\* disposal may hang for ever.
HandlerFairness ==
    /\ \A i \in Invocation : WF_vars(Handler(i)) /\ WF_vars(Transmits(i)) /\ WF_vars(answered(i))
    /\ \A s \in Session : WF_vars(adapterCloses(s))

\* The disposal ends: what LeasesReleased assumes.
DisposalFairness == \A s \in Session : WF_vars(disposed(s))

HandlerSpec == Spec /\ HandlerFairness

\* Every handler ends and frees its request id and its slot, even if no disposal
\* ever does.
HandlersEnd == \A i \in Invocation : inv[i] # None ~> (inv[i] # None /\ inv[i].pc = "done")

\* If disposals end, every activity lease is released, by the handler or as a hold.
LeasesReleased ==
    DisposalFairness => \A i \in Invocation :
        ((inv[i] # None /\ inv[i].lease = "held")
            ~> (inv[i] # None /\ inv[i].lease = "released"))

\* What the bot is told of a cancelled request is true and said once: the facts
\* above about terminal frames, receipts and execution, with the tables of the
\* websocket inside their limit (invoke handler, cancel handler, sendTerminal).
CancellationHonoured ==
    /\ TypeOK /\ OneTerminalFrame /\ CancelledNeverRan /\ ReceiptHonoured
    /\ CancellationStateBounded

\* The activity lease of a request lasts exactly as long as its session may run
\* it: never less, and never for good (finally of the INVOKE handler, close).
LeaseKept == LeaseUntilQuiet /\ LeaseNotLost

\* Every INVOKE ends: its handler in any case, its lease if disposals do.
InvokesEnd == HandlersEnd /\ LeasesReleased
=============================================================================
