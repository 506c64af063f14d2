------------------------------ MODULE HostInvoke ------------------------------
(***************************************************************************)
(* The bot's side of an invocation (bot/src/host-registry.js): the pending *)
(* request and its timers, cancellation and its receipt, the tombstone that *)
(* outlives it, the presentation of workflow gates and their answers, the  *)
(* heartbeat, and what a lost, replaced or closed websocket does to them.  *)
(*                                                                         *)
(* One host.  The daemon is the environment: what it decides and what the  *)
(* bot then hears are one step, and since both directions of a websocket   *)
(* are first in first out, delaying the decision to the delivery loses no  *)
(* order of the bot's own steps.  It answers every frame at most once and  *)
(* sends one terminal for a request (DaemonInvoke).  A receipt whose entry *)
(* is gone changes nothing and is not a step.  A gate of a request is      *)
(* presented once (sdk-session.js #presentGate), so a presentation also    *)
(* names its gate.  Left out: texts, and the memory of receipts already    *)
(* consumed (#rememberGateReceipt), read only when a daemon repeats one.   *)
(***************************************************************************)
EXTENDS Naturals, FiniteSets

CONSTANTS
    MaxSock,        \* bound: websockets of the host, one after the other
    Req,            \* request ids, each used once (randomUUID)
    Gated,          \* bound: the requests whose run opens workflow gates
    MaxGate,        \* bound: gates of a request
    MaxAnswer,      \* bound: answers a user gives to a gate
    MaxPending,     \* V0_LIMITS.MAX_PENDING_PER_HOST
    MaxTombstones,  \* MAX_CANCEL_TOMBSTONES
    MaxAttempts     \* MAX_GATE_PRESENTATION_ATTEMPTS

ASSUME HostInvokeAssumption ==
    /\ MaxSock \in Nat /\ MaxGate \in Nat /\ MaxAnswer \in Nat
    /\ MaxPending \in Nat \ {0} /\ MaxTombstones \in Nat /\ MaxAttempts \in Nat \ {0}
    /\ IsFiniteSet(Req) /\ Gated \subseteq Req

VARIABLES
    sock,     \* readyState of each websocket
    current,  \* connections.get(hostId), 0 for none
    known,    \* the websockets that have a connectionIdentity
    beat,     \* heartbeatStates: the websockets with a ping timeout armed
    reg,      \* the registry's maps of requests and gates
    daemon,   \* what the daemon has done with a request
    refused,  \* websockets the bot closed for a protocol violation
    shut      \* HostRegistry.close() was called

vars == <<sock, current, known, beat, reg, daemon, refused, shut>>

Sock == 1 .. MaxSock
Gate == 1 .. MaxGate

\* A pending request.  live: it is in pendingRequests; stage: the state of
\* gatePresentation; timers: "receipt" and "terminal" share cancelReceiptTimer.
Pending ==
    [live : BOOLEAN, socket : Sock \cup {0},
     timers : SUBSET {"idle", "hard", "receipt", "terminal"},
     cancellation : {"none", "asked", "cancelled_before_start"},
     gatePending : BOOLEAN, gate : Gate \cup {0},
     stage : {"none", "awaiting_handle", "awaiting_receipt", "accepted"},
     abandoned : BOOLEAN, tries : 0 .. MaxAnswer]

NoPending ==
    [live |-> FALSE, socket |-> 0, timers |-> {}, cancellation |-> "none",
     gatePending |-> FALSE, gate |-> 0, stage |-> "none", abandoned |-> FALSE, tries |-> 0]

\* How invoke's promise was resolved.
Result == {"none", "waiting", "completed", "disposition", "disconnected", "unconfirmed"}

Registry ==
    [inv : [Req -> Pending],
     result : [Req -> Result],
     count : [Sock -> 0 .. Cardinality(Req)],  \* pendingCountBySocket
     tombstones : SUBSET Req,                  \* cancelTombstones
     presenting : SUBSET (Req \X Gate),        \* pendingGatePresentations
     abandoning : SUBSET (Req \X Gate),        \* pendingGateAbandons
     answering : SUBSET (Req \X Gate \X (1 .. MaxAnswer)),  \* pendingGateAnswers
     cancelling : SUBSET Req]                  \* cancel frames without an answer

TypeOK ==
    /\ sock \in [Sock -> {"none", "open", "closing", "closed"}]
    /\ current \in 0 .. MaxSock
    /\ known \subseteq Sock
    /\ beat \subseteq Sock
    /\ reg \in Registry
    /\ daemon \in [Req -> {"none", "owned", "revoked", "over"}]
    /\ refused \subseteq Sock
    /\ shut \in BOOLEAN

Init ==
    /\ sock = [s \in Sock |-> "none"]
    /\ current = 0
    /\ known = {}
    /\ beat = {}
    /\ reg = [inv |-> [r \in Req |-> NoPending], result |-> [r \in Req |-> "none"],
              count |-> [s \in Sock |-> 0], tombstones |-> {}, presenting |-> {},
              abandoning |-> {}, answering |-> {}, cancelling |-> {}]
    /\ daemon = [r \in Req |-> "none"]
    /\ refused = {}
    /\ shut = FALSE

-----------------------------------------------------------------------------
(* The methods of HostRegistry, as what they make of its maps g.           *)

Writable(g, r) == sock[g.inv[r].socket] = "open" /\ current = g.inv[r].socket

\* pending.settle: the promise resolves once, and the two wait timers stop.
settle(g, r, how) ==
    IF g.result[r] # "waiting" THEN g
    ELSE [g EXCEPT !.result[r] = how, !.inv[r].timers = @ \ {"idle", "hard"}]

\* Of a request that is no longer pending only the websocket matters: what a
\* late callback of its gate still sends names a gate the daemon retired.
Ended(p) == [NoPending EXCEPT !.socket = p.socket]

\* Mutant: keeps the slot.
deletePendingKeepingSlot(g, r) ==
    [g EXCEPT !.inv[r] = Ended(@),
              !.presenting = {a \in @ : a[1] # r}, !.cancelling = @ \ {r}]

deletePending(g, r) ==
    IF ~g.inv[r].live THEN g
    ELSE [g EXCEPT !.inv[r] = Ended(@),
                   !.presenting = {a \in @ : a[1] # r}, !.cancelling = @ \ {r},
                   !.count[g.inv[r].socket] = @ - 1]

\* A settled request keeps its slot when there is no room for its tombstone.
retireCancellationTracker(g, r) ==
    LET room == Cardinality(g.tombstones \ {r}) < MaxTombstones IN
    IF room THEN deletePending([g EXCEPT !.tombstones = @ \cup {r}], r)
    ELSE [g EXCEPT !.tombstones = @ \ {r}]

abandonGate(g, r) ==
    LET p == g.inv[r] IN
    IF \/ p.stage = "none" \/ p.abandoned \/ ~Writable(g, r)
       \/ Cardinality(g.abandoning) >= MaxAttempts
    THEN g
    ELSE [g EXCEPT !.inv[r].abandoned = TRUE,
                   !.abandoning = @ \cup {<<r, p.gate>>}]

\* Mutant: stops the wait timers and arms none for the receipt.
initiateCancellationUnbounded(g, r) ==
    IF ~g.inv[r].live \/ g.inv[r].cancellation # "none" THEN g
    ELSE IF ~Writable(g, r) THEN deletePending(settle(g, r, "disconnected"), r)
    ELSE [g EXCEPT !.inv[r].cancellation = "asked", !.inv[r].timers = @ \ {"idle", "hard"},
                   !.cancelling = @ \cup {r}]

initiateCancellation(g, r) ==
    IF ~g.inv[r].live \/ g.inv[r].cancellation # "none" THEN g
    ELSE IF ~Writable(g, r) THEN deletePending(settle(g, r, "disconnected"), r)
    ELSE LET h == IF g.inv[r].gatePending THEN abandonGate(g, r) ELSE g IN
         [h EXCEPT !.inv[r].cancellation = "asked",
                   !.inv[r].timers = (@ \ {"idle", "hard"}) \cup {"receipt"},
                   !.cancelling = @ \cup {r}]

\* A presentation that failed takes its request down.
presentationFailed(g, r) == initiateCancellation(abandonGate(g, r), r)

\* Mutant: an event re-arms the idle timer under an open gate.
armIdleTimerAlways(g, r) == [g EXCEPT !.inv[r].timers = @ \cup {"idle"}]

armIdleTimer(g, r) ==
    IF g.inv[r].gatePending THEN g ELSE [g EXCEPT !.inv[r].timers = @ \cup {"idle"}]

settleGateAnswer(g, a) == [g EXCEPT !.answering = @ \ {a}]

\* Mutant: returns a slot for requests that ended before, too.
failPendingForSocketAgain(g, s) ==
    LET mine == {r \in Req : g.inv[r].socket = s} IN
        [g EXCEPT !.inv = [r \in Req |-> IF r \in mine
                                         THEN Ended(@[r])
                                         ELSE @[r]],
                  !.count[s] = @ - Cardinality(mine), !.tombstones = @ \ mine]

\* The requests, tombstones, answers, presentations and abandonments of a
\* websocket that is gone.
failPendingForSocket(g, s) ==
    LET mine == {r \in Req : g.inv[r].socket = s}
        lost == {r \in mine : g.inv[r].live}
    IN  [g EXCEPT
           !.result = [r \in Req |-> IF r \in lost /\ @[r] = "waiting"
                                     THEN "disconnected" ELSE @[r]],
           !.inv = [r \in Req |-> IF r \in lost
                                  THEN Ended(@[r]) ELSE @[r]],
           !.count[s] = @ - Cardinality(lost),
           !.tombstones = @ \ mine,
           !.answering = {a \in @ : a[1] \notin mine},
           !.presenting = {a \in @ : a[1] \notin mine},
           !.abandoning = {a \in @ : a[1] \notin mine},
           !.cancelling = @ \ mine]

\* While the transport is writable each owned request is first revoked with a
\* cancel frame; failPendingForSocket then forgets what that left behind.
dropConnection(s) ==
    /\ reg' = failPendingForSocket(reg, s)
    /\ known' = known \ {s}
    /\ beat' = beat \ {s}

-----------------------------------------------------------------------------
(* Websockets.                                                             *)

\* A registration replaces the connection the host had.
register(s) ==
    /\ ~shut
    /\ sock[s] = "none"
    /\ \A t \in Sock : t < s => sock[t] # "none"
    /\ sock' = [t \in Sock |-> IF t = s THEN "open"
                               ELSE IF t = current THEN "closed" ELSE sock[t]]
    /\ current' = s
    /\ IF current = 0
       THEN known' = known \cup {s} /\ UNCHANGED <<reg, beat>>
       ELSE /\ reg' = failPendingForSocket(reg, current)
            /\ known' = (known \ {current}) \cup {s}
            /\ beat' = beat \ {current}
    /\ UNCHANGED <<daemon, refused, shut>>

\* The daemon's close frame: what is written from now on is lost, and the close
\* event is still to come.
closeFrame(s) ==
    /\ sock[s] = "open"
    /\ sock' = [sock EXCEPT ![s] = "closing"]
    /\ UNCHANGED <<current, known, beat, reg, daemon, refused, shut>>

\* The close event: the network, the daemon, or the close handshake.
closeEvent(s) ==
    /\ sock[s] \in {"open", "closing"}
    /\ sock' = [sock EXCEPT ![s] = "closed"]
    /\ current' = IF current = s THEN 0 ELSE current
    /\ dropConnection(s)
    /\ UNCHANGED <<daemon, refused, shut>>

sendHeartbeats(s) ==
    /\ ~shut /\ current = s /\ s \notin beat
    /\ \/ /\ sock[s] = "open"
          /\ beat' = beat \cup {s}
          /\ UNCHANGED <<current, known, reg>>
       \/ /\ sock[s] # "open"
          /\ current' = 0
          /\ dropConnection(s)
    /\ UNCHANGED <<sock, daemon, refused, shut>>

acceptPong(s) ==
    /\ s \in beat /\ sock[s] \in {"open", "closing"}
    /\ beat' = beat \ {s}
    /\ UNCHANGED <<sock, current, known, reg, daemon, refused, shut>>

\* No pong in time, or the ping could not be written.
expireHeartbeat(s) ==
    /\ s \in beat
    /\ sock' = [sock EXCEPT ![s] = "closed"]
    /\ current' = IF current = s THEN 0 ELSE current
    /\ dropConnection(s)
    /\ UNCHANGED <<daemon, refused, shut>>

\* Every websocket is dropped and closed, every answer settled.
close ==
    /\ ~shut
    /\ shut' = TRUE
    /\ current' = 0
    /\ sock' = [s \in Sock |-> IF sock[s] = "open" THEN "closing" ELSE sock[s]]
    /\ reg' = [(IF current = 0 THEN reg ELSE failPendingForSocket(reg, current))
                 EXCEPT !.answering = {}]
    /\ known' = known \ {current}
    /\ beat' = {}
    /\ UNCHANGED <<daemon, refused>>

\* socket.close(1008, ...)
closePolicyViolation(s) ==
    /\ sock' = [sock EXCEPT ![s] = IF @ = "open" THEN "closing" ELSE @]
    /\ refused' = refused \cup {s}

-----------------------------------------------------------------------------
(* What the bot's commands do.                                             *)

Quiet == UNCHANGED <<sock, current, known, beat, daemon, refused, shut>>

invoke(r) ==
    LET s == current IN
    /\ s # 0
    /\ reg.result[r] = "none"
    /\ reg.count[s] < MaxPending
    /\ reg' = [reg EXCEPT
                 !.inv[r] = [NoPending EXCEPT !.live = TRUE, !.socket = s,
                                              !.timers = {"hard", "idle"}],
                 !.result[r] = "waiting", !.count[s] = @ + 1]
    \* a frame written to a closing websocket is lost
    /\ daemon' = [daemon EXCEPT ![r] = IF sock[s] = "open" THEN "owned" ELSE "over"]
    /\ UNCHANGED <<sock, current, known, beat, refused, shut>>

cancelInvoke(r) ==
    /\ reg.inv[r].live /\ current = reg.inv[r].socket
    /\ reg.inv[r].cancellation = "none"
    /\ reg' = initiateCancellation(reg, r)
    /\ Quiet

idleFires(r) ==
    /\ "idle" \in reg.inv[r].timers /\ ~reg.inv[r].gatePending
    /\ LET g == [reg EXCEPT !.inv[r].timers = @ \ {"idle"}] IN reg' = initiateCancellation(g, r)
    /\ Quiet

hardFires(r) ==
    /\ "hard" \in reg.inv[r].timers
    /\ LET g == [reg EXCEPT !.inv[r].timers = @ \ {"hard"}] IN reg' = initiateCancellation(g, r)
    /\ Quiet

\* No receipt of a cancellation, or no terminal after the receipt of one.
receiptFires(r) ==
    /\ reg.inv[r].live
    /\ reg.inv[r].timers \cap {"receipt", "terminal"} # {}
    /\ LET g == [reg EXCEPT !.inv[r].timers = @ \ {"receipt", "terminal"}]
       IN  reg' = retireCancellationTracker(settle(g, r, "unconfirmed"), r)
    /\ Quiet

tombstoneExpires(r) ==
    /\ r \in reg.tombstones
    /\ reg' = [reg EXCEPT !.tombstones = @ \ {r}]
    /\ Quiet

\* onGate's promise: the message is posted and the gate goes to the daemon.
presentGate(r) ==
    LET p == reg.inv[r] IN
    /\ p.stage = "awaiting_handle"
    /\ p.live
    /\ reg' = IF ~Writable(reg, r) \/ Cardinality(reg.presenting) >= MaxAttempts
              THEN presentationFailed(reg, r)
              ELSE [reg EXCEPT !.inv[r].stage = "awaiting_receipt",
                               !.presenting = @ \cup {<<r, p.gate>>}]
    /\ Quiet

\* onGate or activate() failed.
handleFails(r) ==
    /\ reg.inv[r].stage \in {"awaiting_handle", "accepted"}
    /\ reg' = presentationFailed(reg, r)
    /\ Quiet

\* Mutant: forgets the attempt and lets the request wait.
presentationTimeoutForgets(r, p) ==
    /\ <<r, p>> \in reg.presenting
    /\ reg' = [reg EXCEPT !.presenting = @ \ {<<r, p>>}]
    /\ Quiet

\* No receipt of the presentation in time, or it could not be written.
presentationTimeout(r, p) ==
    /\ <<r, p>> \in reg.presenting
    /\ LET g == [reg EXCEPT !.presenting = @ \ {<<r, p>>}]
       IN  reg' = IF g.inv[r].gate = p THEN presentationFailed(g, r) ELSE g
    /\ Quiet

abandonTimeout(r, p) ==
    /\ <<r, p>> \in reg.abandoning
    /\ reg' = [reg EXCEPT !.abandoning = @ \ {<<r, p>>}]
    /\ Quiet

answerGate(r, p) ==
    LET q == reg.inv[r]
        a == <<r, p, q.tries + 1>>
    IN  /\ q.live /\ Writable(reg, r)
        /\ q.gatePending /\ q.gate = p /\ q.stage = "accepted"
        /\ q.tries < MaxAnswer
        /\ ~\E b \in reg.answering : b[1] = r /\ b[2] = p
        /\ Cardinality(reg.answering) < MaxPending
        /\ reg' = [reg EXCEPT !.answering = @ \cup {a}, !.inv[r].tries = @ + 1]
        /\ Quiet

\* The gate stays: the user may answer again.
answerTimeout(a) ==
    /\ a \in reg.answering
    /\ reg' = settleGateAnswer(reg, a)
    /\ Quiet

-----------------------------------------------------------------------------
(* What the bot hears from the daemon.                                     *)

Hears(r) == reg.inv[r].socket # 0 /\ sock[reg.inv[r].socket] \in {"open", "closing"}
            /\ reg.inv[r].socket \in known

\* An event of the run.
streamEvent(r) ==
    /\ daemon[r] = "owned" /\ Hears(r) /\ reg.inv[r].live
    /\ reg.inv[r].cancellation = "none"
    /\ reg' = armIdleTimer(reg, r)
    /\ Quiet

\* gate_request: the idle timer is suspended, an earlier gate is replaced.
gateRequest(r, p) ==
    LET a == abandonGate(reg, r)
        g == [a EXCEPT
                !.inv[r] = [a.inv[r] EXCEPT
                              !.gatePending = TRUE, !.gate = p, !.abandoned = FALSE,
                              !.stage = "awaiting_handle", !.tries = 0,
                              !.timers = @ \ {"idle"}]]
    IN  /\ r \in Gated /\ daemon[r] = "owned" /\ Hears(r) /\ reg.inv[r].live
        /\ p = reg.inv[r].gate + 1
        /\ reg.inv[r].cancellation = "none"
        /\ reg' = g
        /\ Quiet

acceptGatePresentationResult(r, p, accepted) ==
    LET g == [reg EXCEPT !.presenting = @ \ {<<r, p>>}] IN
        /\ <<r, p>> \in reg.presenting /\ Hears(r)
        /\ reg' = IF g.inv[r].gate # p THEN g
                  ELSE IF accepted THEN [g EXCEPT !.inv[r].stage = "accepted"]
                  ELSE presentationFailed(g, r)
        /\ Quiet

acceptGateAbandonResult(r, p) ==
    /\ <<r, p>> \in reg.abandoning /\ Hears(r)
    /\ reg' = [reg EXCEPT !.abandoning = @ \ {<<r, p>>}]
    /\ Quiet

\* Only the exact accepted gate is retired, and only then does idleness count.
acceptGateAnswerResult(r, p, k, accepted) ==
    LET a == <<r, p, k>>
        g == [settleGateAnswer(reg, a) EXCEPT !.inv[r].gatePending = @ /\ reg.inv[r].gate # p]
    IN  /\ a \in reg.answering /\ Hears(r)
        /\ reg' = IF ~accepted THEN settleGateAnswer(reg, a)
                  ELSE IF g.inv[r].live THEN armIdleTimer(g, r)
                  ELSE g
        /\ Quiet

\* What the daemon says of the cancellation of a request that is still pending
\* here (DaemonInvoke outcomeFor): already_terminal follows the terminal, and
\* not_owned a request it never had.
Outcome == {"cancelled_before_start", "cancellation_pending"}

\* Mutant: remembers any outcome as the receipt of a run that never started.
acceptCancelResultSticky(r, outcome) ==
    LET h == [reg EXCEPT !.cancelling = @ \ {r}, !.inv[r].timers = @ \ {"receipt"},
                         !.inv[r].cancellation = "cancelled_before_start"] IN
        /\ r \in reg.cancelling /\ Hears(r)
        /\ daemon[r] = "owned"
        /\ daemon' = [daemon EXCEPT ![r] = IF outcome = "cancelled_before_start"
                                           THEN "revoked" ELSE @]
        /\ reg' = retireCancellationTracker(settle(h, r, "unconfirmed"), r)
        /\ UNCHANGED <<sock, current, known, beat, refused, shut>>

acceptCancelResult(r, outcome) ==
    LET h == [reg EXCEPT !.cancelling = @ \ {r}, !.inv[r].timers = @ \ {"receipt"}] IN
        /\ r \in reg.cancelling /\ Hears(r)
        /\ daemon[r] = "owned"
        /\ daemon' = [daemon EXCEPT ![r] = IF outcome = "cancelled_before_start"
                                           THEN "revoked" ELSE @]
        /\ reg' = IF outcome = "cancelled_before_start"
                  THEN [h EXCEPT !.inv[r].cancellation = outcome,
                                 !.inv[r].timers = @ \cup {"terminal"}]
                  ELSE retireCancellationTracker(settle(h, r, "unconfirmed"), r)
        /\ UNCHANGED <<sock, current, known, beat, refused, shut>>

\* Mutant: a terminal after the promise resolved is ignored.
invokeTerminalOnce(r, disposition) ==
    LET how == IF disposition = "completed" THEN "completed" ELSE "disposition"
        g == deletePending(abandonGate(settle(reg, r, how), r), r)
    IN  /\ daemon[r] \in {"owned", "revoked"} /\ Hears(r)
        /\ daemon[r] = "revoked" => disposition = "cancelled"
        /\ daemon' = [daemon EXCEPT ![r] = "over"]
        /\ reg' = IF reg.result[r] = "waiting" THEN g ELSE reg
        /\ UNCHANGED <<sock, refused, current, known, beat, shut>>

\* The terminal of a request: what it says is the result, unless it contradicts
\* a receipt that said the run never started.
invokeTerminal(r, disposition) ==
    LET s == reg.inv[r].socket
        p == reg.inv[r]
        conflict == p.live /\ p.cancellation = "cancelled_before_start"
                    /\ disposition # "cancelled"
        how == IF disposition = "completed" THEN "completed" ELSE "disposition"
        g == deletePending(abandonGate(settle(reg, r, how), r), r)
    IN  /\ daemon[r] \in {"owned", "revoked"} /\ Hears(r)
        /\ daemon[r] = "revoked" => disposition = "cancelled"
        /\ daemon' = [daemon EXCEPT ![r] = "over"]
        /\ IF conflict
           THEN /\ reg' = retireCancellationTracker(settle(reg, r, "unconfirmed"), r)
                /\ closePolicyViolation(s)
           ELSE /\ reg' = [(IF p.live THEN g ELSE reg) EXCEPT !.tombstones = @ \ {r}]
                /\ UNCHANGED <<sock, refused>>
        /\ UNCHANGED <<current, known, beat, shut>>

-----------------------------------------------------------------------------
Terminal(r) == \E d \in {"completed", "failed", "cancelled"} : invokeTerminal(r, d)

Timer(r) == hardFires(r) \/ receiptFires(r)

Next ==
    \/ \E s \in Sock : \/ register(s) \/ closeFrame(s) \/ closeEvent(s) \/ sendHeartbeats(s)
                       \/ acceptPong(s) \/ expireHeartbeat(s)
    \/ close
    \/ \E r \in Req :
         \/ invoke(r) \/ cancelInvoke(r) \/ idleFires(r) \/ hardFires(r) \/ receiptFires(r)
         \/ tombstoneExpires(r) \/ presentGate(r) \/ handleFails(r) \/ streamEvent(r)
         \/ Terminal(r)
         \/ \E o \in Outcome : acceptCancelResult(r, o)
         \/ \E p \in Gate :
              \/ presentationTimeout(r, p) \/ abandonTimeout(r, p) \/ answerGate(r, p)
              \/ gateRequest(r, p) \/ acceptGateAbandonResult(r, p)
              \/ \E b \in BOOLEAN :
                   \/ acceptGatePresentationResult(r, p, b)
                   \/ \E k \in 1 .. MaxAnswer : acceptGateAnswerResult(r, p, k, b)
              \/ \E k \in 1 .. MaxAnswer : answerTimeout(<<r, p, k>>)

Spec == Init /\ [][Next]_vars

\* A timer that stays armed fires, and a close handshake ends: nothing is assumed
\* of the daemon.
Fairness ==
    /\ \A r \in Req : WF_vars(Timer(r))
    /\ \A s \in Sock : WF_vars(sock[s] = "closing" /\ closeEvent(s))

FairSpec == Spec /\ Fairness

-----------------------------------------------------------------------------
(* Properties.                                                             *)

\* pendingCountBySocket is the number of requests in pendingRequests on that
\* websocket: a slot is neither leaked nor returned twice when a terminal, a
\* timer, a late receipt and a lost connection meet (host-registry.js
\* #addPending, #deletePending, #failPendingForSocket).
CountExact ==
    \A s \in Sock : reg.count[s] = Cardinality({r \in Req : reg.inv[r].live
                                                            /\ reg.inv[r].socket = s})

\* A request that nobody cancelled is bounded by its hard cap throughout, and by
\* its idle timer exactly when no gate waits for a human: a gate suspends it, and
\* only the accepted answer of the gate on show brings it back, whatever
\* replacements, timeouts and late receipts come between (#armIdleTimer).
IdleUnlessGated ==
    \A r \in Req : LET p == reg.inv[r] IN
        p.live /\ p.cancellation = "none" =>
            /\ "hard" \in p.timers
            /\ "idle" \in p.timers <=> ~p.gatePending

\* A gate that was sent to the daemon and is not accepted has an attempt with a
\* timer behind it, as long as its request goes on: it cannot stay on show
\* without ever becoming answerable (#presentGate, #acceptGatePresentationResult).
PresentationDriven ==
    \A r \in Req : LET p == reg.inv[r] IN
        p.live /\ p.cancellation = "none" /\ p.stage = "awaiting_receipt" =>
            <<r, p.gate>> \in reg.presenting

\* A daemon that sends one terminal for a request, and "cancelled" after it
\* reported cancelled_before_start, is never disconnected for a protocol
\* violation, however late its frames are (#handleMessage).
HonestDaemonKept == refused = {}

\* The promise of every invoke resolves, even if the daemon never says a word
\* (hard cap, receipt timer, terminal timer, close event).
InvokeResolves == \A r \in Req : reg.result[r] = "waiting" ~> reg.result[r] # "waiting"

\* A request whose promise is resolved holds its slot only while the daemon still
\* owes its terminal: a request kept for want of a tombstone
\* (#retireCancellationTracker) is released by the terminal or the close event.
SlotOwed ==
    \A r \in Req : reg.inv[r].live /\ reg.result[r] # "waiting" =>
        daemon[r] \in {"owned", "revoked"}

\* Requests keep exact accounts and stay bounded: the slots counted are the
\* pending requests, a resolved one keeps its slot only while the daemon owes
\* its terminal, and each pending one has the timers that end it (#addPending,
\* #deletePending, #armIdleTimer, #presentGate).
RequestsAccounted ==
    TypeOK /\ CountExact /\ SlotOwed /\ IdleUnlessGated /\ PresentationDriven
=============================================================================
