----------------------------- MODULE HostBinding -----------------------------
(***************************************************************************)
(* Workspace bindings across the websocket: the bot derives bindings from  *)
(* its managed routes and asks for them (bot/src/host-registry.js), the    *)
(* daemon proves them against its inventory and publishes their readiness  *)
(* (daemon/src/daemon.js).  Both directions are first in first out.        *)
(*                                                                         *)
(* One host, protocol v3.  The inventory reads behind a proof, its floors  *)
(* and the leases are ReceiptBinding's; here a bind ends in a proof, in a  *)
(* refusal or, when the inventory moved under it, still pending.  Every    *)
(* descriptor names its own workspace, so no floor refuses a bind.  The    *)
(* five readiness dimensions, timestamps and time to live are left out:    *)
(* the bot routes by the status of a binding alone.                        *)
(***************************************************************************)
EXTENDS Naturals, Sequences, FiniteSets, SequencesExt

CONSTANTS
    Desc,      \* descriptors a managed route may carry
    MaxBind,   \* MAX_BINDING_READINESS_STATES and MAX_BINDINGS_PER_SOCKET
    MaxGen,    \* bound: socket generations of one daemon process
    MaxRoute,  \* bound: changes of the managed routes
    MaxQueue   \* bound: the daemon waits while this many frames are unread

ASSUME HostBindingAssumption ==
    /\ IsFiniteSet(Desc)
    /\ MaxBind \in Nat /\ MaxGen \in Nat /\ MaxRoute \in Nat /\ MaxQueue \in Nat

VARIABLES
    desired,    \* managedDescriptors
    routes,     \* how often the routes have changed
    up,         \* the websocket is open on both sides
    bot,        \* bindingsById of the bot
    byDesc,     \* bindingsByDescriptor, 0 for none
    authority,  \* readinessAuthorities: the last socket generation accepted
    dmn,        \* bindings and retiredBindings of the daemon
    unbound,    \* receiptUnbound: the last binding was unbound
    probe,      \* probeReadiness of this connection
    gen,        \* readinessSocketGeneration of the daemon process
    toDaemon,
    toBot,
    refused     \* what the bot last closed the websocket for

vars == <<desired, routes, up, bot, byDesc, authority, dmn, unbound, probe, gen, toDaemon, toBot, refused>>

botVars == <<bot, byDesc, authority>>
daemonVars == <<dmn, unbound, probe, gen>>

Bind == 1 .. MaxBind

BotBinding == [desc : Desc,
               status : {"binding", "pending", "bound", "negative", "unbinding", "tombstone"},
               deadline : BOOLEAN, held : BOOLEAN]

\* phase: "absent" before the bind and "retired" after it; blocked: lastError is
\* one no receipt frame may carry, put there by a failed probe.
DaemonBinding == [phase : {"absent", "reading", "pending", "positive", "negative", "retiring",
                            "retired"},
                  blocked : BOOLEAN]

BotFrame == {<<"host", 0>>} \cup ({"pending", "negative", "positive", "bind_ok", "unbind_ok"} \X Bind)
DaemonFrame == {<<"register_ok", 0>>} \cup ({"bind", "unbind"} \X Bind)

None == [status |-> "none"]

TypeOK ==
    /\ desired \subseteq Desc
    /\ routes \in 0 .. MaxRoute
    /\ up \in BOOLEAN
    /\ bot \in [Bind -> BotBinding \cup {None}]
    /\ byDesc \in [Desc -> 0 .. MaxBind]
    /\ authority \in [gen : 0 .. MaxGen, offline : BOOLEAN]
    /\ dmn \in [Bind -> DaemonBinding]
    /\ unbound \in BOOLEAN
    /\ probe \in {"running", "passed", "failed"}
    /\ gen \in 0 .. MaxGen
    /\ toDaemon \in Seq(DaemonFrame)
    /\ toBot \in Seq(BotFrame)
    /\ refused \in {"nothing", "replayed", "none", "negative", "tombstone"}

Absent == [b \in Bind |-> [phase |-> "absent", blocked |-> FALSE]]

Init ==
    /\ desired \in SUBSET Desc
    /\ routes = 0
    /\ up = FALSE
    /\ bot = [b \in Bind |-> None]
    /\ byDesc = [d \in Desc |-> 0]
    /\ authority = [gen |-> 0, offline |-> FALSE]
    /\ dmn = Absent
    /\ unbound = FALSE
    /\ probe = "running"
    /\ gen = 0
    /\ toDaemon = <<>>
    /\ toBot = <<>>
    /\ refused = "nothing"

-----------------------------------------------------------------------------
(* The bot's bindings.  A book is a record of its maps and what it sends.  *)

Book == [bot |-> bot, byDesc |-> byDesc, out |-> toDaemon]

Keep(k) == bot' = k.bot /\ byDesc' = k.byDesc /\ toDaemon' = k.out

InMap(k) == {b \in Bind : \E d \in Desc : k.byDesc[d] = b}

Used(k) == {b \in Bind : k.bot[b] # None}

\* Mutant: the deadline of the bind is cleared and none is armed for the unbind.
unbindBindingUnbounded(x) == [x EXCEPT !.status = "unbinding", !.deadline = FALSE, !.held = FALSE]

\* The record of an unbound binding, bounded by a new deadline; unbindAll takes it
\* out of the map and sends.
unbindBinding(x) == [x EXCEPT !.status = "unbinding", !.deadline = TRUE, !.held = FALSE]

bindWorkspace(d) == [desc |-> d, status |-> "binding", deadline |-> TRUE, held |-> FALSE]

\* Unbound bindings are forgotten as routes at once.
unbindAll(k, S) ==
    LET order == SetToSeq(S) IN
    [bot |-> [b \in Bind |-> IF b \in S THEN unbindBinding(k.bot[b]) ELSE k.bot[b]],
     byDesc |-> [d \in Desc |-> IF k.byDesc[d] \in S THEN 0 ELSE k.byDesc[d]],
     out |-> k.out \o [i \in 1 .. Cardinality(S) |-> <<"unbind", order[i]>>]]

\* The bindings made on a connection are numbered; at most MaxBind are made.
bindAll(k, S) ==
    LET order == SetToSeq(S)
        n == Cardinality(Used(k))
        m == IF Cardinality(S) <= MaxBind - n THEN Cardinality(S) ELSE MaxBind - n
        new(d) == {i \in 1 .. m : order[i] = d}
    IN  [bot |-> [b \in Bind |-> IF b \in n + 1 .. n + m THEN bindWorkspace(order[b - n])
                                 ELSE k.bot[b]],
         byDesc |-> [d \in Desc |-> IF new(d) # {} THEN n + (CHOOSE i \in new(d) : TRUE)
                                    ELSE k.byDesc[d]],
         out |-> k.out \o [i \in 1 .. m |-> <<"bind", n + i>>]]

\* Mutant: a change that unbinds leaves the new routes for a later one.
reconcileManagedBindingsOnce(k, want) ==
    LET gone == {b \in InMap(k) : k.bot[b].desc \notin want}
    IN  IF gone # {} THEN unbindAll(k, gone)
        ELSE IF \E b \in Used(k) : k.bot[b].deadline THEN k
        ELSE bindAll(k, {d \in want : k.byDesc[d] = 0})

\* Nothing is bound while an unbind has no answer.
reconcileManagedBindings(k, want) ==
    LET gone == {b \in InMap(k) : k.bot[b].desc \notin want}
        j == unbindAll(k, gone)
    IN  IF \E b \in Used(j) : j.bot[b].status = "unbinding" THEN j
        ELSE bindAll(j, {d \in want : j.byDesc[d] = 0})

\* setManagedRoutes
setManagedRoutes(want) ==
    /\ routes < MaxRoute /\ want # desired
    /\ routes' = routes + 1
    /\ desired' = want
    /\ IF up THEN Keep(reconcileManagedBindings(Book, want))
       ELSE UNCHANGED <<bot, byDesc, toDaemon>>
    /\ UNCHANGED <<up, authority, daemonVars, toBot, refused>>

\* The connection and everything bound to it is gone, on both sides.
lost ==
    /\ up' = FALSE
    /\ bot' = [b \in Bind |-> None]
    /\ byDesc' = [d \in Desc |-> 0]
    /\ dmn' = Absent /\ unbound' = FALSE
    /\ toDaemon' = <<>> /\ toBot' = <<>>
    /\ UNCHANGED <<desired, routes, gen, probe>>

markOffline == authority' = [authority EXCEPT !.offline = authority.gen # 0]

-----------------------------------------------------------------------------
(* Connections.                                                            *)

register ==
    /\ ~up /\ gen < MaxGen
    /\ up' = TRUE
    /\ gen' = gen + 1
    /\ probe' = "running"
    /\ Keep(reconcileManagedBindings([Book EXCEPT !.out = <<<<"register_ok", 0>>>>], desired))
    /\ UNCHANGED <<desired, routes, authority, dmn, unbound, toBot, refused>>

closeEvent == up /\ lost /\ markOffline /\ UNCHANGED refused

\* A binding that got no answer in time takes the connection with it.
bindingDeadline(b) ==
    /\ bot[b] # None /\ bot[b].deadline
    /\ lost /\ markOffline /\ UNCHANGED refused

\* The fence outlives a connection by READINESS_MAX_TTL_MS.
retireAuthority ==
    /\ authority.offline
    /\ authority' = [gen |-> 0, offline |-> FALSE]
    /\ UNCHANGED <<desired, routes, up, bot, byDesc, daemonVars, toDaemon, toBot, refused>>

\* A new daemon process counts its websockets from the start.
daemonRestarts ==
    /\ gen > 0
    /\ up' = FALSE /\ bot' = [b \in Bind |-> None] /\ byDesc' = [d \in Desc |-> 0]
    /\ dmn' = Absent /\ unbound' = FALSE /\ toDaemon' = <<>> /\ toBot' = <<>>
    /\ gen' = 0
    /\ IF up THEN markOffline ELSE UNCHANGED authority
    /\ UNCHANGED <<desired, routes, probe, refused>>

-----------------------------------------------------------------------------
(* The daemon.                                                             *)

Held(D) == {b \in Bind : D[b].phase \in {"reading", "pending", "positive", "negative"}}

readinessFrame(D, b) == <<IF D[b].phase = "reading" THEN "pending" ELSE D[b].phase, b>>

\* One frame for each binding, oldest first, up to one that is not a valid frame;
\* a host frame when there is no binding, none once the last was unbound.
publishReadiness(D, q) ==
    LET valid == {b \in Held(D) : \A c \in Held(D) : c <= b => ~D[c].blocked}
        nth(i) == CHOOSE b \in valid : Cardinality({c \in valid : c <= b}) = i
    IN  IF Held(D) # {}
        THEN q \o [i \in 1 .. Cardinality(valid) |-> readinessFrame(D, nth(i))]
        ELSE IF ~unbound THEN Append(q, <<"host", 0>>)
        ELSE q

Room == Len(toBot) < MaxQueue

Takes(kind) == up /\ Room /\ toDaemon # <<>> /\ Head(toDaemon)[1] = kind
Taken == Head(toDaemon)[2]

registerOk ==
    /\ Takes("register_ok")
    /\ toDaemon' = Tail(toDaemon)
    /\ toBot' = publishReadiness(dmn, toBot)
    /\ UNCHANGED <<desired, routes, up, botVars, daemonVars, refused>>

acceptReceiptBinding ==
    LET D == [dmn EXCEPT ![Taken] = [phase |-> "reading", blocked |-> FALSE]] IN
    /\ Takes("bind")
    /\ toDaemon' = Tail(toDaemon)
    /\ dmn' = D
    /\ unbound' = FALSE
    /\ toBot' = publishReadiness(D, toBot)
    /\ UNCHANGED <<desired, routes, up, botVars, probe, gen, refused>>

\* The two reads of a bind are over; INVENTORY_PENDING is an error of a binding
\* that nothing will look at again.
bindDecided(b, how) ==
    LET D == [dmn EXCEPT ![b] = [phase |-> how, blocked |-> FALSE]]
        q == IF how = "positive" THEN Append(toBot, <<"bind_ok", b>>) ELSE toBot
    IN  /\ up /\ Room /\ dmn[b].phase = "reading"
        /\ dmn' = D
        /\ toBot' = publishReadiness(D, q)
        /\ UNCHANGED <<desired, routes, up, botVars, unbound, probe, gen, toDaemon, refused>>

\* Mutant: the stale proof is dropped and left to the next publication.
admissionStaleQuiet(b) ==
    /\ up /\ Room /\ dmn[b].phase = "positive" /\ probe = "passed"
    /\ dmn' = [dmn EXCEPT ![b] = [phase |-> "negative", blocked |-> FALSE]]
    /\ UNCHANGED <<desired, routes, up, botVars, unbound, probe, gen, toDaemon, toBot, refused>>

\* Read before admission: the inventory is not the one the proof was made from.
admissionStale(b) ==
    LET D == [dmn EXCEPT ![b] = [phase |-> "negative", blocked |-> FALSE]] IN
    /\ up /\ Room /\ dmn[b].phase = "positive" /\ probe = "passed"
    /\ dmn' = D
    /\ toBot' = publishReadiness(D, toBot)
    /\ UNCHANGED <<desired, routes, up, botVars, unbound, probe, gen, toDaemon, refused>>

\* The binding is gone, or its session is still to be retired.
unbindAs(b, phase, answer) ==
    LET D == [dmn EXCEPT ![b] = [phase |-> phase, blocked |-> FALSE]] IN
    /\ dmn' = D
    /\ unbound' = (unbound \/ (phase = "retired" /\ Held(D) = {}))
    /\ toBot' = IF answer THEN Append(toBot, <<"unbind_ok", b>>) ELSE toBot

\* Mutant: unbind_ok does not wait for the session.
unbindReceiptBindingEarly ==
    /\ Takes("unbind")
    /\ toDaemon' = Tail(toDaemon)
    /\ unbindAs(Taken, IF dmn[Taken].phase = "positive" THEN "retiring" ELSE "retired", TRUE)
    /\ UNCHANGED <<desired, routes, up, botVars, probe, gen, refused>>

\* A binding with a proof is answered after its session is retired.
unbindReceiptBinding ==
    LET proved == dmn[Taken].phase = "positive" IN
    /\ Takes("unbind")
    /\ toDaemon' = Tail(toDaemon)
    /\ unbindAs(Taken, IF proved THEN "retiring" ELSE "retired", ~proved)
    /\ UNCHANGED <<desired, routes, up, botVars, probe, gen, refused>>

sessionRetired(b) ==
    /\ up /\ Room /\ dmn[b].phase = "retiring"
    /\ unbindAs(b, "retired", TRUE)
    /\ UNCHANGED <<desired, routes, up, botVars, probe, gen, toDaemon, refused>>

scheduleReadinessPublication ==
    /\ up /\ Room
    /\ \A i \in 1 .. Len(toDaemon) : toDaemon[i][1] # "register_ok"
    /\ toBot' = publishReadiness(dmn, toBot)
    /\ UNCHANGED <<desired, routes, up, botVars, daemonVars, toDaemon, refused>>

\* The runtime probe ends.  Its failure is written over the error of every
\* binding that is not ready, the proved ones included.
probeReadiness(passed) ==
    LET D == IF passed
             THEN [b \in Bind |-> [dmn[b] EXCEPT !.blocked = @ /\ dmn[b].phase # "positive"]]
             ELSE [b \in Bind |-> [dmn[b] EXCEPT !.blocked = b \in Held(dmn)]]
    IN  /\ up /\ Room /\ probe = "running"
        /\ \A i \in 1 .. Len(toDaemon) : toDaemon[i][1] # "register_ok"
        /\ probe' = IF passed THEN "passed" ELSE "failed"
        /\ dmn' = D
        /\ toBot' = publishReadiness(D, toBot)
        /\ UNCHANGED <<desired, routes, up, botVars, unbound, gen, toDaemon, refused>>

-----------------------------------------------------------------------------
(* What the bot hears.                                                     *)

Hears(kinds) == up /\ toBot # <<>> /\ Head(toBot)[1] \in kinds
Heard == Head(toBot)[2]

close(why) == lost /\ markOffline /\ refused' = why

\* The first host frame of a connection must be of a later socket generation
\* than any the bot accepted before.
acceptReadiness ==
    /\ Hears({"host"})
    /\ IF authority.offline /\ gen <= authority.gen
       THEN close("replayed")
       ELSE /\ authority' = [gen |-> gen, offline |-> FALSE]
            /\ toBot' = Tail(toBot)
            /\ UNCHANGED <<desired, routes, up, bot, byDesc, daemonVars, toDaemon, refused>>

\* Mutant: a frame of a binding that is being unbound is not expected.
acceptInventoryReceiptReadinessStrict ==
    LET b == Heard
        kind == Head(toBot)[1]
        x == bot[b]
    IN  /\ Hears({"pending", "negative", "positive"})
        /\ IF x.status \notin {"binding", "pending", "bound"} THEN close("none")
           ELSE /\ bot' = [bot EXCEPT ![b].status = IF kind = "positive" THEN @ ELSE kind]
                /\ toBot' = Tail(toBot)
                /\ UNCHANGED <<desired, routes, up, byDesc, authority, daemonVars, toDaemon,
                               refused>>

\* A readiness frame of a binding.
acceptInventoryReceiptReadiness ==
    LET b == Heard
        kind == Head(toBot)[1]
        x == bot[b]
        next == CASE kind = "pending" -> [x EXCEPT !.status = "pending", !.held = FALSE]
                  [] kind = "negative" -> [x EXCEPT !.status = "negative", !.deadline = FALSE,
                                                    !.held = FALSE]
                  [] kind = "positive" -> IF x.status = "bound" THEN x
                                          ELSE [x EXCEPT !.held = TRUE]
    IN  /\ Hears({"pending", "negative", "positive"})
        /\ IF x.status \in {"none", "tombstone", "negative"} THEN close(x.status)
           ELSE /\ bot' = IF x.status = "unbinding" THEN bot ELSE [bot EXCEPT ![b] = next]
                /\ toBot' = Tail(toBot)
                /\ UNCHANGED <<desired, routes, up, byDesc, authority, daemonVars, toDaemon,
                               refused>>

\* Mutant: a bind_ok that crossed the unbind revives the binding.
acceptBindOkAlways ==
    /\ Hears({"bind_ok"})
    /\ bot' = [bot EXCEPT ![Heard].status = "bound", ![Heard].deadline = FALSE, ![Heard].held = FALSE]
    /\ toBot' = Tail(toBot)
    /\ UNCHANGED <<desired, routes, up, byDesc, authority, daemonVars, toDaemon, refused>>

acceptBindOk ==
    LET b == Heard IN
    /\ Hears({"bind_ok"})
    /\ IF bot[b].status \in {"none", "tombstone", "negative"} THEN close(bot[b].status)
       ELSE /\ bot' = IF bot[b].status \in {"unbinding", "bound"} THEN bot
                      ELSE [bot EXCEPT ![b].status = "bound", ![b].deadline = FALSE,
                                       ![b].held = FALSE]
            /\ toBot' = Tail(toBot)
            /\ UNCHANGED <<desired, routes, up, byDesc, authority, daemonVars, toDaemon, refused>>

\* The last answer an unbinding waits for lets the routes bind again.
acceptUnbindOk ==
    LET b == Heard
        k == [Book EXCEPT !.bot[b] = [@ EXCEPT !.status = "tombstone", !.deadline = FALSE]]
    IN  /\ Hears({"unbind_ok"})
        /\ Keep(reconcileManagedBindings(k, desired))
        /\ toBot' = Tail(toBot)
        /\ UNCHANGED <<desired, routes, up, authority, daemonVars, refused>>

-----------------------------------------------------------------------------
BotHears == acceptReadiness \/ acceptInventoryReceiptReadiness \/ acceptBindOk \/ acceptUnbindOk

Next ==
    \/ \E want \in SUBSET Desc : setManagedRoutes(want)
    \/ register \/ closeEvent \/ retireAuthority \/ daemonRestarts
    \/ registerOk \/ acceptReceiptBinding \/ unbindReceiptBinding
    \/ scheduleReadinessPublication
    \/ \E b \in Bind :
         \/ bindingDeadline(b) \/ admissionStale(b) \/ sessionRetired(b)
         \/ \E how \in {"positive", "negative", "pending"} : bindDecided(b, how)
    \/ \E passed \in BOOLEAN : probeReadiness(passed)
    \/ BotHears

Spec == Init /\ [][Next]_vars

\* An armed deadline fires.  Nothing is assumed of the daemon or the network.
FairSpec == Spec /\ \A b \in Bind : WF_vars(bindingDeadline(b))

-----------------------------------------------------------------------------
(* Properties.                                                             *)

Unanswered == {b \in Bind : bot[b].status \in {"binding", "pending", "unbinding"}}

\* While the websocket is open, no unbind is unanswered and there is room for one
\* more, every managed route has a binding: whatever order routes changed, binds
\* were answered and sockets came and went in, reconcileManagedBindings left no
\* route behind.
RoutesReconciled ==
    up /\ Cardinality(Used(Book)) < MaxBind /\ ~(\E b \in Bind : bot[b].status = "unbinding")
        => \A d \in desired : byDesc[d] # 0

\* A binding the bot would route through is the one its descriptor names, of a
\* route it still manages, on an open websocket: no late bind_ok or readiness
\* revives one that was unbound.
RoutedBindingIsDesired ==
    \A b \in Bind : bot[b].status \in {"bound", "binding", "pending", "negative"}
        => up /\ bot[b].desc \in desired /\ byDesc[bot[b].desc] = b

\* The bot routes through a binding the daemon no longer proves only while the
\* frame that says so is on its way: admission on the daemon may refuse such an
\* INVOKE, but the bot cannot stay wrong.
StaleBoundIsAnnounced ==
    \A b \in Bind : bot[b].status = "bound" /\ dmn[b].phase # "positive"
        => <<"negative", b>> \in {toBot[i] : i \in 1 .. Len(toBot)}

\* The bot counts a binding as ended only after the daemon has retired it with its
\* session, so the workspace is free before the routes bind it again.
TombstoneRetired ==
    \A b \in Bind : bot[b].status = "tombstone" => dmn[b].phase = "retired"

\* Of the well-formed frames a daemon sends, the bot closes the websocket only for
\* a host frame of an old socket generation and for news of a binding it already
\* holds negative.  Frames that crossed an unbind or a new bind are never held
\* against the daemon.
CrossedFramesTolerated == refused \in {"nothing", "replayed", "negative"}

\* docs/protocol-v2-workspace-readiness.md: only malformed, foreign, replayed,
\* unknown-key, partial-receipt or mismatched frames close the websocket.  The
\* daemon publishes every binding again each half TTL and on every other bind, a
\* negative one too, and the bot closes the websocket on the second such frame.
RepublishedFrameAccepted == refused # "negative"

\* A bind or an unbind the daemon does not answer ends: the deadline takes the
\* whole connection, so a binding is never left half made.
BindingSettles == \A b \in Bind : (b \in Unanswered) ~> (b \notin Unanswered)

\* The bot's bindings follow its routes and the daemon's proofs: the four facts
\* above together (reconcileManagedBindings, #acceptBindOk, acceptReadiness,
\* unbindBinding).
BindingsAgree ==
    /\ TypeOK /\ RoutesReconciled /\ RoutedBindingIsDesired
    /\ StaleBoundIsAnnounced /\ TombstoneRetired
=============================================================================
