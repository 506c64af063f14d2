------------------------- MODULE DaemonInvokeProofs -------------------------
(***************************************************************************)
(* Proofs about module DaemonInvoke, for any number of websockets,         *)
(* requests, invocations, cancel ids and sessions and for every limit.     *)
(* Most of the argument concerns one invocation: what its record says      *)
(* about itself, and what ties it to its websocket and its session.        *)
(***************************************************************************)
EXTENDS DaemonInvoke, FiniteSetTheorems, TLAPS

-----------------------------------------------------------------------------
(* The inductive invariant.                                                *)

\* Nothing has been sent and no send has failed.
Silent(x) ==
    x.frames = 0 /\ x.outbox = 0 /\ x.said = "none" /\ ~x.broken /\ ~x.terminalSent

\* The terminal frame is there once, and "cancelled" is true.
FrameFacts(x) ==
    /\ x.frames + x.outbox <= 1
    /\ x.broken => x.outbox = 0
    /\ x.terminalSent => x.phase = "terminal"
    /\ x.said = "cancelled" => x.ticket = "none" \/ x.result = "revoked"

\* The ticket, its result and what the SDK does with it.
TicketFacts(x) ==
    /\ x.ticket = "none" => x.exec = "no" /\ x.track = "plain"
    /\ x.ticket # "none" => x.session # None
    /\ x.ticket # "terminal" <=> x.result = "none"
    /\ x.ticket = "queued" /\ x.track = "plain" =>
          x.exec # "running" /\ (x.phase = "queued" => x.exec = "no")
    /\ x.ticket = "active" => x.exec = "running" /\ x.phase # "queued"
    /\ x.result = "value" => x.exec = "over" /\ x.phase # "queued"
    /\ x.result = "revoked" => x.exec = "no"
    /\ x.track # "plain" => x.kind = "control"

\* Cancellation: what was revoked, and how far the removal is known.
RevocationFacts(x) ==
    /\ x.revoked /\ ~x.revokedTicket => x.ticket = "none"
    /\ x.revokedTicket => x.revoked /\ x.ticket # "none"
    /\ x.revokedTicket => x.ticket # "active" /\ (x.ticket = "queued" => x.cancelled)
    /\ x.revokedTicket /\ x.track = "plain" => x.result = "revoked"
    /\ x.removalVerified => x.result = "revoked"
    /\ x.cancelled => x.track = "sdk"
    /\ x.cancelled /\ x.ticket = "queued" => x.exec = "no"

\* The activity lease: the handler's variables, and that a released lease means
\* that the SDK does not run the request.
LeaseFacts(x) ==
    /\ x.rec => x.local /\ x.lease = "held"
    /\ x.local => x.lease # "none"
    /\ x.lease = "released" => x.exec # "running"

Core(x) == FrameFacts(x) /\ TicketFacts(x) /\ RevocationFacts(x) /\ LeaseFacts(x)

\* What holds at each await of the handler.  Before the terminal frame is due
\* nothing was sent, unless the request was revoked while it was being admitted.
PcFacts(x) ==
    /\ x.pc = "admitting" =>
          /\ x.ticket = "none" /\ x.session = None
          /\ ~x.local /\ x.lease # "released"
          /\ \/ Silent(x) /\ x.phase = "queued"
             \/ x.revoked /\ x.terminalSent
    /\ x.pc = "running" =>
          /\ x.ticket # "none" /\ Silent(x) /\ x.phase # "terminal"
          /\ x.local \/ x.lease = "none"
    /\ x.pc # "running" => x.ticket \in {"none", "terminal"}
    /\ x.pc = "retiring" =>
          /\ x.broken \/ Silent(x)
          /\ ~x.local /\ (x.phase = "queued" => x.ticket = "terminal")
    /\ x.pc = "sending" => x.phase = "terminal"
    /\ x.pc \in {"sending", "done"} /\ x.local /\ x.result = "error" => x.exec = "over"

Sound(x) == x \in InvocationRecord /\ Core(x) /\ PcFacts(x)

\* What ties a record to its session: a closed session has no ticket, a disposed
\* one runs nothing, and a ticket is rejected only by a session that is closed.
SessionTie(x, ss) ==
    x.session # None =>
        /\ ss[x.session].closed => x.ticket \in {"none", "terminal"}
        /\ ss[x.session].st = "disposed" => x.exec # "running"
        /\ x.result = "error" /\ x.exec # "over" => ss[x.session].closed
        /\ x.lease = "released" /\ x.result = "error" /\ x.exec = "no" =>
              ss[x.session].st = "disposed"

\* What ties it to its websocket: the close event leaves no request that may start.
ConnTie(x, cn, ss) ==
    cn[x.conn] = "closed" =>
        /\ x.pc = "admitting" => x.revoked
        /\ x.pc = "running" => x.revokedTicket \/ ss[x.session].closed

\* What ties its lease to the holds of the sessions.
HoldTie(i, x, ss) ==
    /\ x.lease = "held" /\ ~x.rec /\ x.pc # "admitting" =>
          \E s \in Session : i \in ss[s].holds
    /\ x.local /\ x.lease = "released" =>
          x.session # None /\ ss[x.session].st = "disposed"
    /\ \A s \in Session : i \in ss[s].holds =>
          /\ x.lease = "held" /\ ~x.rec /\ x.pc # "admitting"
          /\ x.session = s \/ (x.session = None /\ ~x.local)

Tied(i, x, cn, ss) ==
    Sound(x) /\ SessionTie(x, ss) /\ ConnTie(x, cn, ss) /\ HoldTie(i, x, ss)

\* A session: retirement closes it, disposal ends its holds, and a lease is a hold
\* of one session only.
SessionFacts(ss) ==
    /\ \A s \in Session : ss[s].st \in {"retiring", "disposed"} => ss[s].closed
    /\ \A s \in Session : ss[s].st = "disposed" => ss[s].holds = {}
    /\ \A s, t \in Session, i \in Invocation :
          i \in ss[s].holds /\ i \in ss[t].holds => s = t

\* A request with a receipt for its cancellation does not start.
Doomed(x, ss) ==
    \/ x.session # None /\ ss[x.session].closed
    \/ /\ x.exec = "no"
       /\ \/ x.ticket = "none" /\ (x.pc = "admitting" => x.revoked)
          \/ x.result = "revoked"
          \/ x.cancelled

ReceiptsKept(rs, f, ss) ==
    \A c \in Conn, k \in CancelId :
        rs[c][k] # None /\ rs[c][k].outcome = "cancelled_before_start" =>
            rs[c][k].of # None /\ f[rs[c][k].of] # None /\ Doomed(f[rs[c][k].of], ss)

\* The routing entries: each belongs to a request that got a session.
Routes(fl, f) ==
    \A r \in Request : fl[r] # None =>
        f[fl[r]] # None /\ f[fl[r]].req = r /\ f[fl[r]].session # None

\* AnswersReachRequest, of the tables it speaks of.
Reached(fl, f, ss) ==
    \A i \in Invocation : f[i] # None /\ f[i].pc = "running" =>
        \/ fl[f[i].req] = i
        \/ fl[f[i].req] = None /\ ss[f[i].session].closed /\ f[i].ticket = "terminal"

RunningIn(f) == {i \in Invocation : f[i] # None /\ f[i].pc # "done"}

\* The request-id fence and the budget.
Budget(f, ids, n) ==
    /\ n = Cardinality(RunningIn(f)) /\ n = Cardinality(ids)
    /\ ids = {f[i].req : i \in RunningIn(f)}
    /\ \A i, j \in RunningIn(f) : f[i].req = f[j].req => i = j

RecordsOf(f, c) == {i \in RunningIn(f) : f[i].conn = c}

ReceiptsOf(rs, c) == {k \in CancelId : rs[c][k] # None}

\* CancellationStateBounded, of the tables it speaks of.
Bounded(f, tb, rs) ==
    \A c \in Conn :
        Cardinality(RecordsOf(f, c)) + Cardinality(tb[c]) + Cardinality(ReceiptsOf(rs, c))
            <= MaxRecords

\* A handler that is over has given up its lease.
Finished(x) == x.pc = "done" /\ ~x.local

AllFinished(f) == \A i \in Invocation : f[i] # None /\ f[i].pc = "done" => Finished(f[i])

\* The records, each with its ties, and the sessions.
RecordsKept(f, cn, ss) ==
    /\ f \in [Invocation -> InvocationRecord \cup {None}]
    /\ ss \in [Session -> SdkSession]
    /\ SessionFacts(ss)
    /\ \A i \in Invocation : f[i] # None => Tied(i, f[i], cn, ss)
    /\ \A s \in Session, i \in Invocation : i \in ss[s].holds => f[i] # None

InvokeInv ==
    /\ TypeOK
    /\ RecordsKept(inv, conn, session)
    /\ ReceiptsKept(receipts, inv, session)
    /\ Routes(inFlight, inv) /\ Reached(inFlight, inv, session)
    /\ Budget(inv, requestIds, inFlightInvokes)
    /\ Bounded(inv, tombstones, receipts)
    /\ AllFinished(inv)

-----------------------------------------------------------------------------
(* Records.                                                                *)

\* The type of a record, field by field.
LEMMA Retyped ==
    ASSUME NEW x \in InvocationRecord
    PROVE  /\ \A v \in Pc : [x EXCEPT !.pc = v] \in InvocationRecord
           /\ \A v \in BOOLEAN : [x EXCEPT !.inTry = v] \in InvocationRecord
           /\ \A v \in {"queued", "active", "terminal"} : [x EXCEPT !.phase = v] \in InvocationRecord
           /\ \A v \in BOOLEAN : [x EXCEPT !.revoked = v] \in InvocationRecord
           /\ \A v \in BOOLEAN : [x EXCEPT !.revokedTicket = v] \in InvocationRecord
           /\ \A v \in BOOLEAN : [x EXCEPT !.removalVerified = v] \in InvocationRecord
           /\ \A v \in BOOLEAN : [x EXCEPT !.terminalSent = v] \in InvocationRecord
           /\ \A v \in Session \cup {None} : [x EXCEPT !.session = v] \in InvocationRecord
           /\ \A v \in {"none", "held", "released"} : [x EXCEPT !.lease = v] \in InvocationRecord
           /\ \A v \in BOOLEAN : [x EXCEPT !.local = v] \in InvocationRecord
           /\ \A v \in BOOLEAN : [x EXCEPT !.rec = v] \in InvocationRecord
           /\ \A v \in {1, 2} : [x EXCEPT !.stage = v] \in InvocationRecord
           /\ \A v \in {"none", "queued", "active", "terminal"} : [x EXCEPT !.ticket = v] \in InvocationRecord
           /\ \A v \in Track : [x EXCEPT !.track = v] \in InvocationRecord
           /\ \A v \in BOOLEAN : [x EXCEPT !.cancelled = v] \in InvocationRecord
           /\ \A v \in {"none", "value", "revoked", "error"} : [x EXCEPT !.result = v] \in InvocationRecord
           /\ \A v \in {"no", "running", "over"} : [x EXCEPT !.exec = v] \in InvocationRecord
           /\ \A v \in 0 .. MaxGateOps : [x EXCEPT !.ops = v] \in InvocationRecord
           /\ \A v \in 0 .. 2 : [x EXCEPT !.outbox = v] \in InvocationRecord
           /\ \A v \in 0 .. 2 : [x EXCEPT !.frames = v] \in InvocationRecord
           /\ \A v \in BOOLEAN : [x EXCEPT !.broken = v] \in InvocationRecord
           /\ \A v \in {"none", "cancelled", "other"} : [x EXCEPT !.said = v] \in InvocationRecord
<1>1. \A v \in Pc : [x EXCEPT !.pc = v] \in InvocationRecord
  BY DEF InvocationRecord
<1>2. \A v \in BOOLEAN : [x EXCEPT !.inTry = v] \in InvocationRecord
  BY DEF InvocationRecord
<1>3. \A v \in {"queued", "active", "terminal"} : [x EXCEPT !.phase = v] \in InvocationRecord
  BY DEF InvocationRecord
<1>4. \A v \in BOOLEAN : [x EXCEPT !.revoked = v] \in InvocationRecord
  BY DEF InvocationRecord
<1>5. \A v \in BOOLEAN : [x EXCEPT !.revokedTicket = v] \in InvocationRecord
  BY DEF InvocationRecord
<1>6. \A v \in BOOLEAN : [x EXCEPT !.removalVerified = v] \in InvocationRecord
  BY DEF InvocationRecord
<1>7. \A v \in BOOLEAN : [x EXCEPT !.terminalSent = v] \in InvocationRecord
  BY DEF InvocationRecord
<1>8. \A v \in Session \cup {None} : [x EXCEPT !.session = v] \in InvocationRecord
  BY DEF InvocationRecord
<1>9. \A v \in {"none", "held", "released"} : [x EXCEPT !.lease = v] \in InvocationRecord
  BY DEF InvocationRecord
<1>10. \A v \in BOOLEAN : [x EXCEPT !.local = v] \in InvocationRecord
  BY DEF InvocationRecord
<1>11. \A v \in BOOLEAN : [x EXCEPT !.rec = v] \in InvocationRecord
  BY DEF InvocationRecord
<1>12. \A v \in {1, 2} : [x EXCEPT !.stage = v] \in InvocationRecord
  BY DEF InvocationRecord
<1>13. \A v \in {"none", "queued", "active", "terminal"} : [x EXCEPT !.ticket = v] \in InvocationRecord
  BY DEF InvocationRecord
<1>14. \A v \in Track : [x EXCEPT !.track = v] \in InvocationRecord
  BY DEF InvocationRecord
<1>15. \A v \in BOOLEAN : [x EXCEPT !.cancelled = v] \in InvocationRecord
  BY DEF InvocationRecord
<1>16. \A v \in {"none", "value", "revoked", "error"} : [x EXCEPT !.result = v] \in InvocationRecord
  BY DEF InvocationRecord
<1>17. \A v \in {"no", "running", "over"} : [x EXCEPT !.exec = v] \in InvocationRecord
  BY DEF InvocationRecord
<1>18. \A v \in 0 .. MaxGateOps : [x EXCEPT !.ops = v] \in InvocationRecord
  BY DEF InvocationRecord
<1>19. \A v \in 0 .. 2 : [x EXCEPT !.outbox = v] \in InvocationRecord
  BY DEF InvocationRecord
<1>20. \A v \in 0 .. 2 : [x EXCEPT !.frames = v] \in InvocationRecord
  BY DEF InvocationRecord
<1>21. \A v \in BOOLEAN : [x EXCEPT !.broken = v] \in InvocationRecord
  BY DEF InvocationRecord
<1>22. \A v \in {"none", "cancelled", "other"} : [x EXCEPT !.said = v] \in InvocationRecord
  BY DEF InvocationRecord
<1> QED
  BY <1>1, <1>2, <1>3, <1>4, <1>5, <1>6, <1>7, <1>8, <1>9, <1>10, <1>11,
     <1>12, <1>13, <1>14, <1>15, <1>16, <1>17, <1>18, <1>19, <1>20, <1>21, <1>22

\* What neither a send nor the end of a handler changes.
Same(x, y) ==
    /\ y.conn = x.conn /\ y.req = x.req /\ y.kind = x.kind /\ y.session = x.session
    /\ y.ticket = x.ticket /\ y.track = x.track /\ y.cancelled = x.cancelled
    /\ y.result = x.result /\ y.exec = x.exec /\ y.ops = x.ops

\* What a send does not change besides.
SameHandler(x, y) ==
    /\ Same(x, y) /\ y.lease = x.lease /\ y.local = x.local /\ y.rec = x.rec
    /\ y.revoked = x.revoked /\ y.revokedTicket = x.revokedTicket
    /\ y.removalVerified = x.removalVerified

\* Facts about x that a send leaves true.
LEMMA SendKeepsFacts ==
    ASSUME NEW x, NEW y, SameHandler(x, y), y.phase = "terminal" \/ y.phase = x.phase,
           Core(x)
    PROVE  TicketFacts(y) /\ RevocationFacts(y) /\ LeaseFacts(y)
<1>1. TicketFacts(y)
  BY DEF SameHandler, Same, Core, TicketFacts
<1>2. RevocationFacts(y)
  BY DEF SameHandler, Same, Core, RevocationFacts
<1>3. LeaseFacts(y)
  BY DEF SameHandler, Same, Core, LeaseFacts
<1> QED
  BY <1>1, <1>2, <1>3

\* enqueue adds the frame to a queue that is empty, or does nothing.
LEMMA Enqueued ==
    ASSUME NEW x \in InvocationRecord, NEW what \in {"cancelled", "other"},
           FrameFacts(x), x.broken \/ (x.frames = 0 /\ x.outbox = 0),
           NEW y, y = enqueue(x, what)
    PROVE  /\ y \in InvocationRecord /\ SameHandler(x, y)
           /\ y.pc = x.pc /\ y.inTry = x.inTry /\ y.phase = x.phase
           /\ y.terminalSent = x.terminalSent /\ y.broken = x.broken
           /\ y.frames + y.outbox <= 1 /\ (y.broken => y.outbox = 0)
           /\ y.said \in {what, x.said}
<1>1. CASE x.broken
  <2>1. y = x
    BY <1>1 DEF enqueue
  <2> QED
    BY <1>1, <2>1 DEF FrameFacts, SameHandler, Same
<1>2. CASE ~x.broken
  <2>1. x.outbox = 0 /\ 0 + 1 = 1 /\ 1 \in 0 .. 2 /\ what \in {"none", "cancelled", "other"}
    BY <1>2
  <2>2. y = [x EXCEPT !.outbox = 1, !.said = what]
    BY <1>2, <2>1 DEF enqueue
  <2>3. y \in InvocationRecord
    <3>1. [x EXCEPT !.outbox = 1, !.said = what] \in InvocationRecord
      BY <2>1, Retyped
    <3> QED
      BY <2>2, <3>1
  <2> QED
    BY <1>2, <2>1, <2>2, <2>3 DEF SameHandler, Same, InvocationRecord
<1> QED
  BY <1>1, <1>2

\* A record whose handler ends: it has been sent what it is sent, or needs nothing.
LEMMA EndSound ==
    ASSUME NEW x, NEW y, y \in InvocationRecord, Core(x), SameHandler(x, y),
           x.ticket \in {"none", "terminal"},
           x.local /\ x.result = "error" => x.exec = "over",
           FrameFacts(y), y.phase = "terminal" \/ y.phase = x.phase,
           y.pc = "done" \/ (y.pc = "sending" /\ y.phase = "terminal")
    PROVE  Sound(y)
<1>1. PcFacts(y)
  BY DEF PcFacts, SameHandler, Same
<1> QED
  BY <1>1, SendKeepsFacts DEF Sound, Core

\* The terminal frame of a request that ends: sendTerminal.
LEMMA TerminalSent ==
    ASSUME NEW x \in InvocationRecord, Core(x), x.broken \/ Silent(x),
           x.ticket \in {"none", "terminal"},
           x.local /\ x.result = "error" => x.exec = "over",
           NEW b \in BOOLEAN, NEW y, y = sendTerminal(x, b)
    PROVE  /\ Sound(y) /\ SameHandler(x, y) /\ y.pc = "sending"
<1> DEFINE a == [x EXCEPT !.phase = "terminal"]
<1> DEFINE e == enqueue(a, "other")
<1>1. a \in InvocationRecord /\ SameHandler(x, a) /\ a.phase = "terminal"
      /\ a.frames = x.frames /\ a.outbox = x.outbox /\ a.broken = x.broken
      /\ a.terminalSent = x.terminalSent /\ a.said = x.said
  BY DEF InvocationRecord, SameHandler, Same
<1> HIDE DEF a
<1>2. FrameFacts(a) /\ (a.broken \/ (a.frames = 0 /\ a.outbox = 0))
  BY <1>1 DEF Core, FrameFacts, Silent, SameHandler, Same
<1>3. /\ e \in InvocationRecord /\ SameHandler(a, e) /\ e.phase = "terminal"
      /\ e.terminalSent = x.terminalSent /\ e.broken = x.broken
      /\ e.frames + e.outbox <= 1 /\ (e.broken => e.outbox = 0)
      /\ e.said \in {"other", x.said}
  BY <1>1, <1>2, Enqueued
<1> HIDE DEF e
<1>4. y = [e EXCEPT !.pc = "sending", !.inTry = b]
  BY DEF sendTerminal, sendInvokeTerminal, e, a
<1>5. y \in InvocationRecord
  <2>1. [e EXCEPT !.pc = "sending", !.inTry = b] \in InvocationRecord
    BY ONLY <1>3, b \in BOOLEAN, Retyped DEF Pc
  <2> QED
    BY <1>4, <2>1
<1>6. /\ SameHandler(e, y) /\ y.phase = "terminal"
      /\ y.frames + y.outbox <= 1 /\ (y.broken => y.outbox = 0)
      /\ y.said \in {"other", x.said} /\ y.pc = "sending"
  BY <1>3, <1>4 DEF InvocationRecord, SameHandler, Same
<1>7. SameHandler(x, y)
  BY <1>1, <1>3, <1>6 DEF SameHandler, Same
<1>8. FrameFacts(y)
  BY <1>6, <1>7 DEF FrameFacts, Core, SameHandler, Same
<1> QED
  BY <1>5, <1>6, <1>7, <1>8, EndSound

\* The terminal frame of a request that was revoked, if the websocket is open:
\* returnRevoked.
LEMMA RevokedReturned ==
    ASSUME NEW x \in InvocationRecord, Core(x), x.broken \/ Silent(x) \/ x.terminalSent,
           x.ticket = "none" \/ x.result = "revoked",
           x.ticket \in {"none", "terminal"},
           x.local /\ x.result = "error" => x.exec = "over",
           NEW y, y = returnRevoked(x)
    PROVE  /\ Sound(y) /\ SameHandler(x, y) /\ y.pc \in {"sending", "done"}
           /\ y.inTry = x.inTry
<1>1. CASE conn[x.conn] # "open"
  <2>1. y = [x EXCEPT !.pc = "done"]
    BY <1>1 DEF returnRevoked
  <2>2. y \in InvocationRecord /\ SameHandler(x, y) /\ y.pc = "done" /\ y.phase = x.phase
        /\ y.frames = x.frames /\ y.outbox = x.outbox /\ y.broken = x.broken
        /\ y.terminalSent = x.terminalSent /\ y.said = x.said /\ y.inTry = x.inTry
    BY <2>1 DEF InvocationRecord, Pc, SameHandler, Same
  <2>3. FrameFacts(y)
    BY <2>2 DEF FrameFacts, Core, SameHandler, Same
  <2> QED
    BY <2>2, <2>3, EndSound
<1>2. CASE conn[x.conn] = "open"
  <2> DEFINE e == sendRevokedCancellationTerminal(x)
  <2>1. /\ e \in InvocationRecord /\ SameHandler(x, e) /\ e.phase = "terminal"
        /\ e.frames + e.outbox <= 1 /\ (e.broken => e.outbox = 0)
        /\ e.said \in {"cancelled", x.said} /\ e.inTry = x.inTry
    <3>1. CASE x.terminalSent
      <4>1. e = x
        BY <3>1 DEF sendRevokedCancellationTerminal
      <4> HIDE DEF e
      <4> QED
        BY <3>1, <4>1 DEF Core, FrameFacts, SameHandler, Same
    <3>2. CASE ~x.terminalSent
      <4> DEFINE a == [x EXCEPT !.phase = "terminal", !.terminalSent = TRUE]
      <4>1. a \in InvocationRecord
        BY Retyped
      <4>2. SameHandler(x, a) /\ a.phase = "terminal"
            /\ a.frames = x.frames /\ a.outbox = x.outbox /\ a.broken = x.broken
            /\ a.said = x.said /\ a.inTry = x.inTry
        BY DEF InvocationRecord, SameHandler, Same
      <4>3. e = enqueue(a, "cancelled")
        BY <3>2 DEF sendRevokedCancellationTerminal
      <4> HIDE DEF a, e
      <4>4. FrameFacts(a) /\ (a.broken \/ (a.frames = 0 /\ a.outbox = 0))
        BY <3>2, <4>2 DEF Core, FrameFacts, Silent, SameHandler, Same
      <4>5. /\ e \in InvocationRecord /\ SameHandler(a, e) /\ e.phase = "terminal"
            /\ e.frames + e.outbox <= 1 /\ (e.broken => e.outbox = 0)
            /\ e.said \in {"cancelled", x.said} /\ e.inTry = x.inTry
        BY <4>1, <4>2, <4>3, <4>4, Enqueued
      <4> QED
        BY <4>2, <4>5 DEF SameHandler, Same
    <3> QED
      BY <3>1, <3>2
  <2>2. y = [e EXCEPT !.pc = "sending"]
    BY <1>2 DEF returnRevoked
  <2> HIDE DEF e
  <2>3. y \in InvocationRecord /\ SameHandler(e, y) /\ y.pc = "sending"
        /\ y.phase = "terminal" /\ y.frames + y.outbox <= 1
        /\ (y.broken => y.outbox = 0) /\ y.inTry = x.inTry
    BY <2>1, <2>2 DEF InvocationRecord, Pc, SameHandler, Same
  <2>4. SameHandler(x, y)
    BY <2>1, <2>3 DEF SameHandler, Same
  <2>5. FrameFacts(y)
    BY <2>3, <2>4 DEF FrameFacts, SameHandler, Same
  <2> QED
    BY <2>3, <2>4, <2>5, EndSound
<1> QED
  BY <1>1, <1>2

\* The end of the catch block: catchTail.
LEMMA Caught ==
    ASSUME NEW x \in InvocationRecord, Core(x),
           \/ x.broken \/ Silent(x)
           \/ x.terminalSent /\ cancellationRemovalIsVerified(x),
           x.ticket \in {"none", "terminal"},
           x.local /\ x.result = "error" => x.exec = "over",
           NEW y, y = catchTail(x)
    PROVE  Sound(y) /\ SameHandler(x, y) /\ y.pc \in {"sending", "done"}
<1>1. CASE cancellationRemovalIsVerified(x)
  <2> DEFINE r == returnRevoked(x)
  <2>1. x.ticket = "none" \/ x.result = "revoked"
    BY <1>1 DEF cancellationRemovalIsVerified, Core, RevocationFacts
  <2>2. Sound(r) /\ SameHandler(x, r) /\ r.pc \in {"sending", "done"}
    BY <2>1, RevokedReturned
  <2>3. y = [r EXCEPT !.inTry = FALSE]
    BY <1>1 DEF catchTail
  <2> HIDE DEF r
  <2>4. y \in InvocationRecord /\ SameHandler(r, y) /\ y.pc = r.pc /\ y.phase = r.phase
        /\ y.frames = r.frames /\ y.outbox = r.outbox /\ y.broken = r.broken
        /\ y.terminalSent = r.terminalSent /\ y.said = r.said
    <3>1. r \in InvocationRecord
      BY <2>2 DEF Sound
    <3>2. [r EXCEPT !.inTry = FALSE] \in InvocationRecord
      BY <3>1, Retyped
    <3> QED
      BY ONLY <2>3, <3>1, <3>2 DEF InvocationRecord, SameHandler, Same
  <2>5. FrameFacts(y)
    BY <2>2, <2>4 DEF FrameFacts, Sound, Core, SameHandler, Same
  <2>6. y.pc = "done" \/ (y.pc = "sending" /\ y.phase = "terminal")
    BY <2>2, <2>4 DEF Sound, PcFacts
  <2>7. SameHandler(x, y)
    BY <2>2, <2>4 DEF SameHandler, Same
  <2>8. Core(r) /\ r.ticket \in {"none", "terminal"}
        /\ (r.local /\ r.result = "error" => r.exec = "over")
    BY <2>2 DEF Sound, SameHandler, Same
  <2> QED
    BY <2>2, <2>4, <2>5, <2>6, <2>7, <2>8, EndSound
<1>2. CASE ~cancellationRemovalIsVerified(x)
  <2>1. y = sendTerminal(x, FALSE)
    BY <1>2 DEF catchTail
  <2> QED
    BY <1>2, <2>1, TerminalSent
<1> QED
  BY <1>1, <1>2

\* The finally block.
LEMMA FinallySound ==
    ASSUME NEW i \in Invocation, NEW x, NEW cn, NEW ss, Tied(i, x, cn, ss),
           x.pc = "done", NEW y, y = finally(x)
    PROVE  /\ Tied(i, y, cn, ss) /\ Same(x, y) /\ y.pc = "done" /\ Finished(y)
           /\ Doomed(x, ss) => Doomed(y, ss)
<1> DEFINE v == IF x.rec = x.local /\ x.local THEN "released" ELSE x.lease
<1>1. x \in InvocationRecord /\ Core(x) /\ PcFacts(x)
  BY DEF Tied, Sound
<1>2. v \in {"none", "held", "released"}
  BY <1>1 DEF InvocationRecord
<1>3. y = [x EXCEPT !.lease = v,
              !.rec = FALSE, !.local = FALSE, !.phase = "terminal", !.inTry = FALSE,
              !.stage = 1, !.broken = FALSE, !.revoked = FALSE, !.revokedTicket = FALSE,
              !.removalVerified = FALSE, !.terminalSent = FALSE]
  BY DEF finally
<1> HIDE DEF v
<1>4. y \in InvocationRecord
  <2>1. [x EXCEPT !.lease = v,
              !.rec = FALSE, !.local = FALSE, !.phase = "terminal", !.inTry = FALSE,
              !.stage = 1, !.broken = FALSE, !.revoked = FALSE, !.revokedTicket = FALSE,
              !.removalVerified = FALSE, !.terminalSent = FALSE] \in InvocationRecord
    BY ONLY <1>1, <1>2, Retyped
  <2> QED
    BY <1>3, <2>1
<1>5. /\ Same(x, y) /\ y.pc = x.pc /\ y.lease = v /\ y.rec = FALSE /\ y.local = FALSE
      /\ y.phase = "terminal" /\ y.broken = FALSE /\ y.revoked = FALSE
      /\ y.revokedTicket = FALSE /\ y.removalVerified = FALSE /\ y.terminalSent = FALSE
      /\ y.frames = x.frames /\ y.outbox = x.outbox /\ y.said = x.said
  BY ONLY <1>1, <1>3 DEF InvocationRecord, Same
<1>6. /\ (x.rec => v = "released") /\ (~x.rec => v = x.lease)
      /\ (x.rec => x.lease = "held" /\ x.exec # "running" /\ x.local)
  <2>1. /\ (x.rec => x.local /\ x.lease = "held")
        /\ x.rec \in BOOLEAN /\ x.local \in BOOLEAN
    BY <1>1 DEF Core, LeaseFacts, InvocationRecord
  <2>2. (x.rec => v = "released") /\ (~x.rec => v = x.lease)
    BY <2>1 DEF v
  <2>3. x.rec => x.exec # "running"
    <3>1. x.ticket \in {"none", "terminal"} /\ (x.local /\ x.result = "error" => x.exec = "over")
      BY <1>1 DEF PcFacts
    <3>2. x.result \in {"none", "value", "revoked", "error"}
      BY <1>1 DEF InvocationRecord
    <3> QED
      BY <1>1, <2>1, <3>1, <3>2 DEF Core, TicketFacts
  <2> QED
    BY <2>1, <2>2, <2>3
<1>7. FrameFacts(y) /\ TicketFacts(y)
  BY <1>1, <1>5 DEF Core, FrameFacts, TicketFacts, Same
<1>8. RevocationFacts(y)
  BY <1>1, <1>5 DEF Core, RevocationFacts, Same
<1>9. LeaseFacts(y) /\ PcFacts(y)
  BY <1>1, <1>5, <1>6 DEF Core, LeaseFacts, PcFacts, Same
<1>10. SessionTie(y, ss)
  <2>1. SessionTie(x, ss)
    BY DEF Tied
  <2>2. ~(x.rec /\ x.result = "error" /\ x.exec = "no")
    BY <1>1, <1>6 DEF PcFacts
  <2> QED
    BY <1>5, <1>6, <2>1, <2>2 DEF SessionTie, Same
<1>11. ConnTie(y, cn, ss)
  BY <1>5 DEF ConnTie
<1>12. HoldTie(i, y, ss)
  <2>1. HoldTie(i, x, ss)
    BY DEF Tied
  <2> QED
    BY <1>5, <1>6, <2>1 DEF HoldTie, Same
<1>13. Doomed(x, ss) => Doomed(y, ss)
  BY <1>5 DEF Doomed, Same
<1>14. Finished(y)
  BY <1>5 DEF Finished
<1> QED
  BY <1>4, <1>5, <1>7, <1>8, <1>9, <1>10, <1>11, <1>12, <1>13, <1>14 DEF Tied, Sound, Core

\* A ticket that is rejected when its session closes.
LEMMA Rejected ==
    ASSUME NEW x, Sound(x), NEW y, y = Reject(x)
    PROVE  /\ Sound(y) /\ y.ticket \in {"none", "terminal"}
           /\ y.conn = x.conn /\ y.req = x.req /\ y.kind = x.kind /\ y.session = x.session
           /\ y.pc = x.pc /\ y.lease = x.lease /\ y.local = x.local /\ y.rec = x.rec
           /\ y.revoked = x.revoked /\ y.revokedTicket = x.revokedTicket
           /\ y.track = x.track /\ y.cancelled = x.cancelled /\ y.exec = x.exec
           /\ y.ops = x.ops
           /\ x.ticket \in {"none", "terminal"} => y = x
           /\ x.result # "none" => y = x
<1>1. x \in InvocationRecord /\ Core(x) /\ PcFacts(x)
  BY DEF Sound
<1>2. CASE x.ticket \notin {"queued", "active"}
  <2>1. y = x /\ x.ticket \in {"none", "terminal"}
    BY <1>1, <1>2 DEF Reject, InvocationRecord
  <2> QED
    BY <2>1
<1>3. CASE x.ticket \in {"queued", "active"}
  <2>1. y = [x EXCEPT !.ticket = "terminal", !.result = "error"]
    BY <1>3 DEF Reject
  <2>2. y \in InvocationRecord
    <3>1. [x EXCEPT !.ticket = "terminal", !.result = "error"] \in InvocationRecord
      BY ONLY <1>1, Retyped
    <3> QED
      BY <2>1, <3>1
  <2>3. /\ y.conn = x.conn /\ y.req = x.req /\ y.kind = x.kind /\ y.session = x.session
        /\ y.pc = x.pc /\ y.lease = x.lease /\ y.local = x.local /\ y.rec = x.rec
        /\ y.revoked = x.revoked /\ y.revokedTicket = x.revokedTicket
        /\ y.removalVerified = x.removalVerified
        /\ y.track = x.track /\ y.cancelled = x.cancelled /\ y.exec = x.exec
        /\ y.ops = x.ops /\ y.phase = x.phase /\ y.terminalSent = x.terminalSent
        /\ y.frames = x.frames /\ y.outbox = x.outbox /\ y.broken = x.broken
        /\ y.said = x.said /\ y.ticket = "terminal" /\ y.result = "error"
    BY ONLY <1>1, <2>1 DEF InvocationRecord
  <2>4. x.pc = "running" /\ x.result = "none" /\ x.session # None
    BY <1>1, <1>3 DEF PcFacts, Core, TicketFacts
  <2>5. FrameFacts(y) /\ TicketFacts(y)
    BY <1>1, <1>3, <2>3, <2>4 DEF Core, FrameFacts, TicketFacts
  <2>6. RevocationFacts(y)
    BY <1>1, <1>3, <2>3, <2>4 DEF Core, RevocationFacts
  <2>7. LeaseFacts(y) /\ PcFacts(y)
    BY <1>1, <1>3, <2>3, <2>4 DEF Core, LeaseFacts, PcFacts, Silent
  <2> QED
    BY <1>3, <2>2, <2>3, <2>4, <2>5, <2>6, <2>7 DEF Sound, Core
<1> QED
  BY <1>2, <1>3

-----------------------------------------------------------------------------
(* Tables.                                                                 *)

\* How a step may change the records f to g while the sessions go from ss to tt:
\* no record comes or goes, and what is doomed stays doomed.
Evolves(f, g, ss, tt) ==
    \A j \in Invocation :
        /\ g[j] = None <=> f[j] = None
        /\ f[j] # None =>
              /\ g[j].conn = f[j].conn /\ g[j].req = f[j].req
              /\ f[j].session # None => g[j].session = f[j].session
              /\ Doomed(f[j], ss) => Doomed(g[j], tt)
              /\ Finished(f[j]) => Finished(g[j])

\* None is none of the things it stands in for.
LEMMA NoneApart ==
    /\ None \notin Invocation /\ None \notin Session
    /\ None \notin InvocationRecord /\ None \notin Receipt
BY InvokeAssumption DEF Session

\* Receipts are kept true by records that evolve.
LEMMA ReceiptsFollow ==
    ASSUME NEW rs \in [Conn -> [CancelId -> Receipt \cup {None}]],
           NEW f, NEW g, NEW ss, NEW tt, ReceiptsKept(rs, f, ss), Evolves(f, g, ss, tt)
    PROVE  ReceiptsKept(rs, g, tt)
<1> SUFFICES ASSUME NEW c \in Conn, NEW k \in CancelId, rs[c][k] # None,
                    rs[c][k].outcome = "cancelled_before_start"
             PROVE  /\ rs[c][k].of # None /\ g[rs[c][k].of] # None
                    /\ Doomed(g[rs[c][k].of], tt)
  BY DEF ReceiptsKept
<1> DEFINE o == rs[c][k].of
<1>1. rs[c][k] \in Receipt
  OBVIOUS
<1>2. o \in Invocation \cup {None}
  BY <1>1 DEF Receipt
<1>3. o # None /\ f[o] # None /\ Doomed(f[o], ss)
  BY DEF ReceiptsKept
<1> HIDE DEF o
<1>4. g[o] # None /\ Doomed(g[o], tt)
  BY <1>2, <1>3 DEF Evolves
<1> QED
  BY <1>3, <1>4 DEF o

\* Routing entries are removed, or stay with their request.
LEMMA RoutesFollow ==
    ASSUME NEW fl \in [Request -> Invocation \cup {None}], NEW gl,
           NEW f, NEW g, NEW ss, NEW tt, Routes(fl, f), Evolves(f, g, ss, tt),
           \A r \in Request : gl[r] \in {fl[r], None}
    PROVE  Routes(gl, g)
<1> SUFFICES ASSUME NEW r \in Request, gl[r] # None
             PROVE  g[gl[r]] # None /\ g[gl[r]].req = r /\ g[gl[r]].session # None
  BY DEF Routes
<1>1. gl[r] = fl[r] /\ fl[r] \in Invocation
  OBVIOUS
<1>2. f[fl[r]] # None /\ f[fl[r]].req = r /\ f[fl[r]].session # None
  BY <1>1, NoneApart DEF Routes
<1> QED
  BY <1>1, <1>2 DEF Evolves

\* A request that runs keeps its entry, unless its session is closed.
LEMMA ReachedFollow ==
    ASSUME NEW fl \in [Request -> Invocation \cup {None}], NEW gl,
           NEW f \in [Invocation -> InvocationRecord \cup {None}],
           NEW g \in [Invocation -> InvocationRecord \cup {None}],
           NEW ss, NEW tt,
           Reached(fl, f, ss), Evolves(f, g, ss, tt),
           \A j \in Invocation : g[j] # None /\ g[j].pc = "running" =>
               f[j].pc = "running" /\ f[j].session # None,
           \A j \in Invocation : g[j] # None =>
               SessionTie(g[j], tt) /\ PcFacts(g[j]),
           \A s \in Session : ss[s].closed => tt[s].closed,
           \A r \in Request : gl[r] # fl[r] =>
               /\ gl[r] = None /\ fl[r] \in Invocation
               /\ g[fl[r]].pc = "running" => tt[g[fl[r]].session].closed
    PROVE  Reached(gl, g, tt)
<1> SUFFICES ASSUME NEW i \in Invocation, g[i] # None, g[i].pc = "running"
             PROVE  \/ gl[g[i].req] = i
                    \/ /\ gl[g[i].req] = None /\ tt[g[i].session].closed
                       /\ g[i].ticket = "terminal"
  BY DEF Reached
<1> DEFINE r == g[i].req
<1> DEFINE s == g[i].session
<1>1. f[i] # None /\ f[i].pc = "running" /\ f[i].req = r /\ f[i].session = s
      /\ s # None
  BY DEF Evolves
<1>2. f[i] \in InvocationRecord /\ g[i] \in InvocationRecord
  BY <1>1
<1>3. r \in Request /\ s \in Session
  BY <1>1, <1>2 DEF InvocationRecord
<1>4. fl[r] = i \/ (fl[r] = None /\ ss[s].closed)
  BY <1>1 DEF Reached
<1>5. tt[s].closed => g[i].ticket = "terminal"
  BY <1>1, NoneApart DEF SessionTie, PcFacts
<1> HIDE DEF r, s
<1>6. CASE gl[r] = fl[r]
  BY <1>3, <1>4, <1>5, <1>6 DEF r, s
<1>7. CASE gl[r] # fl[r]
  <2>1. gl[r] = None /\ fl[r] \in Invocation
        /\ (g[fl[r]].pc = "running" => tt[g[fl[r]].session].closed)
    BY <1>3, <1>7
  <2>2. fl[r] = i
    BY <1>4, <2>1, NoneApart
  <2>3. tt[s].closed
    BY <2>1, <2>2 DEF s
  <2> QED
    BY <1>5, <2>1, <2>3 DEF r, s
<1> QED
  BY <1>6, <1>7

\* Handlers go on: neither the budget nor the records of a websocket change.
LEMMA BudgetSame ==
    ASSUME NEW f, NEW g, NEW ss, NEW tt, Evolves(f, g, ss, tt),
           \A j \in Invocation : f[j] # None => (g[j].pc = "done" <=> f[j].pc = "done")
    PROVE  /\ RunningIn(g) = RunningIn(f)
           /\ \A c \in Conn : RecordsOf(g, c) = RecordsOf(f, c)
           /\ \A ids, n : Budget(f, ids, n) => Budget(g, ids, n)
           /\ \A tb, rs : Bounded(f, tb, rs) => Bounded(g, tb, rs)
<1>1. RunningIn(g) = RunningIn(f)
  BY DEF RunningIn, Evolves
<1>2. \A i \in RunningIn(f) : g[i].req = f[i].req /\ g[i].conn = f[i].conn
  BY DEF RunningIn, Evolves
<1>3. \A c \in Conn : RecordsOf(g, c) = RecordsOf(f, c)
  BY <1>1, <1>2 DEF RecordsOf
<1>4. {g[i].req : i \in RunningIn(g)} = {f[i].req : i \in RunningIn(f)}
  BY <1>1, <1>2
<1>5. ASSUME NEW ids, NEW n, Budget(f, ids, n)
      PROVE  Budget(g, ids, n)
  BY <1>1, <1>2, <1>4, <1>5 DEF Budget
<1>6. ASSUME NEW tb, NEW rs, Bounded(f, tb, rs)
      PROVE  Bounded(g, tb, rs)
  BY <1>3, <1>6 DEF Bounded
<1> QED
  BY <1>1, <1>3, <1>5, <1>6

\* Records and tables are finite.
LEMMA TablesFinite ==
    ASSUME NEW f, NEW rs, NEW c
    PROVE  /\ IsFiniteSet(RunningIn(f)) /\ IsFiniteSet(RecordsOf(f, c))
           /\ IsFiniteSet(ReceiptsOf(rs, c))
           /\ Cardinality(RecordsOf(f, c)) \in Nat /\ Cardinality(ReceiptsOf(rs, c)) \in Nat
           /\ Cardinality(RunningIn(f)) \in Nat
           /\ \A R \in SUBSET Request : IsFiniteSet(R) /\ Cardinality(R) \in Nat
<1>1. IsFiniteSet(RunningIn(f)) /\ IsFiniteSet(RecordsOf(f, c))
  BY InvokeAssumption, FS_Subset DEF RunningIn, RecordsOf
<1>2. IsFiniteSet(ReceiptsOf(rs, c))
  BY InvokeAssumption, FS_Subset DEF ReceiptsOf
<1>3. \A R \in SUBSET Request : IsFiniteSet(R)
  BY InvokeAssumption, FS_Subset
<1> QED
  BY <1>1, <1>2, <1>3, FS_CardinalityType

\* A handler ends: its request id and its slot are given back, and its record
\* makes room for its tombstone.
LEMMA BudgetEnds ==
    ASSUME NEW f \in [Invocation -> InvocationRecord \cup {None}],
           NEW g, NEW ss, NEW tt, Evolves(f, g, ss, tt),
           NEW i \in Invocation, f[i] # None, f[i].pc # "done", g[i].pc = "done",
           \A j \in Invocation \ {i} :
               f[j] # None => (g[j].pc = "done" <=> f[j].pc = "done"),
           NEW ids \in SUBSET Request, NEW n \in 0 .. MaxInFlight, Budget(f, ids, n),
           NEW tb \in [Conn -> SUBSET Request], NEW rs, Bounded(f, tb, rs)
    PROVE  /\ Budget(g, ids \ {f[i].req}, n - 1) /\ n - 1 \in 0 .. MaxInFlight
           /\ Bounded(g, [tb EXCEPT ![f[i].conn] = @ \cup {f[i].req}], rs)
<1> DEFINE r == f[i].req
<1> DEFINE c == f[i].conn
<1>1. f[i] \in InvocationRecord
  OBVIOUS
<1>2. r \in Request /\ c \in Conn
  BY <1>1 DEF InvocationRecord
<1>3. i \in RunningIn(f) /\ RunningIn(g) = RunningIn(f) \ {i}
  BY DEF RunningIn, Evolves
<1>4. \A j \in RunningIn(g) : g[j].req = f[j].req /\ g[j].conn = f[j].conn
  BY DEF RunningIn, Evolves
<1>5. IsFiniteSet(RunningIn(f)) /\ IsFiniteSet(ids) /\ IsFiniteSet(RecordsOf(f, c))
  BY TablesFinite
<1>6. r \in ids /\ n = Cardinality(RunningIn(f)) /\ n = Cardinality(ids)
      /\ ids = {f[j].req : j \in RunningIn(f)}
  BY <1>3 DEF Budget
<1>7. ids \ {r} = {g[j].req : j \in RunningIn(g)}
  BY <1>3, <1>4 DEF Budget
<1>8. Cardinality(RunningIn(g)) = n - 1 /\ Cardinality(ids \ {r}) = n - 1
  <2> HIDE DEF r
  <2>1. Cardinality(RunningIn(f) \ {i}) = Cardinality(RunningIn(f)) - 1
    BY <1>3, <1>5, FS_RemoveElement
  <2>2. Cardinality(ids \ {r}) = Cardinality(ids) - 1
    BY <1>5, <1>6, FS_RemoveElement
  <2> QED
    BY <1>3, <1>6, <2>1, <2>2
<1>9. \A j, k \in RunningIn(g) : g[j].req = g[k].req => j = k
  BY <1>3, <1>4 DEF Budget
<1>10. n - 1 \in 0 .. MaxInFlight
  <2>1. Cardinality(RunningIn(g)) \in Nat
    BY TablesFinite
  <2> QED
    BY <1>8, <2>1, InvokeAssumption
<1>11. Budget(g, ids \ {r}, n - 1)
  BY <1>7, <1>8, <1>9 DEF Budget
<1> DEFINE ub == [tb EXCEPT ![c] = @ \cup {r}]
<1>12. Bounded(g, ub, rs)
  <2> SUFFICES ASSUME NEW d \in Conn
               PROVE  Cardinality(RecordsOf(g, d)) + Cardinality(ub[d])
                        + Cardinality(ReceiptsOf(rs, d)) <= MaxRecords
    BY DEF Bounded
  <2>1. Cardinality(RecordsOf(f, d)) + Cardinality(tb[d])
          + Cardinality(ReceiptsOf(rs, d)) <= MaxRecords
    BY DEF Bounded
  <2>2. CASE d # c
    <3>1. ub[d] = tb[d]
      BY <2>2
    <3>2. RecordsOf(g, d) = RecordsOf(f, d)
      BY <1>3, <1>4, <2>2 DEF RecordsOf
    <3> QED
      BY <2>1, <3>1, <3>2
  <2>3. CASE d = c
    <3>1. ub[d] = tb[d] \cup {r}
      BY <1>2, <2>3
    <3>2. RecordsOf(g, d) = RecordsOf(f, d) \ {i} /\ i \in RecordsOf(f, d)
      BY <1>3, <1>4, <2>3 DEF RecordsOf
    <3> HIDE DEF r, c, ub
    <3>3. IsFiniteSet(RecordsOf(f, d)) /\ Cardinality(RecordsOf(f, d)) \in Nat
          /\ Cardinality(RecordsOf(g, d)) \in Nat /\ Cardinality(ReceiptsOf(rs, d)) \in Nat
      BY TablesFinite
    <3>4. Cardinality(RecordsOf(g, d)) = Cardinality(RecordsOf(f, d)) - 1
      <4>1. Cardinality(RecordsOf(f, d) \ {i}) = Cardinality(RecordsOf(f, d)) - 1
        BY <3>2, <3>3, FS_RemoveElement
      <4> QED
        BY <3>2, <4>1
    <3>5. IsFiniteSet(tb[d]) /\ Cardinality(tb[d]) \in Nat
      BY TablesFinite
    <3>6. Cardinality(ub[d]) \in Nat /\ Cardinality(ub[d]) <= Cardinality(tb[d]) + 1
      <4>1. Cardinality(tb[d] \cup {r}) =
              IF r \in tb[d] THEN Cardinality(tb[d]) ELSE Cardinality(tb[d]) + 1
        BY <3>5, FS_AddElement
      <4> QED
        BY <3>1, <3>5, <4>1
    <3>7. MaxRecords \in Nat
      BY InvokeAssumption
    <3> QED
      BY <2>1, <3>3, <3>4, <3>5, <3>6, <3>7
  <2> QED
    BY <2>2, <2>3
<1> QED
  BY <1>10, <1>11, <1>12

-----------------------------------------------------------------------------
(* Steps.                                                                  *)

ConnType(cn) == cn \in [Conn -> {"unused", "open", "closing", "closed"}]

\* A request that runs has a session.
LEMMA RunningHasSession ==
    ASSUME NEW f, NEW cn, NEW ss, RecordsKept(f, cn, ss), NEW j \in Invocation,
           f[j] # None, f[j].pc = "running"
    PROVE  f[j].session # None
BY DEF RecordsKept, Tied, Sound, Core, TicketFacts, PcFacts

\* Requests stay, each with its websocket.
SameWebsockets ==
    \A j \in Invocation : inv[j] # None => inv'[j] # None /\ inv'[j].conn = inv[j].conn

SafeStep == InvokeInv' /\ SameWebsockets

\* A step in which no handler starts or ends.
LEMMA PlainStep ==
    ASSUME InvokeInv, ConnType(conn'), RecordsKept(inv', conn', session'),
           Evolves(inv, inv', session, session'),
           \A j \in Invocation : inv[j] # None => (inv'[j].pc = "done" <=> inv[j].pc = "done"),
           \A j \in Invocation : inv'[j] # None /\ inv'[j].pc = "running" =>
               inv[j].pc = "running",
           \A s \in Session : session[s].closed => session'[s].closed,
           inFlight' \in [Request -> Invocation \cup {None}],
           \A r \in Request : inFlight'[r] # inFlight[r] =>
               /\ inFlight'[r] = None /\ inFlight[r] \in Invocation
               /\ inv'[inFlight[r]].pc = "running" =>
                     session'[inv'[inFlight[r]].session].closed,
           UNCHANGED <<tombstones, receipts, requestIds, inFlightInvokes>>
    PROVE  SafeStep
<1> DEFINE G == inv'
<1> DEFINE T == session'
<1>1. TypeOK'
  BY DEF InvokeInv, TypeOK, RecordsKept, ConnType
<1>2. ReceiptsKept(receipts, inv', session')
  BY ReceiptsFollow DEF InvokeInv, TypeOK
<1>3. Routes(inFlight', inv')
  BY RoutesFollow DEF InvokeInv, TypeOK
<1>4. Reached(inFlight', inv', session')
  <2>1. /\ inFlight \in [Request -> Invocation \cup {None}]
        /\ inv \in [Invocation -> InvocationRecord \cup {None}]
        /\ inv' \in [Invocation -> InvocationRecord \cup {None}]
        /\ Reached(inFlight, inv, session)
    BY DEF InvokeInv, TypeOK, RecordsKept
  <2>2. \A j \in Invocation : inv'[j] # None /\ inv'[j].pc = "running" =>
            inv[j].pc = "running" /\ inv[j].session # None
    BY RunningHasSession DEF InvokeInv, Evolves
  <2>3. \A j \in Invocation : inv'[j] # None =>
            SessionTie(inv'[j], session') /\ PcFacts(inv'[j])
    BY DEF RecordsKept, Tied, Sound
  <2> QED
    BY <2>1, <2>2, <2>3, ReachedFollow
<1>5. Budget(inv', requestIds, inFlightInvokes) /\ Bounded(inv', tombstones, receipts)
  BY BudgetSame DEF InvokeInv
<1>6. SameWebsockets
  BY DEF Evolves, SameWebsockets
<1>7. AllFinished(inv')
  BY DEF InvokeInv, AllFinished, Evolves
<1> QED
  BY <1>1, <1>2, <1>3, <1>4, <1>5, <1>6, <1>7 DEF InvokeInv, SafeStep

\* A step of the handler of i, which may end it.
LEMMA Continued ==
    ASSUME InvokeInv, NEW i \in Invocation, Running(i), NEW f,
           RecordsKept(f, conn, session'), Evolves(inv, f, session, session'),
           \A j \in Invocation \ {i} : inv[j] # None => f[j].pc = inv[j].pc,
           f[i].pc = "running" => inv[i].pc = "running",
           \A s \in Session : session[s].closed => session'[s].closed,
           conn' = conn, receipts' = receipts, continue(i, f)
    PROVE  SafeStep
<1> DEFINE r == f[i].req
<1>1. inv \in [Invocation -> InvocationRecord \cup {None}]
      /\ f \in [Invocation -> InvocationRecord \cup {None}]
      /\ session' \in [Session -> SdkSession] /\ ConnType(conn')
  BY DEF InvokeInv, TypeOK, RecordsKept, ConnType
<1>2. inv[i] # None /\ f[i] # None /\ inv[i].pc # "done" /\ f[i].req = inv[i].req
      /\ f[i].conn = inv[i].conn /\ inv[i] \in InvocationRecord
  BY <1>1 DEF Running, Evolves
<1>3. CASE f[i].pc # "done"
  <2>1. /\ inv' = f /\ inFlight' = inFlight
        /\ UNCHANGED <<tombstones, receipts, requestIds, inFlightInvokes>>
    <3>1. [f EXCEPT ![i] = f[i]] = f
      BY <1>1
    <3> QED
      BY <1>3, <3>1 DEF continue
  <2>2. inFlight' \in [Request -> Invocation \cup {None}]
    BY <2>1 DEF InvokeInv, TypeOK
  <2>3. RecordsKept(inv', conn', session') /\ Evolves(inv, inv', session, session')
    BY <2>1
  <2>4. \A j \in Invocation : inv[j] # None => (inv'[j].pc = "done" <=> inv[j].pc = "done")
    BY <1>2, <1>3, <2>1
  <2>5. \A j \in Invocation : inv'[j] # None /\ inv'[j].pc = "running" =>
            inv[j].pc = "running"
    BY <2>1, <2>3 DEF Evolves
  <2> QED
    BY <1>1, <2>1, <2>2, <2>3, <2>4, <2>5, PlainStep
<1>4. CASE f[i].pc = "done"
  <2> DEFINE z == finally(f[i])
  <2>1. /\ inv' = [f EXCEPT ![i] = z]
        /\ requestIds' = requestIds \ {inv[i].req}
        /\ inFlightInvokes' = inFlightInvokes - 1
        /\ inFlight' = IF inFlight[inv[i].req] = i /\ f[i].ops = 0
                       THEN [inFlight EXCEPT ![inv[i].req] = None] ELSE inFlight
        /\ tombstones' = [tombstones EXCEPT ![inv[i].conn] = @ \cup {inv[i].req}]
    BY <1>2, <1>4 DEF continue
  <2>2. Tied(i, f[i], conn', session')
    BY <1>2 DEF RecordsKept
  <2>3. /\ Tied(i, z, conn', session') /\ Same(f[i], z) /\ z.pc = "done" /\ Finished(z)
        /\ Doomed(f[i], session') => Doomed(z, session')
    BY <1>4, <2>2, FinallySound
  <2> HIDE DEF z
  <2>4. z \in InvocationRecord /\ z # None
    BY <2>3, NoneApart DEF Tied, Sound
  <2>5. inv' \in [Invocation -> InvocationRecord \cup {None}]
        /\ inv'[i] = z /\ \A j \in Invocation \ {i} : inv'[j] = f[j]
    BY <1>1, <2>1, <2>4
  <2>6. RecordsKept(inv', conn', session')
    <3>1. \A j \in Invocation : inv'[j] # None => Tied(j, inv'[j], conn', session')
      BY <2>3, <2>5 DEF RecordsKept
    <3>2. \A s \in Session, j \in Invocation : j \in session'[s].holds => inv'[j] # None
      BY <2>4, <2>5 DEF RecordsKept
    <3> QED
      BY <2>5, <3>1, <3>2 DEF RecordsKept
  <2>7. Evolves(inv, inv', session, session')
    <3> SUFFICES ASSUME NEW j \in Invocation
                 PROVE  /\ inv'[j] = None <=> inv[j] = None
                        /\ inv[j] # None =>
                              /\ inv'[j].conn = inv[j].conn /\ inv'[j].req = inv[j].req
                              /\ inv[j].session # None => inv'[j].session = inv[j].session
                              /\ Doomed(inv[j], session) => Doomed(inv'[j], session')
                              /\ Finished(inv[j]) => Finished(inv'[j])
      BY DEF Evolves
    <3>1. CASE j # i
      BY <2>5, <3>1 DEF Evolves
    <3>2. CASE j = i
      BY <1>2, <2>3, <2>4, <2>5, <3>2 DEF Evolves, Same
    <3> QED
      BY <3>1, <3>2
  <2>8. \A j \in Invocation : inv'[j] # None /\ inv'[j].pc = "running" =>
            inv[j].pc = "running"
    BY <2>3, <2>5 DEF Evolves
  <2>9. inv[i].req \in Request /\ inv[i].conn \in Conn
    BY <1>2 DEF InvocationRecord
  <2>10. inFlight \in [Request -> Invocation \cup {None}]
    BY DEF InvokeInv, TypeOK
  <2>11. /\ inFlight' \in [Request -> Invocation \cup {None}]
         /\ \A q \in Request : inFlight'[q] # inFlight[q] =>
               inFlight'[q] = None /\ inFlight[q] = i
    BY <2>1, <2>9, <2>10
  <2>12. /\ Budget(inv', requestIds', inFlightInvokes')
         /\ inFlightInvokes' \in 0 .. MaxInFlight
         /\ Bounded(inv', tombstones', receipts')
    <3>1. /\ requestIds \in SUBSET Request /\ inFlightInvokes \in 0 .. MaxInFlight
          /\ Budget(inv, requestIds, inFlightInvokes)
          /\ tombstones \in [Conn -> SUBSET Request] /\ Bounded(inv, tombstones, receipts)
      BY DEF InvokeInv, TypeOK
    <3>2. inv'[i].pc = "done" /\ \A j \in Invocation \ {i} :
               inv[j] # None => (inv'[j].pc = "done" <=> inv[j].pc = "done")
      BY <2>3, <2>5
    <3>3. /\ Budget(inv', requestIds \ {inv[i].req}, inFlightInvokes - 1)
          /\ inFlightInvokes - 1 \in 0 .. MaxInFlight
          /\ Bounded(inv', [tombstones EXCEPT ![inv[i].conn] = @ \cup {inv[i].req}], receipts)
      <4>1. i \in Invocation
        OBVIOUS
      <4> QED
        BY ONLY <1>1, <1>2, <2>7, <3>1, <3>2, <4>1, BudgetEnds
    <3> QED
      BY <2>1, <3>3
  <2>13. TypeOK'
    <3>1. tombstones' \in [Conn -> SUBSET Request] /\ requestIds' \subseteq Request
      BY <2>1, <2>9 DEF InvokeInv, TypeOK
    <3>2. receipts' \in [Conn -> [CancelId -> Receipt \cup {None}]]
      BY DEF InvokeInv, TypeOK
    <3> QED
      BY <1>1, <2>5, <2>11, <2>12, <3>1, <3>2 DEF TypeOK, ConnType
  <2>14. ReceiptsKept(receipts', inv', session')
    BY <2>7, ReceiptsFollow DEF InvokeInv, TypeOK
  <2>15. Routes(inFlight', inv')
    BY <2>7, <2>10, <2>11, RoutesFollow DEF InvokeInv
  <2>16. Reached(inFlight', inv', session')
    <3>1. Reached(inFlight, inv, session)
      BY DEF InvokeInv
    <3>2. \A j \in Invocation : inv'[j] # None /\ inv'[j].pc = "running" =>
              inv[j].pc = "running" /\ inv[j].session # None
      BY <2>7, <2>8, RunningHasSession DEF InvokeInv, Evolves
    <3>3. \A j \in Invocation : inv'[j] # None =>
              SessionTie(inv'[j], session') /\ PcFacts(inv'[j])
      BY <2>6 DEF RecordsKept, Tied, Sound
    <3>4. \A q \in Request : inFlight'[q] # inFlight[q] =>
               /\ inFlight'[q] = None /\ inFlight[q] \in Invocation
               /\ inv'[inFlight[q]].pc = "running" =>
                     session'[inv'[inFlight[q]].session].closed
      BY <2>3, <2>5, <2>11
    <3> QED
      BY <1>1, <2>5, <2>7, <2>10, <3>1, <3>2, <3>3, <3>4, ReachedFollow
  <2>17. SameWebsockets
    BY <2>7 DEF Evolves, SameWebsockets
  <2>18. AllFinished(inv')
    <3> SUFFICES ASSUME NEW j \in Invocation, inv'[j] # None, inv'[j].pc = "done"
                 PROVE  Finished(inv'[j])
      BY DEF AllFinished
    <3>1. CASE j = i
      BY <2>3, <2>5, <3>1
    <3>2. CASE j # i
      <4>1. inv[j] # None /\ f[j] = inv'[j] /\ f[j].pc = inv[j].pc
        BY <2>5, <2>7, <3>2 DEF Evolves
      <4>2. Finished(inv[j])
        BY <4>1 DEF InvokeInv, AllFinished
      <4> QED
        BY <2>7, <4>1, <4>2 DEF Evolves
    <3> QED
      BY <3>1, <3>2
  <2> QED
    BY <2>6, <2>12, <2>13, <2>14, <2>15, <2>16, <2>17, <2>18 DEF InvokeInv, SafeStep
<1> QED
  BY <1>3, <1>4

\* What the record of i may become while the websockets and sessions stay.
Successor(i, y) ==
    /\ Tied(i, y, conn, session) /\ y.conn = inv[i].conn /\ y.req = inv[i].req
    /\ inv[i].session # None => y.session = inv[i].session
    /\ Doomed(inv[i], session) => Doomed(y, session)
    /\ Finished(inv[i]) => Finished(y)

\* The records f are those before the step, with y as the record of i.
Changed(f, i, y) ==
    /\ f \in [Invocation -> InvocationRecord \cup {None}]
    /\ f[i] = y /\ \A j \in Invocation \ {i} : f[j] = inv[j]

\* EXCEPT changes one record.
LEMMA ExceptChanges ==
    ASSUME InvokeInv, NEW i \in Invocation, NEW y \in InvocationRecord,
           NEW f, f = [inv EXCEPT ![i] = y]
    PROVE  Changed(f, i, y)
BY DEF InvokeInv, TypeOK, Changed

\* One record changes, the sessions do not.
LEMMA OneRecord ==
    ASSUME InvokeInv, NEW i \in Invocation, inv[i] # None, NEW y, Successor(i, y),
           NEW f, Changed(f, i, y)
    PROVE  RecordsKept(f, conn, session) /\ Evolves(inv, f, session, session)
<1>1. inv \in [Invocation -> InvocationRecord \cup {None}] /\ RecordsKept(inv, conn, session)
  BY DEF InvokeInv, TypeOK
<1>2. y \in InvocationRecord /\ y # None
  BY NoneApart DEF Successor, Tied, Sound
<1>3. f \in [Invocation -> InvocationRecord \cup {None}]
      /\ f[i] = y /\ \A j \in Invocation \ {i} : f[j] = inv[j]
  BY DEF Changed
<1>4. \A j \in Invocation : f[j] # None => Tied(j, f[j], conn, session)
  BY <1>1, <1>3 DEF RecordsKept, Successor
<1>5. \A s \in Session, j \in Invocation : j \in session[s].holds => f[j] # None
  BY <1>1, <1>2, <1>3 DEF RecordsKept
<1>6. RecordsKept(f, conn, session)
  BY <1>1, <1>3, <1>4, <1>5 DEF RecordsKept
<1>7. Evolves(inv, f, session, session)
  BY <1>2, <1>3 DEF Evolves, Successor
<1> QED
  BY <1>3, <1>6, <1>7

\* The record of i changes, its handler goes on or waits.
LEMMA RecordStep ==
    ASSUME InvokeInv, NEW i \in Invocation, inv[i] # None, NEW y, Successor(i, y),
           y.pc = inv[i].pc,
           inv' = [inv EXCEPT ![i] = y],
           UNCHANGED <<conn, tombstones, receipts, requestIds, inFlightInvokes, inFlight, session>>
    PROVE  SafeStep
<1>1. /\ RecordsKept(inv', conn', session') /\ Evolves(inv, inv', session, session')
      /\ inv'[i] = y /\ \A j \in Invocation \ {i} : inv'[j] = inv[j]
  <2>1. Changed(inv', i, y)
    BY DEF InvokeInv, TypeOK, Changed, Successor, Tied, Sound
  <2>2. RecordsKept(inv', conn, session) /\ Evolves(inv, inv', session, session)
    BY <2>1, OneRecord
  <2> QED
    BY <2>1, <2>2 DEF Changed
<1>2. ConnType(conn') /\ inFlight' \in [Request -> Invocation \cup {None}]
  BY DEF InvokeInv, TypeOK, ConnType
<1>3. \A j \in Invocation : inv[j] # None => (inv'[j].pc = "done" <=> inv[j].pc = "done")
  BY <1>1
<1>4. \A j \in Invocation : inv'[j] # None /\ inv'[j].pc = "running" => inv[j].pc = "running"
  BY <1>1
<1> QED
  BY <1>1, <1>2, <1>3, <1>4, PlainStep

-----------------------------------------------------------------------------
(* The handler.                                                            *)

\* The handler of i goes on with the record y; the sessions stay.
LEMMA HandlerStep ==
    ASSUME InvokeInv, NEW i \in Invocation, Running(i), NEW y, Successor(i, y),
           y.pc = "running" => inv[i].pc = "running",
           NEW f, Changed(f, i, y), continue(i, f), UNCHANGED <<conn, receipts, session>>
    PROVE  SafeStep
<1>1. inv[i] # None
  BY DEF Running
<1>2. RecordsKept(f, conn, session) /\ Evolves(inv, f, session, session)
  BY <1>1, OneRecord
<1>3. RecordsKept(f, conn, session') /\ Evolves(inv, f, session, session')
  BY <1>2
<1>4. /\ \A j \in Invocation \ {i} : inv[j] # None => f[j].pc = inv[j].pc
      /\ f[i].pc = "running" => inv[i].pc = "running"
  BY DEF Changed
<1>5. \A s \in Session : session[s].closed => session'[s].closed
  OBVIOUS
<1>6. conn' = conn /\ receipts' = receipts
  OBVIOUS
<1> QED
  BY <1>3, <1>4, <1>5, <1>6, Continued

\* The ties of a record x whose handler ends as y.
LEMMA EndTied ==
    ASSUME NEW i \in Invocation, NEW x, NEW y, NEW cn, NEW ss, Sound(y), SameHandler(x, y),
           y.pc \in {"sending", "done"}, SessionTie(x, ss), HoldTie(i, x, ss),
           x.pc # "admitting" \/ x.lease # "held" \/ x.rec
    PROVE  Tied(i, y, cn, ss) /\ (Doomed(x, ss) => Doomed(y, ss))
<1>1. SessionTie(y, ss)
  BY DEF SessionTie, SameHandler, Same
<1>2. ConnTie(y, cn, ss)
  BY DEF ConnTie
<1>3. HoldTie(i, y, ss)
  BY DEF HoldTie, SameHandler, Same
<1>4. Doomed(x, ss) => Doomed(y, ss)
  BY DEF Doomed, SameHandler, Same
<1> QED
  BY <1>1, <1>2, <1>3, <1>4 DEF Tied

\* The record of a handler that runs.
LEMMA RunningTied ==
    ASSUME InvokeInv, NEW i \in Invocation, inv[i] # None, NEW x, x = inv[i]
    PROVE  /\ Tied(i, x, conn, session) /\ x \in InvocationRecord
           /\ Core(x) /\ PcFacts(x) /\ SessionTie(x, session) /\ HoldTie(i, x, session)
BY DEF InvokeInv, RecordsKept, Tied, Sound

Unleased(x) == [x EXCEPT !.lease = IF @ = "held" THEN "released" ELSE @]

\* The lease of an admission that fails is released by the admission.
LEMMA AdmissionEnds ==
    ASSUME InvokeInv, NEW i \in Invocation, inv[i] # None, inv[i].pc = "admitting",
           NEW x, x = Unleased(inv[i])
    PROVE  /\ x \in InvocationRecord /\ Core(x) /\ x.ticket = "none" /\ ~x.local
           /\ x.pc = "admitting" /\ x.lease # "held" /\ SessionTie(x, session)
           /\ HoldTie(i, x, session) /\ x.conn = inv[i].conn /\ x.req = inv[i].req
           /\ x.session = inv[i].session /\ x.revoked = inv[i].revoked
           /\ Silent(x) \/ (x.revoked /\ x.terminalSent)
           /\ Doomed(inv[i], session) => Doomed(x, session)
<1>1. PICK w : w = inv[i]
  OBVIOUS
<1>2. /\ w \in InvocationRecord /\ Core(w) /\ PcFacts(w) /\ SessionTie(w, session)
      /\ HoldTie(i, w, session) /\ w.pc = "admitting"
  BY <1>1, RunningTied
<1> DEFINE v == IF w.lease = "held" THEN "released" ELSE w.lease
<1>3. v \in {"none", "held", "released"} /\ v # "held"
  BY <1>1, <1>2 DEF InvocationRecord
<1>4. x = [w EXCEPT !.lease = v]
  BY <1>1 DEF Unleased
<1> HIDE DEF v
<1>5. x \in InvocationRecord
  <2>1. [w EXCEPT !.lease = v] \in InvocationRecord
    BY ONLY <1>2, <1>3, Retyped
  <2> QED
    BY <1>4, <2>1
<1>6. /\ Same(w, x) /\ x.local = w.local /\ x.rec = w.rec /\ x.lease = v
      /\ x.revoked = w.revoked /\ x.revokedTicket = w.revokedTicket
      /\ x.removalVerified = w.removalVerified /\ x.phase = w.phase /\ x.pc = w.pc
      /\ x.frames = w.frames /\ x.outbox = w.outbox /\ x.broken = w.broken
      /\ x.said = w.said /\ x.terminalSent = w.terminalSent
  BY ONLY <1>2, <1>4 DEF InvocationRecord, Same
<1>7. w.ticket = "none" /\ w.session = None /\ ~w.local /\ w.exec = "no" /\ ~w.rec
  BY <1>2 DEF PcFacts, Core, TicketFacts, LeaseFacts
<1>8. FrameFacts(x) /\ TicketFacts(x)
  BY <1>2, <1>6 DEF Core, FrameFacts, TicketFacts, Same
<1>9. RevocationFacts(x) /\ LeaseFacts(x)
  BY <1>2, <1>6, <1>7 DEF Core, RevocationFacts, LeaseFacts, Same
<1>10. Silent(x) \/ (x.revoked /\ x.terminalSent)
  BY <1>2, <1>6 DEF PcFacts, Silent
<1>11. SessionTie(x, session)
  BY <1>6, <1>7 DEF SessionTie, Same
<1>12. HoldTie(i, x, session)
  <2>1. \A s \in Session : i \notin session[s].holds
    BY <1>2 DEF HoldTie
  <2> QED
    BY <1>3, <1>6, <1>7, <2>1 DEF HoldTie
<1>13. Doomed(w, session) => Doomed(x, session)
  BY <1>6 DEF Doomed, Same
<1> QED
  BY <1>1, <1>2, <1>3, <1>5, <1>6, <1>7, <1>8, <1>9, <1>10, <1>11, <1>12, <1>13
     DEF Core, Same

\* A record that ends is a successor.
LEMMA EndSuccessor ==
    ASSUME NEW i \in Invocation, inv[i] # None, NEW x, NEW y, Sound(y),
           SameHandler(x, y), y.pc \in {"sending", "done"}, SessionTie(x, session),
           HoldTie(i, x, session), x.pc # "admitting" \/ x.lease # "held" \/ x.rec,
           x.conn = inv[i].conn, x.req = inv[i].req, inv[i].pc # "done",
           inv[i].session # None => x.session = inv[i].session,
           Doomed(inv[i], session) => Doomed(x, session)
    PROVE  Successor(i, y)
<1>1. Tied(i, y, conn, session) /\ (Doomed(x, session) => Doomed(y, session))
  BY EndTied
<1> QED
  BY <1>1 DEF Successor, SameHandler, Same, Finished

\* Admission fails.
LEMMA AdmissionFailsStep ==
    ASSUME InvokeInv, NEW i \in Invocation, NEW thrown \in BOOLEAN, admissionFails(i, thrown)
    PROVE  SafeStep
<1>1. Running(i) /\ inv[i].pc = "admitting" /\ inv[i] # None
  BY DEF admissionFails, Running
<1>3. PICK x : x = Unleased(inv[i])
  OBVIOUS
<1>4. /\ x \in InvocationRecord /\ Core(x) /\ x.ticket = "none" /\ ~x.local
      /\ x.pc = "admitting" /\ x.lease # "held" /\ SessionTie(x, session)
      /\ HoldTie(i, x, session) /\ x.conn = inv[i].conn /\ x.req = inv[i].req
      /\ x.session = inv[i].session /\ x.revoked = inv[i].revoked
      /\ Silent(x) \/ (x.revoked /\ x.terminalSent)
      /\ Doomed(inv[i], session) => Doomed(x, session)
  BY <1>1, <1>3, AdmissionEnds
<1>5. PICK y : y = IF thrown THEN catchTail(x)
                   ELSE IF x.revoked THEN returnRevoked(x) ELSE sendTerminal(x, TRUE)
  OBVIOUS
<1>6. Sound(y) /\ SameHandler(x, y) /\ y.pc \in {"sending", "done"}
  <2>1. CASE thrown
    <3>1. x.revoked => cancellationRemovalIsVerified(x)
      BY <1>4 DEF cancellationRemovalIsVerified, Core, RevocationFacts
    <3> QED
      BY <1>4, <1>5, <2>1, <3>1, Caught
  <2>2. CASE ~thrown /\ x.revoked
    BY <1>4, <1>5, <2>2, RevokedReturned
  <2>3. CASE ~thrown /\ ~x.revoked
    BY <1>4, <1>5, <2>3, TerminalSent
  <2> QED
    BY <2>1, <2>2, <2>3
<1>7. Successor(i, y)
  BY <1>1, <1>4, <1>6, EndSuccessor
<1> DEFINE f == [inv EXCEPT ![i] = y]
<1>8. continue(i, f) /\ UNCHANGED <<conn, receipts, session>>
  BY <1>3, <1>5 DEF admissionFails, Unleased
<1>9. Changed(f, i, y)
  BY <1>6, ExceptChanges DEF Sound
<1> HIDE DEF f
<1> QED
  BY <1>1, <1>6, <1>7, <1>8, <1>9, HandlerStep

\* The bounded wait for a retirement is over.
LEMMA RetirementAwaitedStep ==
    ASSUME InvokeInv, NEW i \in Invocation, retirementAwaited(i)
    PROVE  SafeStep
<1>1. Running(i) /\ inv[i].pc = "retiring" /\ inv[i] # None
  BY DEF retirementAwaited, Running
<1>2. PICK x : x = inv[i]
  OBVIOUS
<1>3. /\ x \in InvocationRecord /\ Core(x) /\ PcFacts(x) /\ SessionTie(x, session)
      /\ HoldTie(i, x, session) /\ x.pc = "retiring"
  BY <1>1, <1>2, RunningTied
<1>4. x.ticket \in {"none", "terminal"} /\ (x.broken \/ Silent(x)) /\ ~x.local
  BY <1>3 DEF PcFacts
<1>5. PICK y : y = catchTail(x)
  OBVIOUS
<1>6. Sound(y) /\ SameHandler(x, y) /\ y.pc \in {"sending", "done"}
  BY <1>3, <1>4, <1>5, Caught
<1>7. Successor(i, y)
  BY <1>1, <1>2, <1>3, <1>6, EndSuccessor
<1> DEFINE f == [inv EXCEPT ![i] = y]
<1>8. continue(i, f) /\ UNCHANGED <<conn, receipts, session>>
  BY <1>2, <1>5 DEF retirementAwaited
<1>9. Changed(f, i, y)
  BY <1>6, ExceptChanges DEF Sound
<1> HIDE DEF f
<1> QED
  BY <1>1, <1>6, <1>7, <1>8, <1>9, HandlerStep

\* The send of the terminal frame is settled, and nothing is caught.
LEMMA SendSettledStep ==
    ASSUME InvokeInv, NEW i \in Invocation, Running(i), inv[i].pc = "sending",
           NEW f, f = [inv EXCEPT ![i] = [inv[i] EXCEPT !.pc = "done"]],
           continue(i, f), UNCHANGED <<conn, receipts, session>>
    PROVE  SafeStep
<1>1. inv[i] # None
  BY DEF Running
<1>2. PICK x : x = inv[i]
  OBVIOUS
<1>3. /\ x \in InvocationRecord /\ Core(x) /\ PcFacts(x) /\ SessionTie(x, session)
      /\ HoldTie(i, x, session) /\ x.pc = "sending"
  BY <1>1, <1>2, RunningTied
<1>4. PICK y : y = [x EXCEPT !.pc = "done"]
  OBVIOUS
<1>5. /\ y \in InvocationRecord /\ SameHandler(x, y) /\ y.pc = "done" /\ y.phase = x.phase
      /\ y.frames = x.frames /\ y.outbox = x.outbox /\ y.broken = x.broken
      /\ y.said = x.said /\ y.terminalSent = x.terminalSent
  BY ONLY <1>3, <1>4 DEF InvocationRecord, Pc, SameHandler, Same
<1>6. FrameFacts(y)
  BY <1>3, <1>5 DEF Core, FrameFacts, SameHandler, Same
<1>7. x.ticket \in {"none", "terminal"} /\ (x.local /\ x.result = "error" => x.exec = "over")
  BY <1>3 DEF PcFacts
<1>8. Sound(y)
  BY <1>3, <1>5, <1>6, <1>7, EndSound
<1>9. Successor(i, y)
  BY <1>1, <1>2, <1>3, <1>5, <1>8, EndSuccessor
<1>10. Changed(f, i, y)
  <2>1. f = [inv EXCEPT ![i] = y]
    BY <1>2, <1>4
  <2> QED
    BY <1>5, <2>1, ExceptChanges
<1> QED
  BY <1>1, <1>5, <1>9, <1>10, HandlerStep

\* The session and the lease that admission gives to a request.
Admitted(x, s) == [x EXCEPT !.local = (x.lease = "held"), !.rec = (x.lease = "held"),
                            !.session = s]

\* What an admitted record satisfies before its ticket is made or it is sent away.
LEMMA AdmittedFacts ==
    ASSUME InvokeInv, NEW i \in Invocation, inv[i] # None, inv[i].pc = "admitting",
           NEW s \in Session \cup {None}, s = None => inv[i].lease = "held",
           NEW x, x = Admitted(inv[i], s)
    PROVE  /\ x \in InvocationRecord /\ Core(x) /\ x.ticket = "none" /\ x.result = "none"
           /\ x.exec = "no" /\ x.pc = "admitting" /\ x.lease \in {"none", "held"}
           /\ x.track = "plain"
           /\ x.rec <=> x.lease = "held"
           /\ x.local <=> x.lease = "held"
           /\ SessionTie(x, session) /\ HoldTie(i, x, session)
           /\ x.conn = inv[i].conn /\ x.req = inv[i].req /\ x.session = s
           /\ x.lease = inv[i].lease
           /\ x.revoked = inv[i].revoked /\ inv[i].session = None
           /\ (Silent(x) /\ x.phase = "queued") \/ (x.revoked /\ x.terminalSent)
           /\ Doomed(inv[i], session) => x.revoked
<1>1. PICK w : w = inv[i]
  OBVIOUS
<1>2. /\ w \in InvocationRecord /\ Core(w) /\ PcFacts(w) /\ SessionTie(w, session)
      /\ HoldTie(i, w, session) /\ w.pc = "admitting"
  BY <1>1, RunningTied
<1>3. PICK h \in BOOLEAN : h = (w.lease = "held")
  OBVIOUS
<1>4. x = [w EXCEPT !.local = h, !.rec = h, !.session = s]
  BY <1>1, <1>3 DEF Admitted
<1>5. x \in InvocationRecord
  <2>1. [w EXCEPT !.local = h, !.rec = h, !.session = s] \in InvocationRecord
    BY ONLY <1>2, h \in BOOLEAN, s \in Session \cup {None}, Retyped
  <2> QED
    BY <1>4, <2>1
<1>6. /\ x.conn = w.conn /\ x.req = w.req /\ x.kind = w.kind /\ x.session = s
      /\ x.ticket = w.ticket /\ x.track = w.track /\ x.cancelled = w.cancelled
      /\ x.result = w.result /\ x.exec = w.exec /\ x.ops = w.ops
      /\ x.local = h /\ x.rec = h /\ x.lease = w.lease
      /\ x.revoked = w.revoked /\ x.revokedTicket = w.revokedTicket
      /\ x.removalVerified = w.removalVerified /\ x.phase = w.phase /\ x.pc = w.pc
      /\ x.frames = w.frames /\ x.outbox = w.outbox /\ x.broken = w.broken
      /\ x.said = w.said /\ x.terminalSent = w.terminalSent
  BY ONLY <1>2, <1>4 DEF InvocationRecord
<1>7. /\ w.ticket = "none" /\ w.session = None /\ ~w.local /\ w.exec = "no" /\ ~w.rec
      /\ w.track = "plain" /\ w.result = "none" /\ w.lease \in {"none", "held"}
  BY <1>2 DEF PcFacts, Core, TicketFacts, LeaseFacts, InvocationRecord
<1>8. FrameFacts(x) /\ TicketFacts(x)
  BY <1>2, <1>6, <1>7 DEF Core, FrameFacts, TicketFacts
<1>9. RevocationFacts(x)
  BY <1>2, <1>6 DEF Core, RevocationFacts
<1>10. LeaseFacts(x)
  BY <1>3, <1>6, <1>7 DEF LeaseFacts
<1>11. (Silent(x) /\ x.phase = "queued") \/ (x.revoked /\ x.terminalSent)
  BY <1>2, <1>6 DEF PcFacts, Silent
<1>12. SessionTie(x, session)
  BY <1>6, <1>7 DEF SessionTie
<1>13. HoldTie(i, x, session)
  <2>1. \A t \in Session : i \notin session[t].holds
    BY <1>2 DEF HoldTie
  <2> QED
    BY <1>3, <1>6, <1>7, <2>1 DEF HoldTie
<1>14. Doomed(w, session) => x.revoked
  <2>1. ~w.cancelled
    BY <1>2, <1>7 DEF Core, RevocationFacts
  <2> QED
    BY <1>2, <1>6, <1>7, <2>1 DEF Doomed
<1>15. (x.rec <=> x.lease = "held") /\ (x.local <=> x.lease = "held")
  BY <1>3, <1>6
<1>16. Core(x)
  BY <1>8, <1>9, <1>10 DEF Core
<1> QED
  BY <1>1, <1>2, <1>5, <1>6, <1>7, <1>11, <1>12, <1>13, <1>14, <1>15, <1>16

\* Admission succeeds, and the request ends: it was revoked or is out of date.
LEMMA AdmittedAndEnds ==
    ASSUME InvokeInv, NEW i \in Invocation, Running(i), inv[i].pc = "admitting",
           NEW s \in Session \cup {None}, s = None => inv[i].lease = "held",
           NEW x, x = Admitted(inv[i], s), NEW y,
           \/ x.revoked /\ y = returnRevoked(x)
           \/ ~x.revoked /\ y = sendTerminal(x, TRUE),
           NEW f, f = [inv EXCEPT ![i] = y], continue(i, f),
           UNCHANGED <<conn, receipts, session>>
    PROVE  SafeStep
<1>1. inv[i] # None
  BY DEF Running
<1>2. /\ x \in InvocationRecord /\ Core(x) /\ x.ticket = "none" /\ x.result = "none"
      /\ x.pc = "admitting" /\ (x.rec <=> x.lease = "held")
      /\ SessionTie(x, session) /\ HoldTie(i, x, session)
      /\ x.conn = inv[i].conn /\ x.req = inv[i].req
      /\ inv[i].session = None
      /\ (Silent(x) /\ x.phase = "queued") \/ (x.revoked /\ x.terminalSent)
      /\ Doomed(inv[i], session) => x.revoked
  BY <1>1, AdmittedFacts
<1>3. Sound(y) /\ SameHandler(x, y) /\ y.pc \in {"sending", "done"}
  <2>1. CASE x.revoked
    BY <1>2, <2>1, RevokedReturned
  <2>2. CASE ~x.revoked
    BY <1>2, <2>2, TerminalSent
  <2> QED
    BY <2>1, <2>2
<1>4. Doomed(inv[i], session) => Doomed(x, session)
  BY <1>2 DEF Doomed, Core, TicketFacts
<1>5. Successor(i, y)
  BY <1>1, <1>2, <1>3, <1>4, EndSuccessor
<1>6. Changed(f, i, y)
  BY <1>3, ExceptChanges DEF Sound
<1> QED
  BY <1>3, <1>5, <1>6, HandlerStep

\* The ticket of a new command, on a session that may be closed.
LEMMA NewTicket ==
    ASSUME NEW x, NEW s \in Session, NEW ss, ss = session,
           x \in InvocationRecord, Core(x), x.session = s, x.ticket \in {"none", "terminal"},
           Silent(x), x.phase # "terminal", ~x.revoked, ~x.removalVerified,
           x.local \/ x.lease = "none",
           x.ticket = "terminal" => x.result = "value" /\ x.track = "plain",
           x.lease = "released" => ss[s].st = "disposed",
           SessionTie(x, ss), NEW y, y = newTicket(x, s)
    PROVE  /\ y \in InvocationRecord /\ Core(y) /\ SessionTie(y, ss)
           /\ y.conn = x.conn /\ y.req = x.req /\ y.kind = x.kind /\ y.session = x.session
           /\ y.ticket \in {"queued", "terminal"} /\ Silent(y) /\ y.phase = x.phase
           /\ y.lease = x.lease /\ y.local = x.local /\ y.rec = x.rec
           /\ y.revoked = x.revoked /\ y.revokedTicket = x.revokedTicket /\ y.pc = x.pc
           /\ y.ops = x.ops /\ y.inTry = x.inTry
<1>1. PICK t \in {"queued", "terminal"}, r \in {"none", "error"} :
        /\ y = [x EXCEPT !.ticket = t, !.result = r]
        /\ ss[s].closed => t = "terminal" /\ r = "error"
        /\ ~ss[s].closed => t = "queued" /\ r = "none"
  BY DEF newTicket
<1>2. y \in InvocationRecord
  <2>1. t \in {"none", "queued", "active", "terminal"}
        /\ r \in {"none", "value", "revoked", "error"}
    OBVIOUS
  <2>2. [x EXCEPT !.ticket = t, !.result = r] \in InvocationRecord
    BY ONLY x \in InvocationRecord, <2>1, Retyped
  <2> QED
    BY <1>1, <2>2
<1>3. /\ y.conn = x.conn /\ y.req = x.req /\ y.kind = x.kind /\ y.session = x.session
      /\ y.pc = x.pc /\ y.lease = x.lease /\ y.local = x.local /\ y.rec = x.rec
      /\ y.revoked = x.revoked /\ y.revokedTicket = x.revokedTicket
      /\ y.removalVerified = x.removalVerified
      /\ y.track = x.track /\ y.cancelled = x.cancelled /\ y.exec = x.exec
      /\ y.ops = x.ops /\ y.phase = x.phase /\ y.terminalSent = x.terminalSent
      /\ y.frames = x.frames /\ y.outbox = x.outbox /\ y.broken = x.broken
      /\ y.said = x.said /\ y.ticket = t /\ y.result = r /\ y.inTry = x.inTry
  BY ONLY x \in InvocationRecord, <1>1 DEF InvocationRecord
<1>4. s # None
  BY NoneApart
<1>5. x.track = "plain" /\ x.exec # "running" /\ (x.exec = "over" => x.phase # "queued")
      /\ ~x.revokedTicket /\ ~x.cancelled /\ (x.exec = "no" \/ x.exec = "over")
  BY DEF Core, TicketFacts, RevocationFacts, InvocationRecord
<1>6. FrameFacts(y)
  BY <1>3 DEF FrameFacts, Core, Silent
<1>7. TicketFacts(y)
  BY <1>1, <1>3, <1>4, <1>5 DEF TicketFacts
<1>8. RevocationFacts(y) /\ LeaseFacts(y)
  BY <1>3, <1>5 DEF RevocationFacts, LeaseFacts, Core
<1>9. SessionTie(y, ss)
  BY <1>1, <1>3, <1>5 DEF SessionTie
<1> QED
  BY <1>1, <1>2, <1>3, <1>6, <1>7, <1>8, <1>9 DEF Core, Silent

\* Admission succeeds, and the command is handed to the session.
LEMMA AdmittedAndRuns ==
    ASSUME InvokeInv, NEW i \in Invocation, Running(i), inv[i].pc = "admitting",
           NEW s \in Session, NEW x, x = Admitted(inv[i], s), ~x.revoked,
           inv' = [inv EXCEPT ![i] = [newTicket(x, s) EXCEPT !.pc = "running"]],
           inFlight' = [inFlight EXCEPT ![x.req] = i],
           UNCHANGED <<conn, tombstones, receipts, requestIds, inFlightInvokes, session>>
    PROVE  SafeStep
<1>1. inv[i] # None /\ s # None
  BY NoneApart DEF Running
<1>2. /\ x \in InvocationRecord /\ Core(x) /\ x.ticket = "none" /\ x.result = "none"
      /\ x.exec = "no" /\ x.pc = "admitting" /\ x.lease \in {"none", "held"}
      /\ x.track = "plain" /\ (x.rec <=> x.lease = "held") /\ (x.local <=> x.lease = "held")
      /\ SessionTie(x, session) /\ HoldTie(i, x, session)
      /\ x.conn = inv[i].conn /\ x.req = inv[i].req /\ x.session = s
      /\ x.revoked = inv[i].revoked /\ inv[i].session = None
      /\ Silent(x) /\ x.phase = "queued"
      /\ ~Doomed(inv[i], session)
  BY <1>1, AdmittedFacts
<1>3. PICK t : t = newTicket(x, s)
  OBVIOUS
<1>4. ~x.removalVerified
  BY <1>2 DEF Core, RevocationFacts
<1>5. /\ t \in InvocationRecord /\ Core(t) /\ SessionTie(t, session)
      /\ t.conn = x.conn /\ t.req = x.req /\ t.kind = x.kind /\ t.session = x.session
      /\ t.ticket \in {"queued", "terminal"} /\ Silent(t) /\ t.phase = x.phase
      /\ t.lease = x.lease /\ t.local = x.local /\ t.rec = x.rec
      /\ t.revoked = x.revoked /\ t.revokedTicket = x.revokedTicket
  BY <1>2, <1>3, <1>4, NewTicket
<1>6. PICK y : y = [t EXCEPT !.pc = "running"]
  OBVIOUS
<1>7. /\ y \in InvocationRecord /\ SameHandler(t, y) /\ y.pc = "running" /\ y.phase = t.phase
      /\ y.frames = t.frames /\ y.outbox = t.outbox /\ y.broken = t.broken
      /\ y.said = t.said /\ y.terminalSent = t.terminalSent
  BY ONLY <1>5, <1>6 DEF InvocationRecord, Pc, SameHandler, Same
<1>8. Silent(y) /\ y.ticket \in {"queued", "terminal"} /\ y.phase = "queued"
      /\ (y.local \/ y.lease = "none")
  BY <1>2, <1>5, <1>7 DEF Silent, SameHandler, Same
<1>9. FrameFacts(y)
  BY <1>5, <1>7 DEF Core, FrameFacts, SameHandler, Same
<1>10. Sound(y)
  <2>1. PcFacts(y)
    BY <1>7, <1>8 DEF PcFacts
  <2> QED
    BY <1>5, <1>7, <1>9, <2>1, SendKeepsFacts DEF Sound, Core
<1>11. SessionTie(y, session)
  BY <1>5, <1>7 DEF SessionTie, SameHandler, Same
<1>12. ConnTie(y, conn, session)
  <2>1. ConnTie(inv[i], conn, session)
    BY <1>1 DEF InvokeInv, RecordsKept, Tied
  <2>2. y.conn = inv[i].conn
    BY <1>2, <1>5, <1>7 DEF SameHandler, Same
  <2> QED
    BY <1>2, <2>1, <2>2 DEF ConnTie
<1>13. HoldTie(i, y, session)
  BY <1>2, <1>5, <1>7 DEF HoldTie, SameHandler, Same
<1>14. ~Finished(inv[i])
  BY DEF Finished
<1>15. Successor(i, y)
  BY <1>2, <1>5, <1>7, <1>10, <1>11, <1>12, <1>13, <1>14 DEF Successor, Tied, SameHandler, Same
<1>16. Changed(inv', i, y)
  <2>1. inv' = [inv EXCEPT ![i] = y]
    BY <1>3, <1>6
  <2> QED
    BY <1>7, <2>1 DEF InvokeInv, TypeOK, Changed
<1>17. RecordsKept(inv', conn', session') /\ Evolves(inv, inv', session, session')
  <2>1. RecordsKept(inv', conn, session) /\ Evolves(inv, inv', session, session)
    BY <1>1, <1>15, <1>16, OneRecord
  <2> QED
    BY <2>1
<1>18. /\ inv'[i] = y /\ \A j \in Invocation \ {i} : inv'[j] = inv[j]
       /\ inv' \in [Invocation -> InvocationRecord \cup {None}]
  BY <1>16 DEF Changed
<1>19. x.req \in Request /\ y.req = x.req /\ y.session = s
  BY <1>2, <1>5, <1>7 DEF InvocationRecord, SameHandler, Same
<1>20. inFlight \in [Request -> Invocation \cup {None}]
  BY DEF InvokeInv, TypeOK
<1>21. /\ inFlight' \in [Request -> Invocation \cup {None}] /\ inFlight'[x.req] = i
       /\ \A r \in Request \ {x.req} : inFlight'[r] = inFlight[r]
  BY <1>19, <1>20
<1>22. TypeOK'
  BY <1>17, <1>21 DEF InvokeInv, TypeOK, RecordsKept
<1>23. ReceiptsKept(receipts', inv', session')
  BY <1>17, ReceiptsFollow DEF InvokeInv, TypeOK
<1>24. Routes(inFlight', inv')
  <2> SUFFICES ASSUME NEW r \in Request, inFlight'[r] # None
               PROVE  /\ inv'[inFlight'[r]] # None /\ inv'[inFlight'[r]].req = r
                      /\ inv'[inFlight'[r]].session # None
    BY DEF Routes
  <2>1. CASE r = x.req
    BY <1>1, <1>7, <1>18, <1>19, <1>21, <2>1, NoneApart
  <2>2. CASE r # x.req
    <3>1. inFlight[r] \in Invocation /\ inFlight'[r] = inFlight[r]
          /\ inv[inFlight[r]] # None /\ inv[inFlight[r]].req = r
          /\ inv[inFlight[r]].session # None
      BY <1>20, <1>21, <2>2, NoneApart DEF InvokeInv, Routes
    <3> QED
      BY <1>17, <3>1 DEF Evolves
  <2> QED
    BY <2>1, <2>2
<1>25. Reached(inFlight', inv', session')
  <2> SUFFICES ASSUME NEW j \in Invocation, inv'[j] # None, inv'[j].pc = "running"
               PROVE  \/ inFlight'[inv'[j].req] = j
                      \/ /\ inFlight'[inv'[j].req] = None /\ session'[inv'[j].session].closed
                         /\ inv'[j].ticket = "terminal"
    BY DEF Reached
  <2>1. CASE j = i
    BY <1>18, <1>19, <1>21, <2>1
  <2>2. CASE j # i
    <3>1. inv'[j] = inv[j] /\ inv[j] \in InvocationRecord
      BY <1>18, <2>2
    <3>2. inv[j].req # x.req
      <4>1. i \in RunningIn(inv) /\ j \in RunningIn(inv)
        BY <3>1 DEF RunningIn, Running
      <4> QED
        BY <1>2, <2>2, <4>1 DEF InvokeInv, Budget
    <3>3. inv[j].req \in Request
      BY <3>1 DEF InvocationRecord
    <3> QED
      BY <1>21, <3>1, <3>2, <3>3 DEF InvokeInv, Reached
  <2> QED
    BY <2>1, <2>2
<1>26. Budget(inv', requestIds', inFlightInvokes') /\ Bounded(inv', tombstones', receipts')
  <2>1. \A j \in Invocation : inv[j] # None => (inv'[j].pc = "done" <=> inv[j].pc = "done")
    BY <1>7, <1>18
  <2>2. /\ Budget(inv', requestIds, inFlightInvokes)
        /\ Bounded(inv', tombstones, receipts)
    <3>1. Budget(inv, requestIds, inFlightInvokes) /\ Bounded(inv, tombstones, receipts)
      BY DEF InvokeInv
    <3> QED
      BY ONLY <1>17, <2>1, <3>1, BudgetSame
  <2> QED
    BY <2>2
<1>27. SameWebsockets
  BY <1>17 DEF Evolves, SameWebsockets
<1>28. AllFinished(inv')
  BY <1>7, <1>18 DEF InvokeInv, AllFinished
<1> QED
  BY <1>17, <1>22, <1>23, <1>24, <1>25, <1>26, <1>27, <1>28 DEF InvokeInv, SafeStep

\* Admission succeeds.
LEMMA AdmittedStep ==
    ASSUME InvokeInv, NEW i \in Invocation, NEW s \in Session, NEW current \in BOOLEAN,
           admitted(i, s, current)
    PROVE  SafeStep
<1>1. /\ Running(i) /\ inv[i].pc = "admitting" /\ inv[i] # None
      /\ UNCHANGED <<conn, receipts, session>>
  BY DEF admitted, Running
<1>2. PICK x : x = Admitted(inv[i], s)
  OBVIOUS
<1>3. /\ x \in InvocationRecord /\ x.revoked = inv[i].revoked /\ inv[i].session = None
  BY <1>1, <1>2, AdmittedFacts, NoneApart
<1>4. CASE x.revoked
  <2> DEFINE n == IF inv[i].lease = "held" THEN None ELSE s
  <2>1. n \in Session \cup {None} /\ (n = None => inv[i].lease = "held")
    BY NoneApart
  <2>2. PICK u : u = Admitted(inv[i], n)
    OBVIOUS
  <2>3. u = IF inv[i].lease = "held" THEN [x EXCEPT !.session = None] ELSE x
    BY <1>2, <2>2 DEF Admitted
  <2>4. PICK y : y = returnRevoked(u)
    OBVIOUS
  <2> DEFINE f == [inv EXCEPT ![i] = y]
  <2>5. continue(i, f)
    BY <1>2, <1>4, <2>3, <2>4 DEF admitted, Admitted
  <2>6. u.revoked
    <3>1. u.revoked = inv[i].revoked
      BY <1>1, <2>1, <2>2, AdmittedFacts
    <3> QED
      BY <1>3, <1>4, <3>1
  <2> HIDE DEF n
  <2> QED
    BY <1>1, <2>1, <2>2, <2>4, <2>5, <2>6, AdmittedAndEnds
<1>5. CASE ~x.revoked /\ ~current
  <2>1. PICK y : y = sendTerminal(x, TRUE)
    OBVIOUS
  <2> DEFINE f == [inv EXCEPT ![i] = y]
  <2>2. continue(i, f)
    BY <1>2, <1>5, <2>1 DEF admitted, Admitted
  <2>3. s # None
    BY NoneApart
  <2> QED
    BY <1>1, <1>2, <1>5, <2>1, <2>2, <2>3, AdmittedAndEnds
<1>6. CASE ~x.revoked /\ current
  <2>1. /\ inv' = [inv EXCEPT ![i] = [newTicket(x, s) EXCEPT !.pc = "running"]]
        /\ inFlight' = [inFlight EXCEPT ![x.req] = i]
        /\ UNCHANGED <<tombstones, requestIds, inFlightInvokes>>
    BY <1>2, <1>6 DEF admitted, Admitted
  <2> QED
    BY <1>1, <1>2, <1>6, <2>1, AdmittedAndRuns
<1> QED
  BY <1>4, <1>5, <1>6

-----------------------------------------------------------------------------
(* The SDK session, the send queue and the gate answers.                   *)

\* A request whose lease is released has no ticket that could start.
LEMMA ReleasedQuiet ==
    ASSUME InvokeInv, NEW i \in Invocation, inv[i] # None, NEW x, x = inv[i]
    PROVE  x.lease = "released" => x.ticket \in {"none", "terminal"}
<1>1. /\ x \in InvocationRecord /\ Core(x) /\ PcFacts(x) /\ SessionTie(x, session)
      /\ HoldTie(i, x, session)
  BY RunningTied
<1> SUFFICES ASSUME x.lease = "released", x.pc = "running"
             PROVE  x.ticket \in {"none", "terminal"}
  BY <1>1 DEF PcFacts
<1>2. x.local
  BY <1>1 DEF PcFacts
<1>3. x.session # None /\ session[x.session].st = "disposed" /\ x.session \in Session
  BY <1>1, <1>2 DEF HoldTie, InvocationRecord
<1>4. session[x.session].closed
  BY <1>3 DEF InvokeInv, RecordsKept, SessionFacts
<1> QED
  BY <1>1, <1>3, <1>4 DEF SessionTie

\* admitReadyWorkload takes the lease.
LEMMA AcquireActivityStep ==
    ASSUME InvokeInv, NEW i \in Invocation, acquireActivity(i)
    PROVE  SafeStep
<1>1. inv[i] # None /\ inv[i].pc = "admitting" /\ inv[i].lease = "none"
  BY DEF acquireActivity, Running
<1>2. PICK x : x = inv[i]
  OBVIOUS
<1>3. /\ x \in InvocationRecord /\ Core(x) /\ PcFacts(x) /\ SessionTie(x, session)
      /\ ConnTie(x, conn, session) /\ HoldTie(i, x, session)
      /\ x.pc = "admitting" /\ x.lease = "none"
  BY <1>1, <1>2, RunningTied DEF Tied
<1>4. PICK y : y = [x EXCEPT !.lease = "held"]
  OBVIOUS
<1>5. /\ y \in InvocationRecord /\ Same(x, y) /\ y.pc = x.pc /\ y.phase = x.phase
      /\ y.lease = "held" /\ y.local = x.local /\ y.rec = x.rec
      /\ y.revoked = x.revoked /\ y.revokedTicket = x.revokedTicket
      /\ y.removalVerified = x.removalVerified /\ y.terminalSent = x.terminalSent
      /\ y.frames = x.frames /\ y.outbox = x.outbox /\ y.broken = x.broken
      /\ y.said = x.said
  BY ONLY <1>3, <1>4 DEF InvocationRecord, Same
<1>6. FrameFacts(y) /\ TicketFacts(y)
  BY <1>3, <1>5 DEF Core, FrameFacts, TicketFacts, Same
<1>7. RevocationFacts(y) /\ LeaseFacts(y)
  BY <1>3, <1>5 DEF Core, RevocationFacts, LeaseFacts, PcFacts, Same
<1>8. PcFacts(y)
  BY <1>3, <1>5 DEF PcFacts, Silent, Same
<1>9. SessionTie(y, session) /\ ConnTie(y, conn, session) /\ HoldTie(i, y, session)
  BY <1>3, <1>5 DEF SessionTie, ConnTie, HoldTie, PcFacts, Same
<1>10. Doomed(x, session) => Doomed(y, session)
  BY <1>5 DEF Doomed, Same
<1>11. Successor(i, y)
  BY <1>2, <1>5, <1>6, <1>7, <1>8, <1>9, <1>10 DEF Successor, Tied, Sound, Core, Same, Finished
<1> QED
  BY <1>1, <1>2, <1>4, <1>5, <1>11, RecordStep DEF acquireActivity

\* A record that changes only what the SDK and its adapter know of the command.
SameFrame(x, y) ==
    /\ y.conn = x.conn /\ y.req = x.req /\ y.kind = x.kind /\ y.session = x.session
    /\ y.pc = x.pc /\ y.lease = x.lease /\ y.local = x.local /\ y.rec = x.rec
    /\ y.revoked = x.revoked /\ y.revokedTicket = x.revokedTicket
    /\ y.removalVerified = x.removalVerified /\ y.terminalSent = x.terminalSent
    /\ y.frames = x.frames /\ y.outbox = x.outbox /\ y.broken = x.broken
    /\ y.said = x.said /\ y.ops = x.ops

\* What a step of the SDK has to respect.
LEMMA SdkStep ==
    ASSUME InvokeInv, NEW i \in Invocation, inv[i] # None, NEW x, x = inv[i],
           NEW y, y \in InvocationRecord, SameFrame(x, y),
           x.phase = "queued" => y.phase \in {"queued", "active"},
           x.phase # "queued" => y.phase = x.phase,
           x.said # "cancelled", TicketFacts(y), RevocationFacts(y), LeaseFacts(y),
           x.ticket = "none" <=> y.ticket = "none",
           x.pc # "running" => y.ticket \in {"none", "terminal"},
           x.pc \in {"sending", "done"} /\ x.local /\ y.result = "error" => y.exec = "over",
           x.pc # "admitting",
           SessionTie(y, session), Doomed(x, session) => Doomed(y, session),
           inv' = [inv EXCEPT ![i] = y], SdkUnchanged, UNCHANGED session
    PROVE  SafeStep
<1>1. /\ x \in InvocationRecord /\ Core(x) /\ PcFacts(x) /\ SessionTie(x, session)
      /\ ConnTie(x, conn, session) /\ HoldTie(i, x, session)
  BY RunningTied DEF Tied
<1>2. FrameFacts(y)
  BY <1>1 DEF Core, FrameFacts, SameFrame
<1>3. PcFacts(y)
  BY <1>1 DEF PcFacts, Silent, SameFrame
<1>4. ConnTie(y, conn, session) /\ HoldTie(i, y, session)
  BY <1>1 DEF ConnTie, HoldTie, SameFrame
<1>5. Successor(i, y)
  BY <1>2, <1>3, <1>4 DEF Successor, Tied, Sound, Core, SameFrame, Finished
<1> QED
  BY <1>5, RecordStep DEF SdkUnchanged, SameFrame

\* A ticket that is queued or active belongs to a request that runs on a session
\* that is not closed.
LEMMA LiveTicket ==
    ASSUME InvokeInv, NEW i \in Invocation, inv[i] # None, NEW x, x = inv[i],
           x.ticket \in {"queued", "active"}
    PROVE  /\ x \in InvocationRecord /\ Core(x) /\ SessionTie(x, session)
           /\ x.pc = "running" /\ x.said = "none" /\ x.result = "none"
           /\ x.phase \in {"queued", "active"} /\ x.session \in Session /\ x.session # None
           /\ x.lease # "released"
           /\ ~session[x.session].closed /\ session[x.session].st # "disposed"
<1>1. /\ x \in InvocationRecord /\ Core(x) /\ PcFacts(x) /\ SessionTie(x, session)
      /\ x.lease # "released"
  BY RunningTied, ReleasedQuiet
<1>2. x.pc = "running" /\ x.said = "none" /\ x.phase # "terminal"
  BY <1>1 DEF PcFacts, Silent
<1>3. x.result = "none" /\ x.session # None
  BY <1>1 DEF Core, TicketFacts
<1>4. x.session \in Session /\ x.phase \in {"queued", "active"}
  BY <1>1, <1>2, <1>3 DEF InvocationRecord
<1>5. ~session[x.session].closed
  BY <1>1, <1>3 DEF SessionTie
<1>6. session[x.session].st # "disposed"
  BY <1>4, <1>5 DEF InvokeInv, RecordsKept, SessionFacts
<1> QED
  BY <1>1, <1>2, <1>3, <1>4, <1>5, <1>6

\* The adapter learns that the ticket is executed.
LEMMA ActivateStep ==
    ASSUME InvokeInv, NEW i \in Invocation, inv[i] # None, inv[i].ticket = "queued",
           inv[i].track = "plain" \/ inv[i].exec = "running",
           inv' = [inv EXCEPT ![i] = Activate(inv[i])], SdkUnchanged, UNCHANGED session
    PROVE  SafeStep
<1>1. PICK x : x = inv[i]
  OBVIOUS
<1>2. /\ x \in InvocationRecord /\ Core(x) /\ SessionTie(x, session) /\ x.ticket = "queued"
      /\ x.pc = "running" /\ x.said = "none" /\ x.result = "none"
      /\ x.phase \in {"queued", "active"} /\ x.session \in Session /\ x.session # None
      /\ x.lease # "released"
      /\ ~session[x.session].closed /\ session[x.session].st # "disposed"
      /\ x.track = "plain" \/ x.exec = "running"
  BY <1>1, LiveTicket
<1>3. PICK y : y = Activate(x)
  OBVIOUS
<1>4. y = [x EXCEPT !.ticket = "active", !.exec = "running", !.phase = "active"]
  BY <1>2, <1>3 DEF Activate
<1>5. y \in InvocationRecord
  <2>1. [x EXCEPT !.ticket = "active", !.exec = "running", !.phase = "active"]
          \in InvocationRecord
    BY ONLY <1>2, Retyped
  <2> QED
    BY <1>4, <2>1
<1>6. /\ SameFrame(x, y) /\ y.track = x.track /\ y.cancelled = x.cancelled
      /\ y.result = x.result /\ y.ticket = "active" /\ y.exec = "running"
      /\ y.phase = "active"
  BY ONLY <1>2, <1>4 DEF InvocationRecord, SameFrame
<1>7. ~x.cancelled /\ ~x.revokedTicket /\ ~x.revoked
  BY <1>2 DEF Core, RevocationFacts
<1>8. TicketFacts(y) /\ RevocationFacts(y) /\ LeaseFacts(y)
  BY <1>2, <1>6, <1>7 DEF Core, TicketFacts, RevocationFacts, LeaseFacts, SameFrame
<1>9. SessionTie(y, session) /\ ~Doomed(x, session)
  BY <1>2, <1>6, <1>7 DEF SessionTie, Doomed, SameFrame
<1> QED
  BY <1>1, <1>2, <1>3, <1>5, <1>6, <1>8, <1>9, SdkStep

\* A live control is submitted, and its handle arrives.
LEMMA SubmitStep ==
    ASSUME InvokeInv, NEW i \in Invocation, inv[i] # None, inv[i].ticket = "queued",
           NEW track \in {"committed", "sdk"}, ~inv[i].cancelled, inv[i].kind = "control",
           inv' = [inv EXCEPT ![i] = [inv[i] EXCEPT !.track = track]],
           SdkUnchanged, UNCHANGED session
    PROVE  SafeStep
<1>1. PICK x : x = inv[i]
  OBVIOUS
<1>2. /\ x \in InvocationRecord /\ Core(x) /\ SessionTie(x, session) /\ x.ticket = "queued"
      /\ x.pc = "running" /\ x.said = "none" /\ x.result = "none"
      /\ x.phase \in {"queued", "active"} /\ x.session # None
      /\ ~session[x.session].closed /\ ~x.cancelled /\ x.kind = "control"
  BY <1>1, LiveTicket
<1>3. PICK y : y = [x EXCEPT !.track = track]
  OBVIOUS
<1>4. y \in InvocationRecord
  BY ONLY <1>2, <1>3, track \in {"committed", "sdk"} DEF InvocationRecord, Track
<1>5. /\ SameFrame(x, y) /\ y.track = track /\ y.cancelled = x.cancelled
      /\ y.result = x.result /\ y.ticket = x.ticket /\ y.exec = x.exec
      /\ y.phase = x.phase
  BY ONLY <1>2, <1>3 DEF InvocationRecord, SameFrame
<1>6. ~x.revokedTicket /\ ~x.revoked
  BY <1>2 DEF Core, RevocationFacts
<1>7. TicketFacts(y) /\ RevocationFacts(y) /\ LeaseFacts(y)
  BY <1>2, <1>5, <1>6 DEF Core, TicketFacts, RevocationFacts, LeaseFacts, SameFrame
<1>8. SessionTie(y, session) /\ ~Doomed(x, session)
  BY <1>2, <1>5 DEF SessionTie, Doomed, SameFrame
<1> QED
  BY <1>1, <1>2, <1>3, <1>4, <1>5, <1>7, <1>8, SdkStep

\* The SDK dequeues a control, perhaps one whose adapter has closed.
LEMMA DequeueStep ==
    ASSUME InvokeInv, NEW i \in Invocation, dequeue(i)
    PROVE  SafeStep
<1>1. PICK x : x = inv[i]
  OBVIOUS
<1>2. /\ inv[i] # None /\ x.exec = "no" /\ ~x.cancelled
      /\ \/ x.ticket = "queued" /\ x.track = "sdk"
         \/ /\ x.track # "plain" /\ x.result = "error"
            /\ session[x.session].st # "disposed"
      /\ inv' = [inv EXCEPT ![i] = [x EXCEPT !.exec = "running"]]
      /\ SdkUnchanged /\ UNCHANGED session
  BY <1>1 DEF dequeue, Queued
<1>3. /\ x \in InvocationRecord /\ Core(x) /\ PcFacts(x) /\ SessionTie(x, session)
      /\ x.lease = "released" => x.ticket \in {"none", "terminal"}
  BY <1>1, <1>2, RunningTied, ReleasedQuiet
<1>4. x.ticket = "queued" => session[x.session].st # "disposed"
  BY <1>1, <1>2, LiveTicket
<1>5. PICK y : y = [x EXCEPT !.exec = "running"]
  OBVIOUS
<1>6. y \in InvocationRecord
  BY ONLY <1>3, <1>5 DEF InvocationRecord
<1>7. /\ SameFrame(x, y) /\ y.track = x.track /\ y.cancelled = x.cancelled
      /\ y.result = x.result /\ y.ticket = x.ticket /\ y.exec = "running"
      /\ y.phase = x.phase
  BY ONLY <1>3, <1>5 DEF InvocationRecord, SameFrame
<1>8. /\ x.ticket # "none" /\ x.result # "revoked" /\ x.session # None
      /\ x.result # "value" /\ x.lease # "released"
  BY <1>2, <1>3 DEF Core, TicketFacts, SessionTie
<1>9. x.said # "cancelled"
  BY <1>3, <1>8 DEF Core, FrameFacts
<1>10. TicketFacts(y) /\ RevocationFacts(y) /\ LeaseFacts(y)
  BY <1>2, <1>3, <1>7, <1>8 DEF Core, TicketFacts, RevocationFacts, LeaseFacts, SameFrame
<1>11. SessionTie(y, session)
  BY <1>2, <1>3, <1>4, <1>7, <1>8 DEF SessionTie, SameFrame
<1>12. Doomed(x, session) => Doomed(y, session)
  BY <1>2, <1>7, <1>8 DEF Doomed, SameFrame
<1>13. /\ x.pc # "admitting"
       /\ x.pc \in {"sending", "done"} /\ x.local /\ y.result = "error" => y.exec = "over"
       /\ x.pc # "running" => y.ticket \in {"none", "terminal"}
       /\ x.ticket = "none" <=> y.ticket = "none"
       /\ x.phase = "queued" => y.phase \in {"queued", "active"}
       /\ x.phase # "queued" => y.phase = x.phase
  BY <1>2, <1>3, <1>7, <1>8 DEF PcFacts
<1>14. /\ inv' = [inv EXCEPT ![i] = y] /\ SdkUnchanged /\ UNCHANGED session
       /\ inv[i] # None /\ i \in Invocation
  BY <1>2, <1>5
<1> QED
  BY ONLY InvokeInv, <1>1, <1>6, <1>7, <1>9, <1>10, <1>11, <1>12, <1>13, <1>14, SdkStep

\* A ticket is settled by the SDK: removed, or executed to its end.
LEMMA SettledStep ==
    ASSUME InvokeInv, NEW i \in Invocation, inv[i] # None,
           NEW result \in {"value", "error", "revoked"}, NEW exec \in {"no", "over"},
           \/ inv[i].ticket = "queued" /\ inv[i].track = "sdk" /\ inv[i].exec = "no"
                /\ result = "revoked" /\ exec = "no"
           \/ inv[i].ticket = "active" /\ result # "revoked" /\ exec = "over",
           inv' = [inv EXCEPT ![i] = [inv[i] EXCEPT !.ticket = "terminal",
                                         !.result = result, !.exec = exec]],
           SdkUnchanged, UNCHANGED session
    PROVE  SafeStep
<1>1. PICK x : x = inv[i]
  OBVIOUS
<1>2. /\ x \in InvocationRecord /\ Core(x) /\ SessionTie(x, session)
      /\ x.ticket \in {"queued", "active"}
      /\ x.pc = "running" /\ x.said = "none" /\ x.result = "none"
      /\ x.phase \in {"queued", "active"} /\ x.session # None /\ x.lease # "released"
      /\ ~session[x.session].closed /\ session[x.session].st # "disposed"
  BY <1>1, LiveTicket
<1>3. PICK y : y = [x EXCEPT !.ticket = "terminal", !.result = result, !.exec = exec]
  OBVIOUS
<1>4. y \in InvocationRecord
  <2>1. result \in {"none", "value", "revoked", "error"} /\ exec \in {"no", "running", "over"}
    OBVIOUS
  <2>2. [x EXCEPT !.ticket = "terminal", !.result = result, !.exec = exec]
          \in InvocationRecord
    BY ONLY <1>2, <2>1, Retyped
  <2> QED
    BY <1>3, <2>2
<1>5. /\ SameFrame(x, y) /\ y.track = x.track /\ y.cancelled = x.cancelled
      /\ y.result = result /\ y.ticket = "terminal" /\ y.exec = exec
      /\ y.phase = x.phase
  BY ONLY <1>2, <1>3 DEF InvocationRecord, SameFrame
<1>6. TicketFacts(y)
  BY <1>1, <1>2, <1>5 DEF Core, TicketFacts, SameFrame
<1>7. RevocationFacts(y)
  BY <1>1, <1>2, <1>5 DEF Core, RevocationFacts, SameFrame
<1>8. LeaseFacts(y)
  BY <1>2, <1>5 DEF Core, LeaseFacts, SameFrame
<1>9. SessionTie(y, session)
  BY <1>2, <1>5 DEF SessionTie, SameFrame
<1>10. Doomed(x, session) => Doomed(y, session)
  BY <1>1, <1>2, <1>5 DEF Doomed, SameFrame, Core, TicketFacts
<1> QED
  BY <1>1, <1>2, <1>3, <1>4, <1>5, <1>6, <1>7, <1>8, <1>9, <1>10, SdkStep

\* A record of which only the terminal frame or the gate operations change.
LEMMA FrameStep ==
    ASSUME InvokeInv, NEW i \in Invocation, inv[i] # None, NEW x, x = inv[i],
           NEW y, y \in InvocationRecord,
           y.conn = x.conn, y.req = x.req, y.kind = x.kind, y.session = x.session,
           y.ticket = x.ticket, y.track = x.track, y.cancelled = x.cancelled,
           y.result = x.result, y.exec = x.exec, y.lease = x.lease, y.local = x.local,
           y.rec = x.rec, y.revoked = x.revoked, y.revokedTicket = x.revokedTicket,
           y.removalVerified = x.removalVerified, y.pc = x.pc, y.phase = x.phase,
           y.terminalSent = x.terminalSent, FrameFacts(y), PcFacts(y)
    PROVE  Successor(i, y)
<1>1. /\ Core(x) /\ SessionTie(x, session)
      /\ ConnTie(x, conn, session) /\ HoldTie(i, x, session)
  BY RunningTied DEF Tied
<1>2. TicketFacts(y) /\ RevocationFacts(y) /\ LeaseFacts(y)
  BY <1>1 DEF Core, TicketFacts, RevocationFacts, LeaseFacts
<1>3. SessionTie(y, session) /\ ConnTie(y, conn, session) /\ HoldTie(i, y, session)
  BY <1>1 DEF SessionTie, ConnTie, HoldTie
<1>4. Doomed(x, session) => Doomed(y, session)
  BY DEF Doomed
<1> QED
  BY <1>2, <1>3, <1>4 DEF Successor, Tied, Sound, Core, Finished

\* The send queue writes or loses the terminal frame.
LEMMA TransmitStep ==
    ASSUME InvokeInv, NEW i \in Invocation, NEW ok \in BOOLEAN, NEW written \in BOOLEAN,
           transmit(i, ok, written)
    PROVE  SafeStep
<1>1. PICK x : x = inv[i]
  OBVIOUS
<1>2. inv[i] # None /\ x.outbox > 0
  BY <1>1 DEF transmit
<1>3. x \in InvocationRecord /\ Core(x) /\ PcFacts(x)
  BY <1>1, <1>2, RunningTied
<1>4. x.outbox = 1 /\ x.frames = 0
  BY <1>2, <1>3 DEF Core, FrameFacts, InvocationRecord
<1>5. PICK n \in {0, 1} : n = IF written THEN 1 ELSE 0
  OBVIOUS
<1>6. PICK b \in BOOLEAN : b = ~ok
  OBVIOUS
<1>7. PICK y : y = [x EXCEPT !.outbox = 0, !.frames = n, !.broken = b]
  OBVIOUS
<1>8. inv' = [inv EXCEPT ![i] = y]
  <2>1. (IF ok THEN x.outbox - 1 ELSE 0) = 0 /\ (IF written THEN x.frames + 1 ELSE x.frames) = n
    BY <1>4, <1>5
  <2>2. inv' = [inv EXCEPT ![i] = [x EXCEPT
                   !.outbox = IF ok THEN x.outbox - 1 ELSE 0,
                   !.frames = IF written THEN x.frames + 1 ELSE x.frames, !.broken = ~ok]]
    BY <1>1 DEF transmit
  <2> QED
    BY <1>6, <1>7, <2>1, <2>2
<1>9. y \in InvocationRecord
  <2>1. 0 \in 0 .. 2 /\ n \in 0 .. 2
    OBVIOUS
  <2>2. [x EXCEPT !.outbox = 0, !.frames = n, !.broken = b] \in InvocationRecord
    BY ONLY <1>3, <2>1, b \in BOOLEAN, Retyped
  <2> QED
    BY <1>7, <2>2
<1>10. /\ SameHandler(x, y) /\ y.pc = x.pc /\ y.phase = x.phase /\ y.said = x.said
       /\ y.terminalSent = x.terminalSent /\ y.outbox = 0 /\ y.frames = n
  BY ONLY <1>3, <1>7 DEF InvocationRecord, SameHandler, Same
<1>11. FrameFacts(y)
  BY <1>3, <1>5, <1>10 DEF Core, FrameFacts, SameHandler, Same
<1>12. ~Silent(x) /\ ~x.broken
  BY <1>3, <1>4 DEF Silent, Core, FrameFacts
<1>13. PcFacts(y)
  BY <1>3, <1>10, <1>12 DEF PcFacts, SameHandler, Same
<1>14. Successor(i, y)
  BY <1>1, <1>2, <1>9, <1>10, <1>11, <1>13, FrameStep DEF SameHandler, Same
<1> QED
  BY <1>1, <1>2, <1>8, <1>10, <1>14, RecordStep DEF transmit

\* The number of gate operations of a request changes.
LEMMA GateOps ==
    ASSUME InvokeInv, NEW i \in Invocation, inv[i] # None, NEW n \in 0 .. MaxGateOps,
           NEW x, x = inv[i], NEW y, y = [x EXCEPT !.ops = n]
    PROVE  /\ Successor(i, y) /\ y.pc = x.pc /\ y.req = x.req
           /\ y \in InvocationRecord
<1>1. x \in InvocationRecord /\ Core(x) /\ PcFacts(x)
  BY RunningTied
<1>2. y \in InvocationRecord
  <2>1. [x EXCEPT !.ops = n] \in InvocationRecord
    BY ONLY <1>1, n \in 0 .. MaxGateOps, Retyped
  <2> QED
    BY <2>1
<1>3. /\ y.conn = x.conn /\ y.req = x.req /\ y.kind = x.kind /\ y.session = x.session
      /\ y.ticket = x.ticket /\ y.track = x.track /\ y.cancelled = x.cancelled
      /\ y.result = x.result /\ y.exec = x.exec /\ y.lease = x.lease
      /\ y.local = x.local /\ y.rec = x.rec /\ y.revoked = x.revoked
      /\ y.revokedTicket = x.revokedTicket /\ y.removalVerified = x.removalVerified
      /\ y.pc = x.pc /\ y.phase = x.phase /\ y.terminalSent = x.terminalSent
      /\ y.frames = x.frames /\ y.outbox = x.outbox /\ y.broken = x.broken
      /\ y.said = x.said
  BY ONLY <1>1, y = [x EXCEPT !.ops = n] DEF InvocationRecord
<1>4. FrameFacts(y) /\ PcFacts(y)
  BY <1>1, <1>3 DEF Core, FrameFacts, PcFacts, Silent
<1>5. InvokeInv /\ i \in Invocation /\ inv[i] # None /\ x = inv[i]
  OBVIOUS
<1> QED
  BY ONLY <1>2, <1>3, <1>4, <1>5, FrameStep

\* A gate answer arrives.
LEMMA AnswerStep ==
    ASSUME InvokeInv, NEW c \in Conn, NEW r \in Request, answer(c, r)
    PROVE  SafeStep
<1>1. PICK i : i = inFlight[r]
  OBVIOUS
<1>2. i # None /\ inv[i].ops < MaxGateOps
      /\ inv' = [inv EXCEPT ![i] = [inv[i] EXCEPT !.ops = inv[i].ops + 1]]
      /\ UNCHANGED <<conn, tombstones, receipts, requestIds, inFlightInvokes, inFlight, session>>
  BY <1>1 DEF answer
<1>3. i \in Invocation /\ inv[i] # None
  BY <1>1, <1>2 DEF InvokeInv, TypeOK, Routes
<1>4. inv[i] \in InvocationRecord
  BY <1>3, RunningTied
<1>5. PICK n : n = inv[i].ops + 1
  OBVIOUS
<1>6. n \in 0 .. MaxGateOps
  <2>1. inv[i].ops \in 0 .. MaxGateOps /\ MaxGateOps \in Nat
    BY <1>4, InvokeAssumption DEF InvocationRecord
  <2> QED
    BY <1>2, <1>5, <2>1
<1>7. PICK x : x = inv[i]
  OBVIOUS
<1>8. PICK y : y = [x EXCEPT !.ops = n]
  OBVIOUS
<1>9. Successor(i, y) /\ y.pc = x.pc
  BY <1>3, <1>6, <1>7, <1>8, GateOps
<1> QED
  BY <1>2, <1>3, <1>5, <1>7, <1>8, <1>9, RecordStep

\* A gate answer is done; the last one of a request that ended removes its entry.
LEMMA AnsweredStep ==
    ASSUME InvokeInv, NEW i \in Invocation, answered(i)
    PROVE  SafeStep
<1>1. PICK x : x = inv[i]
  OBVIOUS
<1>2. /\ inv[i] # None /\ x.ops > 0
      /\ inv' = [inv EXCEPT ![i] = [x EXCEPT !.ops = x.ops - 1]]
      /\ inFlight' = IF x.ops = 1 /\ releaseSettledGateOwner(i, x.req)
                     THEN [inFlight EXCEPT ![x.req] = None] ELSE inFlight
      /\ UNCHANGED <<conn, tombstones, receipts, requestIds, inFlightInvokes, session>>
  BY <1>1 DEF answered
<1>3. x \in InvocationRecord
  BY <1>1, <1>2, RunningTied
<1>4. PICK n : n = x.ops - 1
  OBVIOUS
<1>5. n \in 0 .. MaxGateOps
  <2>1. x.ops \in 0 .. MaxGateOps /\ MaxGateOps \in Nat
    BY <1>3, InvokeAssumption DEF InvocationRecord
  <2> QED
    BY <1>2, <1>4, <2>1
<1>6. PICK y : y = [x EXCEPT !.ops = n]
  OBVIOUS
<1>7. Successor(i, y) /\ y.pc = x.pc /\ y \in InvocationRecord
  BY <1>1, <1>2, <1>5, <1>6, GateOps
<1>8. Changed(inv', i, y)
  <2>1. inv' = [inv EXCEPT ![i] = y]
    BY <1>2, <1>4, <1>6
  <2> QED
    BY <1>7, <2>1 DEF InvokeInv, TypeOK, Changed
<1>9. RecordsKept(inv', conn', session') /\ Evolves(inv, inv', session, session')
  <2>1. RecordsKept(inv', conn, session) /\ Evolves(inv, inv', session, session)
    BY <1>2, <1>7, <1>8, OneRecord
  <2> QED
    BY <1>2, <2>1
<1>10. inv'[i] = y /\ \A j \in Invocation \ {i} : inv'[j] = inv[j]
  BY <1>8 DEF Changed
<1>11. ConnType(conn') /\ inFlight \in [Request -> Invocation \cup {None}]
       /\ x.req \in Request
  BY <1>2, <1>3 DEF InvokeInv, TypeOK, ConnType, InvocationRecord
<1>12. /\ inFlight' \in [Request -> Invocation \cup {None}]
       /\ \A r \in Request : inFlight'[r] # inFlight[r] =>
             inFlight'[r] = None /\ inFlight[r] = i /\ x.pc = "done"
  BY <1>1, <1>2, <1>11 DEF releaseSettledGateOwner
<1>13. \A j \in Invocation : inv[j] # None => (inv'[j].pc = "done" <=> inv[j].pc = "done")
  BY <1>1, <1>7, <1>10
<1>14. \A j \in Invocation : inv'[j] # None /\ inv'[j].pc = "running" => inv[j].pc = "running"
  BY <1>1, <1>7, <1>10
<1>15. \A s \in Session : session[s].closed => session'[s].closed
  BY <1>2
<1>16. \A r \in Request : inFlight'[r] # inFlight[r] =>
               /\ inFlight'[r] = None /\ inFlight[r] \in Invocation
               /\ inv'[inFlight[r]].pc = "running" =>
                     session'[inv'[inFlight[r]].session].closed
  BY <1>7, <1>10, <1>12
<1>17. UNCHANGED <<tombstones, receipts, requestIds, inFlightInvokes>>
  BY <1>2
<1> QED
  BY <1>9, <1>11, <1>12, <1>13, <1>14, <1>15, <1>16, <1>17, PlainStep

-----------------------------------------------------------------------------
(* Sessions.                                                               *)

\* ReleasedQuiet, of any tables.
LEMMA ReleasedEnded ==
    ASSUME NEW i \in Invocation, NEW x, NEW cn, NEW ss, Tied(i, x, cn, ss), SessionFacts(ss),
           x.lease = "released"
    PROVE  x.ticket \in {"none", "terminal"}
<1>1. /\ x \in InvocationRecord /\ Core(x) /\ PcFacts(x) /\ SessionTie(x, ss)
      /\ HoldTie(i, x, ss)
  BY DEF Tied, Sound
<1> SUFFICES ASSUME x.pc = "running"
             PROVE  x.ticket \in {"none", "terminal"}
  BY <1>1 DEF PcFacts
<1>2. x.local
  BY <1>1 DEF PcFacts
<1>3. x.session # None /\ ss[x.session].st = "disposed" /\ x.session \in Session
  BY <1>1, <1>2 DEF HoldTie, InvocationRecord
<1>4. ss[x.session].closed
  BY <1>3 DEF SessionFacts
<1> QED
  BY <1>1, <1>3, <1>4 DEF SessionTie

\* The sessions in S are closed, and nothing else changes.
Closes(S, ss, tt) ==
    /\ tt \in [Session -> SdkSession]
    /\ \A s \in Session : /\ tt[s].st = ss[s].st /\ tt[s].holds = ss[s].holds
                          /\ tt[s].closed <=> ss[s].closed \/ s \in S

\* One record when the sessions in S are closed.
LEMMA RecordCloses ==
    ASSUME NEW S, NEW ss, NEW tt, NEW cn, Closes(S, ss, tt), SessionFacts(ss),
           NEW j \in Invocation, NEW x, Tied(j, x, cn, ss),
           NEW y, y = IF x.session \in S THEN Reject(x) ELSE x
    PROVE  /\ Tied(j, y, cn, tt) /\ (Doomed(x, ss) => Doomed(y, tt)) /\ y.pc = x.pc
           /\ y.local = x.local
           /\ y.conn = x.conn /\ y.req = x.req /\ y.session = x.session
<1>1. /\ x \in InvocationRecord /\ Sound(x) /\ SessionTie(x, ss)
      /\ ConnTie(x, cn, ss) /\ HoldTie(j, x, ss)
      /\ x.lease = "released" => x.ticket \in {"none", "terminal"}
  BY ReleasedEnded DEF Tied, Sound
<1>2. PICK z : z = Reject(x)
  OBVIOUS
<1>3. /\ Sound(z) /\ z.ticket \in {"none", "terminal"}
      /\ z.conn = x.conn /\ z.req = x.req /\ z.kind = x.kind /\ z.session = x.session
      /\ z.pc = x.pc /\ z.lease = x.lease /\ z.local = x.local /\ z.rec = x.rec
      /\ z.revoked = x.revoked /\ z.revokedTicket = x.revokedTicket
      /\ z.track = x.track /\ z.cancelled = x.cancelled /\ z.exec = x.exec
      /\ z.ops = x.ops
      /\ x.ticket \in {"none", "terminal"} => z = x
      /\ x.result # "none" => z = x
  BY <1>1, <1>2, Rejected
<1>4. x.session # None => x.session \in Session
  BY <1>1 DEF InvocationRecord
<1>5. /\ y.conn = x.conn /\ y.req = x.req /\ y.session = x.session
      /\ y.pc = x.pc /\ y.lease = x.lease /\ y.local = x.local /\ y.rec = x.rec
      /\ y.revoked = x.revoked /\ y.revokedTicket = x.revokedTicket
      /\ y.cancelled = x.cancelled /\ y.exec = x.exec
      /\ Sound(y)
      /\ x.session \in S => y.ticket \in {"none", "terminal"}
      /\ x.session \notin S => y = x
      /\ x.ticket \in {"none", "terminal"} => y = x
      /\ x.result # "none" => y = x
  BY <1>1, <1>2, <1>3
<1>6. SessionTie(y, tt)
  BY <1>1, <1>4, <1>5 DEF SessionTie, Closes
<1>7. ConnTie(y, cn, tt)
  <2>1. x.pc = "running" => x.session # None
    BY <1>1 DEF Sound, Core, TicketFacts, PcFacts
  <2> QED
    BY <1>1, <1>4, <1>5, <2>1 DEF ConnTie, Closes
<1>8. HoldTie(j, y, tt)
  BY <1>1, <1>4, <1>5 DEF HoldTie, Closes
<1>9. Doomed(x, ss) => Doomed(y, tt)
  BY <1>4, <1>5 DEF Doomed, Closes
<1> QED
  BY <1>5, <1>6, <1>7, <1>8, <1>9 DEF Tied

\* From f and ss the adapters of the sessions in S are closed, which gives g and tt.
Shut(S, ss, tt, cn, f, g) ==
    Closes(S, ss, tt) /\ RecordsKept(f, cn, ss) /\ g = closeAdapter(f, S)

\* Closing adapters keeps the records.
LEMMA CloseSessions ==
    ASSUME NEW S, NEW ss, NEW tt, NEW cn, NEW f, NEW g, Shut(S, ss, tt, cn, f, g)
    PROVE  /\ RecordsKept(g, cn, tt) /\ Evolves(f, g, ss, tt)
           /\ \A j \in Invocation : f[j] # None => g[j].pc = f[j].pc
           /\ \A s \in Session : ss[s].closed => tt[s].closed
<1> USE DEF Shut
<1>1. f \in [Invocation -> InvocationRecord \cup {None}] /\ SessionFacts(ss)
  BY DEF RecordsKept
<1>2. \A j \in Invocation : g[j] = IF f[j] # None /\ f[j].session \in S
                                   THEN Reject(f[j]) ELSE f[j]
  BY DEF closeAdapter
<1>3. ASSUME NEW j \in Invocation, f[j] # None
      PROVE  /\ Tied(j, g[j], cn, tt) /\ (Doomed(f[j], ss) => Doomed(g[j], tt))
             /\ g[j].pc = f[j].pc /\ g[j].conn = f[j].conn /\ g[j].req = f[j].req
             /\ g[j].local = f[j].local
             /\ g[j].session = f[j].session
  <2>1. Tied(j, f[j], cn, ss)
    BY <1>3 DEF RecordsKept
  <2>2. g[j] = IF f[j].session \in S THEN Reject(f[j]) ELSE f[j]
    BY <1>2, <1>3
  <2> QED
    BY <1>1, <2>1, <2>2, RecordCloses
<1>4. \A j \in Invocation : f[j] # None => g[j] \in InvocationRecord /\ g[j] # None
  BY <1>3, NoneApart DEF Tied, Sound
<1>5. \A j \in Invocation : f[j] = None => g[j] = None
  BY <1>2
<1>6. g \in [Invocation -> InvocationRecord \cup {None}]
  <2>1. \A j \in Invocation : g[j] \in InvocationRecord \cup {None}
    BY <1>4, <1>5
  <2>2. g = [j \in Invocation |-> g[j]]
    BY DEF closeAdapter
  <2> HIDE DEF closeAdapter
  <2> QED
    BY ONLY <2>1, <2>2
<1>7. SessionFacts(tt)
  BY <1>1 DEF SessionFacts, Closes
<1>8. \A s \in Session, j \in Invocation : j \in tt[s].holds => g[j] # None
  BY <1>4 DEF RecordsKept, Closes
<1>9. RecordsKept(g, cn, tt)
  BY <1>3, <1>5, <1>6, <1>7, <1>8 DEF RecordsKept, Closes
<1>10. Evolves(f, g, ss, tt)
  BY <1>3, <1>4, <1>5 DEF Evolves, Finished
<1>11. \A s \in Session : ss[s].closed => tt[s].closed
  BY DEF Closes
<1> QED
  BY <1>3, <1>9, <1>10, <1>11

\* The records' part of a step in which no handler moves.
LEMMA RecordsStep ==
    ASSUME InvokeInv, RecordsKept(inv', conn', session'), ConnType(conn'),
           Evolves(inv, inv', session, session'),
           \A j \in Invocation : inv[j] # None => inv'[j].pc = inv[j].pc,
           \A s \in Session : session[s].closed => session'[s].closed,
           UNCHANGED <<tombstones, receipts, requestIds, inFlightInvokes, inFlight>>
    PROVE  SafeStep
<1>1. inFlight' \in [Request -> Invocation \cup {None}]
  BY DEF InvokeInv, TypeOK
<1>2. \A j \in Invocation : inv[j] # None => (inv'[j].pc = "done" <=> inv[j].pc = "done")
  OBVIOUS
<1>3. \A j \in Invocation : inv'[j] # None /\ inv'[j].pc = "running" => inv[j].pc = "running"
  BY DEF Evolves
<1>4. \A r \in Request : inFlight'[r] = inFlight[r]
  OBVIOUS
<1> QED
  BY <1>1, <1>2, <1>3, <1>4, PlainStep

\* The tables of sessions and websockets.
LEMMA Tables ==
    ASSUME InvokeInv
    PROVE  /\ RecordsKept(inv, conn, session) /\ ConnType(conn) /\ SessionFacts(session)
           /\ session \in [Session -> SdkSession]
           /\ inFlight \in [Request -> Invocation \cup {None}]
           /\ inv \in [Invocation -> InvocationRecord \cup {None}]
           /\ Routes(inFlight, inv)
BY DEF InvokeInv, TypeOK, RecordsKept, ConnType

\* A timer of the session fires.
LEMMA AdapterClosesStep ==
    ASSUME InvokeInv, NEW s \in Session, adapterCloses(s)
    PROVE  SafeStep
<1>1. /\ session' = [session EXCEPT ![s] = [session[s] EXCEPT !.closed = TRUE]]
      /\ inv' = closeAdapter(inv, {s}) /\ conn' = conn
      /\ UNCHANGED <<tombstones, receipts, requestIds, inFlightInvokes, inFlight>>
  BY DEF adapterCloses, SdkUnchanged
<1>2. session \in [Session -> SdkSession] /\ RecordsKept(inv, conn, session)
      /\ ConnType(conn')
  BY <1>1, Tables
<1>3. Closes({s}, session, session')
  BY <1>1, <1>2 DEF Closes, SdkSession
<1>4. /\ RecordsKept(inv', conn, session') /\ Evolves(inv, inv', session, session')
      /\ \A j \in Invocation : inv[j] # None => inv'[j].pc = inv[j].pc
      /\ \A t \in Session : session[t].closed => session'[t].closed
  <2>1. Shut({s}, session, session', conn, inv, inv')
    BY <1>1, <1>2, <1>3 DEF Shut
  <2> QED
    BY ONLY <2>1, CloseSessions
<1>5. RecordsKept(inv', conn', session')
  BY <1>1, <1>4
<1> QED
  BY <1>1, <1>2, <1>4, <1>5, RecordsStep

\* The routing entries that a binding fence removes: their sessions are closed.
LEMMA Unrouted ==
    ASSUME InvokeInv, NEW c \in Conn, RecordsKept(inv', conn', session'),
           Evolves(inv, inv', session, session'),
           \A s \in fencedSessions(c) : session'[s].closed,
           inFlight' = unrouted(c)
    PROVE  /\ inFlight' \in [Request -> Invocation \cup {None}]
           /\ \A r \in Request : inFlight'[r] # inFlight[r] =>
               /\ inFlight'[r] = None /\ inFlight[r] \in Invocation
               /\ inv'[inFlight[r]].pc = "running" =>
                     session'[inv'[inFlight[r]].session].closed
<1>1. inFlight \in [Request -> Invocation \cup {None}] /\ Routes(inFlight, inv)
  BY Tables
<1>2. inFlight' \in [Request -> Invocation \cup {None}]
  BY <1>1 DEF unrouted
<1>3. ASSUME NEW r \in Request, inFlight'[r] # inFlight[r]
      PROVE  /\ inFlight'[r] = None /\ inFlight[r] \in Invocation
             /\ session'[inv'[inFlight[r]].session].closed
  <2>1. r \in Routed(c) /\ inFlight'[r] = None
    BY <1>3 DEF unrouted
  <2>2. inFlight[r] \in Invocation /\ inv[inFlight[r]] # None
        /\ inv[inFlight[r]].session # None
    BY <1>1, <2>1, NoneApart DEF Routes, Routed
  <2>3. inv[inFlight[r]].session \in fencedSessions(c)
    BY <2>1 DEF fencedSessions
  <2>4. inv'[inFlight[r]].session = inv[inFlight[r]].session
    BY <2>2 DEF Evolves
  <2> QED
    BY <2>1, <2>2, <2>3, <2>4
<1> QED
  BY <1>2, <1>3

\* The sessions behind a binding fence.
LEMMA FencedSessions ==
    ASSUME InvokeInv, NEW c \in Conn
    PROVE  fencedSessions(c) \subseteq Session
<1> SUFFICES ASSUME NEW r \in Routed(c)
             PROVE  inv[inFlight[r]].session \in Session
  BY DEF fencedSessions
<1>1. /\ inFlight[r] \in Invocation /\ inv[inFlight[r]] # None
      /\ inv[inFlight[r]].session # None
  BY Tables, NoneApart DEF Routes, Routed
<1>2. inv[inFlight[r]] \in InvocationRecord
  BY <1>1, Tables
<1> QED
  BY <1>1, <1>2 DEF InvocationRecord

\* The binding is replaced.
LEMMA InvalidateStep ==
    ASSUME InvokeInv, NEW c \in Conn, invalidateBindingRequests(c)
    PROVE  SafeStep
<1>1. PICK S : S = fencedSessions(c)
  OBVIOUS
<1>2. /\ inFlight' = unrouted(c) /\ inv' = closeAdapter(inv, S)
      /\ session' = disposeDirectly(session, S) /\ conn' = conn
      /\ UNCHANGED <<tombstones, receipts, requestIds, inFlightInvokes>>
  BY <1>1 DEF invalidateBindingRequests
<1>3. session \in [Session -> SdkSession] /\ RecordsKept(inv, conn, session)
      /\ ConnType(conn')
  BY <1>2, Tables
<1>4. S \subseteq Session
  BY <1>1, FencedSessions
<1>5. Closes(S, session, session')
  BY <1>2, <1>3 DEF Closes, disposeDirectly, SdkSession
<1>6. /\ RecordsKept(inv', conn, session') /\ Evolves(inv, inv', session, session')
      /\ \A j \in Invocation : inv[j] # None => inv'[j].pc = inv[j].pc
      /\ \A t \in Session : session[t].closed => session'[t].closed
  <2>1. Shut(S, session, session', conn, inv, inv')
    BY <1>2, <1>3, <1>5 DEF Shut
  <2> QED
    BY ONLY <2>1, CloseSessions
<1>7. RecordsKept(inv', conn', session')
  BY <1>2, <1>6
<1>8. \A s \in fencedSessions(c) : session'[s].closed
  BY <1>1, <1>4, <1>5 DEF Closes
<1>9. /\ inFlight' \in [Request -> Invocation \cup {None}]
      /\ \A r \in Request : inFlight'[r] # inFlight[r] =>
            /\ inFlight'[r] = None /\ inFlight[r] \in Invocation
            /\ inv'[inFlight[r]].pc = "running" =>
                  session'[inv'[inFlight[r]].session].closed
  BY <1>2, <1>6, <1>7, <1>8, Unrouted
<1>10. \A j \in Invocation : inv[j] # None => (inv'[j].pc = "done" <=> inv[j].pc = "done")
  BY <1>6
<1>11. \A j \in Invocation : inv'[j] # None /\ inv'[j].pc = "running" => inv[j].pc = "running"
  BY <1>6 DEF Evolves
<1> QED
  BY <1>2, <1>3, <1>6, <1>7, <1>9, <1>10, <1>11, PlainStep

\* The SDK executes what it had agreed to remove.
LEMMA CancelledInputStep ==
    ASSUME InvokeInv, NEW i \in Invocation, cancelledInputExecuted(i)
    PROVE  SafeStep
<1>1. PICK x : x = inv[i]
  OBVIOUS
<1>2. PICK s : s = x.session
  OBVIOUS
<1>3. /\ inv[i] # None /\ x.ticket = "queued" /\ x.cancelled
      /\ inv' = closeAdapter([inv EXCEPT ![i] = [x EXCEPT !.exec = "running"]], {s})
      /\ session' = [session EXCEPT ![s] = [session[s] EXCEPT !.closed = TRUE]]
      /\ conn' = conn
      /\ UNCHANGED <<tombstones, receipts, requestIds, inFlightInvokes, inFlight>>
  BY <1>1, <1>2 DEF cancelledInputExecuted, SdkUnchanged, Queued
<1>4. /\ x \in InvocationRecord /\ Core(x) /\ s \in Session /\ s # None
      /\ x.lease # "released" /\ session[s].st # "disposed" /\ x.result = "none"
      /\ x.pc = "running"
  BY <1>1, <1>2, <1>3, LiveTicket
<1>5. /\ session \in [Session -> SdkSession] /\ RecordsKept(inv, conn, session)
      /\ ConnType(conn') /\ inv \in [Invocation -> InvocationRecord \cup {None}]
  BY <1>3, Tables
<1>6. Closes({s}, session, session')
  BY <1>3, <1>4, <1>5 DEF Closes, SdkSession
<1>7. PICK g : g = closeAdapter(inv, {s})
  OBVIOUS
<1>8. /\ RecordsKept(g, conn, session') /\ Evolves(inv, g, session, session')
      /\ \A j \in Invocation : inv[j] # None => g[j].pc = inv[j].pc
      /\ \A t \in Session : session[t].closed => session'[t].closed
  <2>1. Shut({s}, session, session', conn, inv, g)
    BY <1>5, <1>6, <1>7 DEF Shut
  <2> QED
    BY ONLY <2>1, CloseSessions
<1>9. PICK z : z = Reject(x)
  OBVIOUS
<1>10. g[i] = z /\ z = [x EXCEPT !.ticket = "terminal", !.result = "error"]
  BY <1>1, <1>2, <1>3, <1>4, <1>7, <1>9 DEF closeAdapter, Reject
<1>11. g \in [Invocation -> InvocationRecord \cup {None}] /\ g[i] # None
  BY <1>3, <1>8 DEF RecordsKept, Evolves
<1>12. z \in InvocationRecord /\ Tied(i, z, conn, session') /\ Core(z) /\ PcFacts(z)
  BY <1>8, <1>10, <1>11 DEF RecordsKept, Tied, Sound
<1>13. /\ z.ticket = "terminal" /\ z.result = "error" /\ z.session = s /\ z.pc = "running"
       /\ z.lease # "released" /\ z.cancelled = x.cancelled /\ z.exec = x.exec
       /\ z.conn = x.conn /\ z.req = x.req
  BY ONLY <1>2, <1>4, <1>10 DEF InvocationRecord
<1>14. PICK y : y = [z EXCEPT !.exec = "running"]
  OBVIOUS
<1>15. y \in InvocationRecord
  <2>1. [z EXCEPT !.exec = "running"] \in InvocationRecord
    BY ONLY <1>12, Retyped
  <2> QED
    BY <1>14, <2>1
<1>16. /\ SameFrame(z, y) /\ y.track = z.track /\ y.cancelled = z.cancelled
       /\ y.result = z.result /\ y.ticket = z.ticket /\ y.exec = "running"
       /\ y.phase = z.phase
  BY ONLY <1>12, <1>14 DEF InvocationRecord, SameFrame
<1>17. FrameFacts(y) /\ TicketFacts(y)
  BY <1>12, <1>13, <1>16 DEF Core, FrameFacts, TicketFacts, SameFrame
<1>18. RevocationFacts(y) /\ LeaseFacts(y)
  BY <1>12, <1>13, <1>16 DEF Core, RevocationFacts, LeaseFacts, SameFrame
<1>19. PcFacts(y)
  BY <1>12, <1>13, <1>16 DEF PcFacts, Silent, SameFrame
<1>20. session'[s].closed /\ session'[s].st # "disposed"
  BY <1>4, <1>6 DEF Closes
<1>21. SessionTie(y, session') /\ ConnTie(y, conn, session') /\ HoldTie(i, y, session')
  BY <1>12, <1>13, <1>16, <1>20 DEF Tied, SessionTie, ConnTie, HoldTie, SameFrame
<1>22. Tied(i, y, conn, session') /\ Doomed(y, session')
  BY <1>4, <1>13, <1>15, <1>16, <1>17, <1>18, <1>19, <1>20, <1>21
     DEF Tied, Sound, Core, Doomed, SameFrame
<1>23. inv' = [g EXCEPT ![i] = y]
  <2>1. PICK w : w = [x EXCEPT !.exec = "running"]
    OBVIOUS
  <2>2. w \in InvocationRecord /\ w # None
    <3>1. [x EXCEPT !.exec = "running"] \in InvocationRecord
      BY ONLY <1>4, Retyped
    <3> QED
      BY <2>1, <3>1, NoneApart
  <2>3. w.session = s /\ w.ticket = "queued"
    BY ONLY <1>2, <1>3, <1>4, <2>1 DEF InvocationRecord
  <2>4. Reject(w) = y
    <3>1. Reject(w) = [w EXCEPT !.ticket = "terminal", !.result = "error"]
      BY <2>3 DEF Reject
    <3> QED
      BY ONLY <1>10, <1>14, <2>1, <3>1
  <2>5. PICK f : f = [inv EXCEPT ![i] = w]
    OBVIOUS
  <2>6. f[i] = w /\ \A j \in Invocation \ {i} : f[j] = inv[j]
    BY <1>5, <2>5
  <2>7. inv' = closeAdapter(f, {s})
    BY <1>3, <2>1, <2>5
  <2>8. inv'[i] = y
    BY <2>2, <2>3, <2>4, <2>6, <2>7 DEF closeAdapter
  <2>9. \A j \in Invocation \ {i} : inv'[j] = g[j]
    BY <1>7, <2>6, <2>7 DEF closeAdapter
  <2>10. inv' = [j \in Invocation |-> inv'[j]]
    BY <2>7 DEF closeAdapter
  <2> QED
    BY <1>11, <2>8, <2>9, <2>10
<1>24. /\ inv'[i] = y /\ \A j \in Invocation \ {i} : inv'[j] = g[j]
       /\ inv' \in [Invocation -> InvocationRecord \cup {None}] /\ y # None
  BY <1>11, <1>15, <1>23, NoneApart
<1>25. RecordsKept(inv', conn', session')
  <2>1. \A j \in Invocation : inv'[j] # None => Tied(j, inv'[j], conn, session')
    BY <1>8, <1>22, <1>24 DEF RecordsKept
  <2>2. \A t \in Session, j \in Invocation : j \in session'[t].holds => inv'[j] # None
    BY <1>8, <1>24 DEF RecordsKept
  <2> QED
    BY <1>3, <1>8, <1>24, <2>1, <2>2 DEF RecordsKept
<1>26. Evolves(inv, inv', session, session')
  <2>1. /\ y.conn = x.conn /\ y.req = x.req /\ y.session = x.session
    BY <1>2, <1>13, <1>16 DEF SameFrame
  <2> SUFFICES ASSUME NEW j \in Invocation
               PROVE  /\ inv'[j] = None <=> inv[j] = None
                      /\ inv[j] # None =>
                            /\ inv'[j].conn = inv[j].conn /\ inv'[j].req = inv[j].req
                            /\ inv[j].session # None => inv'[j].session = inv[j].session
                            /\ Doomed(inv[j], session) => Doomed(inv'[j], session')
                            /\ Finished(inv[j]) => Finished(inv'[j])
    BY DEF Evolves
  <2>2. CASE j # i
    BY <1>8, <1>24, <2>2 DEF Evolves
  <2>3. CASE j = i
    BY <1>1, <1>3, <1>4, <1>22, <1>24, <2>1, <2>3 DEF Finished
  <2> QED
    BY <2>2, <2>3
<1>27. \A j \in Invocation : inv[j] # None => inv'[j].pc = inv[j].pc
  BY <1>1, <1>4, <1>8, <1>13, <1>16, <1>24 DEF SameFrame
<1> QED
  BY <1>3, <1>5, <1>8, <1>25, <1>26, <1>27, RecordsStep

\* Sessions change in a way that no record notices.
LEMMA SessionsMove ==
    ASSUME InvokeInv, session' \in [Session -> SdkSession], SessionFacts(session'),
           \A s \in Session : /\ session'[s].holds = session[s].holds
                              /\ session'[s].st = "disposed" <=> session[s].st = "disposed"
                              /\ session[s].closed => session'[s].closed,
           \A j \in Invocation : inv[j] # None /\ inv[j].session # None
                                 /\ session'[inv[j].session].closed =>
               inv[j].ticket \in {"none", "terminal"},
           SdkUnchanged, inv' = inv
    PROVE  SafeStep
<1>1. RecordsKept(inv, conn, session) /\ ConnType(conn)
  BY Tables
<1>2. ASSUME NEW j \in Invocation, inv[j] # None
      PROVE  Tied(j, inv[j], conn, session') /\ (Doomed(inv[j], session) => Doomed(inv[j], session'))
  <2>1. PICK x : x = inv[j]
    OBVIOUS
  <2>2. /\ x \in InvocationRecord /\ Sound(x) /\ SessionTie(x, session)
        /\ ConnTie(x, conn, session) /\ HoldTie(j, x, session)
    BY <1>2, <2>1, RunningTied DEF Tied
  <2>3. x.session # None => x.session \in Session
    BY <2>2 DEF InvocationRecord
  <2>4. SessionTie(x, session')
    BY <1>2, <2>1, <2>2, <2>3 DEF SessionTie
  <2>5. ConnTie(x, conn, session')
    <3>1. x.pc = "running" => x.session # None
      BY <2>2 DEF Sound, Core, TicketFacts, PcFacts
    <3> QED
      BY <2>2, <2>3, <3>1 DEF ConnTie
  <2>6. HoldTie(j, x, session')
    BY <2>2, <2>3 DEF HoldTie
  <2>7. Doomed(x, session) => Doomed(x, session')
    BY <2>3 DEF Doomed
  <2> QED
    BY <2>1, <2>2, <2>4, <2>5, <2>6, <2>7 DEF Tied
<1>3. \A s \in Session, j \in Invocation : j \in session'[s].holds => inv[j] # None
  BY <1>1 DEF RecordsKept
<1>4. RecordsKept(inv', conn', session') /\ ConnType(conn')
  BY <1>1, <1>2, <1>3 DEF RecordsKept, SdkUnchanged
<1>5. Evolves(inv, inv', session, session')
  BY <1>2 DEF Evolves
<1> QED
  BY <1>4, <1>5, RecordsStep DEF SdkUnchanged

\* The pool creates a session.
LEMMA CreateSessionStep ==
    ASSUME InvokeInv, NEW s \in Session, createSession(s)
    PROVE  SafeStep
<1>1. /\ session[s].st = "unused" /\ SdkUnchanged /\ inv' = inv
      /\ session' = [session EXCEPT ![s] = [session[s] EXCEPT !.st = "live"]]
  BY DEF createSession
<1>2. session \in [Session -> SdkSession] /\ SessionFacts(session)
  BY Tables
<1>3. /\ session' \in [Session -> SdkSession]
      /\ \A t \in Session : /\ session'[t].holds = session[t].holds
                            /\ session'[t].st \in {"retiring", "disposed"} =>
                                  session'[t].st = session[t].st
                            /\ session'[t].st = "disposed" <=> session[t].st = "disposed"
                            /\ session[t].closed = session'[t].closed
  BY <1>1, <1>2 DEF SdkSession
<1>4. SessionFacts(session')
  BY <1>2, <1>3 DEF SessionFacts
<1>5. \A j \in Invocation : inv[j] # None /\ inv[j].session # None
                            /\ session'[inv[j].session].closed =>
          inv[j].ticket \in {"none", "terminal"}
  <2> SUFFICES ASSUME NEW j \in Invocation, inv[j] # None, inv[j].session # None,
                      session'[inv[j].session].closed
               PROVE  inv[j].ticket \in {"none", "terminal"}
    OBVIOUS
  <2>1. SessionTie(inv[j], session) /\ inv[j] \in InvocationRecord
    BY RunningTied
  <2>2. inv[j].session \in Session
    BY <2>1 DEF InvocationRecord
  <2> QED
    BY <1>3, <2>1, <2>2 DEF SessionTie
<1> QED
  BY <1>1, <1>3, <1>4, <1>5, SessionsMove

\* The pool retires a session that is closed or idle.
LEMMA PoolRetiresStep ==
    ASSUME InvokeInv, NEW s \in Session, poolRetires(s)
    PROVE  SafeStep
<1>1. /\ session[s].st = "live" /\ (session[s].closed \/ ~Busy(s)) /\ SdkUnchanged
      /\ inv' = inv
      /\ session' = [session EXCEPT ![s] = [session[s] EXCEPT !.st = "retiring",
                                                             !.closed = TRUE]]
  BY DEF poolRetires
<1>2. session \in [Session -> SdkSession] /\ SessionFacts(session)
  BY Tables
<1>3. /\ session' \in [Session -> SdkSession] /\ session'[s].closed
      /\ \A t \in Session \ {s} : session'[t] = session[t]
      /\ \A t \in Session : /\ session'[t].holds = session[t].holds
                            /\ session'[t].st = "disposed" <=> session[t].st = "disposed"
                            /\ session[t].closed => session'[t].closed
  BY <1>1, <1>2 DEF SdkSession
<1>4. SessionFacts(session')
  BY <1>2, <1>3 DEF SessionFacts
<1>5. \A j \in Invocation : inv[j] # None /\ inv[j].session # None
                            /\ session'[inv[j].session].closed =>
          inv[j].ticket \in {"none", "terminal"}
  <2> SUFFICES ASSUME NEW j \in Invocation, inv[j] # None, inv[j].session # None,
                      session'[inv[j].session].closed
               PROVE  inv[j].ticket \in {"none", "terminal"}
    OBVIOUS
  <2>1. SessionTie(inv[j], session) /\ inv[j] \in InvocationRecord
    BY RunningTied
  <2>2. inv[j].session \in Session
        /\ inv[j].ticket \in {"none", "queued", "active", "terminal"}
    BY <2>1 DEF InvocationRecord
  <2>3. CASE session[inv[j].session].closed
    BY <2>1, <2>3 DEF SessionTie
  <2>4. CASE ~session[inv[j].session].closed
    <3>1. inv[j].session = s
      BY <1>3, <2>2, <2>4
    <3> QED
      BY <1>1, <2>2, <2>4, <3>1 DEF Busy
  <2> QED
    BY <2>3, <2>4
<1> QED
  BY <1>1, <1>3, <1>4, <1>5, SessionsMove


\* What the disposal of session s does to the record of j.
Quieted(j, x, s) ==
    [x EXCEPT !.lease = IF j \in session[s].holds THEN "released" ELSE @,
              !.exec = IF x.session = s /\ @ = "running" THEN "over" ELSE @]

\* A record when session s is disposed of.
LEMMA RecordDisposed ==
    ASSUME InvokeInv, NEW s \in Session, session[s].st = "retiring", NEW ss,
           ss \in [Session -> SdkSession], ss[s].st = "disposed", ss[s].holds = {},
           ss[s].closed, \A t \in Session \ {s} : ss[t] = session[t],
           NEW j \in Invocation, inv[j] # None, NEW y, y = Quieted(j, inv[j], s)
    PROVE  /\ Tied(j, y, conn, ss) /\ y.conn = inv[j].conn /\ y.req = inv[j].req
           /\ y.session = inv[j].session /\ y.pc = inv[j].pc /\ y.local = inv[j].local
           /\ Doomed(inv[j], session) => Doomed(y, ss)
<1>1. PICK x : x = inv[j]
  OBVIOUS
<1>2. /\ x \in InvocationRecord /\ Core(x) /\ PcFacts(x) /\ SessionTie(x, session)
      /\ ConnTie(x, conn, session) /\ HoldTie(j, x, session)
  BY <1>1, RunningTied DEF Tied
<1>3. SessionFacts(session) /\ s # None
  BY Tables, NoneApart
<1>4. session[s].closed
  BY <1>3 DEF SessionFacts
<1>5. PICK v : v = IF j \in session[s].holds THEN "released" ELSE x.lease
  OBVIOUS
<1>6. PICK e : e = IF x.session = s /\ x.exec = "running" THEN "over" ELSE x.exec
  OBVIOUS
<1>7. v \in {"none", "held", "released"} /\ e \in {"no", "running", "over"}
  BY <1>2, <1>5, <1>6 DEF InvocationRecord
<1>8. y = [x EXCEPT !.lease = v, !.exec = e]
  BY <1>1, <1>5, <1>6 DEF Quieted
<1>9. y \in InvocationRecord
  <2>1. [x EXCEPT !.lease = v, !.exec = e] \in InvocationRecord
    BY ONLY <1>2, <1>7, Retyped
  <2> QED
    BY <1>8, <2>1
<1>10. /\ y.conn = x.conn /\ y.req = x.req /\ y.kind = x.kind /\ y.session = x.session
       /\ y.pc = x.pc /\ y.lease = v /\ y.local = x.local /\ y.rec = x.rec
       /\ y.revoked = x.revoked /\ y.revokedTicket = x.revokedTicket
       /\ y.removalVerified = x.removalVerified /\ y.terminalSent = x.terminalSent
       /\ y.track = x.track /\ y.cancelled = x.cancelled /\ y.exec = e
       /\ y.phase = x.phase /\ y.frames = x.frames /\ y.outbox = x.outbox
       /\ y.broken = x.broken /\ y.said = x.said /\ y.ticket = x.ticket
       /\ y.result = x.result
  BY ONLY <1>2, <1>8 DEF InvocationRecord
<1>11. x.session = s => x.ticket \in {"none", "terminal"} /\ e # "running"
  BY <1>2, <1>3, <1>4, <1>6 DEF SessionTie
<1>12. j \in session[s].holds =>
          /\ v = "released" /\ x.lease = "held" /\ ~x.rec /\ x.pc # "admitting"
          /\ x.session = s \/ (x.session = None /\ ~x.local)
          /\ e # "running" /\ (x.ticket = "terminal" => x.session = s)
  <2> SUFFICES ASSUME j \in session[s].holds
               PROVE  /\ v = "released" /\ x.lease = "held" /\ ~x.rec /\ x.pc # "admitting"
                      /\ x.session = s \/ (x.session = None /\ ~x.local)
                      /\ e # "running" /\ (x.ticket = "terminal" => x.session = s)
    OBVIOUS
  <2>1. /\ x.lease = "held" /\ ~x.rec /\ x.pc # "admitting"
        /\ x.session = s \/ (x.session = None /\ ~x.local)
    BY <1>2 DEF HoldTie
  <2>2. x.session = None => x.ticket = "none" /\ x.exec = "no"
    BY <1>2 DEF Core, TicketFacts
  <2> QED
    BY <1>3, <1>5, <1>6, <1>11, <2>1, <2>2
<1>13. j \notin session[s].holds => v = x.lease
  BY <1>5
<1>14. e = x.exec \/ (x.session = s /\ x.exec = "running" /\ e = "over")
  BY <1>6
<1>15. FrameFacts(y) /\ TicketFacts(y)
  BY <1>2, <1>10, <1>11, <1>14 DEF Core, FrameFacts, TicketFacts
<1>16. RevocationFacts(y)
  BY <1>2, <1>10, <1>11, <1>14 DEF Core, RevocationFacts
<1>17. LeaseFacts(y)
  BY <1>2, <1>10, <1>12, <1>13, <1>14 DEF Core, LeaseFacts
<1>18. PcFacts(y)
  BY <1>2, <1>10, <1>12, <1>13, <1>14 DEF PcFacts, Silent
<1>19. x.session # None => x.session \in Session
  BY <1>2 DEF InvocationRecord
<1>20. SessionTie(y, ss)
  <2>1. CASE x.session = s
    BY <1>3, <1>10, <1>11, <2>1 DEF SessionTie
  <2>2. CASE x.session # s
    <3>1. x.session # None => ss[x.session] = session[x.session]
      BY <1>19, <2>2
    <3>2. x.ticket = "terminal" => v = x.lease
      BY <1>12, <1>13, <2>2
    <3>3. x.result = "error" => x.ticket = "terminal"
      BY <1>2 DEF Core, TicketFacts
    <3> QED
      BY <1>2, <1>10, <1>14, <2>2, <3>1, <3>2, <3>3 DEF SessionTie
  <2> QED
    BY <2>1, <2>2
<1>21. ConnTie(y, conn, ss)
  <2>1. x.pc = "running" => x.session # None
    BY <1>2 DEF Core, TicketFacts, PcFacts
  <2> QED
    BY <1>2, <1>10, <1>19, <2>1 DEF ConnTie
<1>22. HoldTie(j, y, ss)
  <2>1. v = "held" /\ ~x.rec /\ x.pc # "admitting" => \E t \in Session : j \in ss[t].holds
    <3> SUFFICES ASSUME v = "held", ~x.rec, x.pc # "admitting"
                 PROVE  \E t \in Session : j \in ss[t].holds
      OBVIOUS
    <3>1. j \notin session[s].holds /\ x.lease = "held"
      BY <1>12, <1>13
    <3>2. PICK t \in Session : j \in session[t].holds
      BY <1>2, <3>1 DEF HoldTie
    <3> QED
      BY <3>1, <3>2
  <2>2. x.local /\ v = "released" => x.session # None /\ ss[x.session].st = "disposed"
    <3>1. CASE j \in session[s].holds
      BY <1>3, <1>12, <3>1
    <3>2. CASE j \notin session[s].holds
      BY <1>2, <1>13, <1>19, <3>2 DEF HoldTie
    <3> QED
      BY <3>1, <3>2
  <2>3. ASSUME NEW t \in Session, j \in ss[t].holds
        PROVE  /\ v = "held" /\ ~x.rec /\ x.pc # "admitting"
               /\ x.session = t \/ (x.session = None /\ ~x.local)
    <3>1. t # s /\ j \in session[t].holds
      BY <2>3
    <3>2. j \notin session[s].holds
      BY <1>3, <3>1 DEF SessionFacts
    <3> QED
      BY <1>2, <1>13, <3>1, <3>2 DEF HoldTie
  <2> QED
    BY <1>10, <2>1, <2>2, <2>3 DEF HoldTie
<1>23. Doomed(x, session) => Doomed(y, ss)
  BY <1>10, <1>14, <1>19 DEF Doomed
<1> QED
  BY <1>1, <1>9, <1>10, <1>15, <1>16, <1>17, <1>18, <1>20, <1>21, <1>22, <1>23
     DEF Tied, Sound, Core

\* A session is disposed of.
LEMMA DisposedStep ==
    ASSUME InvokeInv, NEW s \in Session, disposed(s)
    PROVE  SafeStep
<1>1. /\ session[s].st = "retiring" /\ SdkUnchanged
      /\ session' = [session EXCEPT ![s] = [session[s] EXCEPT !.st = "disposed",
                                                             !.holds = {}]]
      /\ inv' = [j \in Invocation |-> IF inv[j] = None THEN None ELSE Quieted(j, inv[j], s)]
  BY DEF disposed, Quieted
<1>2. /\ RecordsKept(inv, conn, session) /\ ConnType(conn) /\ SessionFacts(session)
      /\ session \in [Session -> SdkSession]
  BY Tables
<1>3. /\ session' \in [Session -> SdkSession] /\ session'[s].st = "disposed"
      /\ session'[s].holds = {} /\ session'[s].closed
      /\ \A t \in Session \ {s} : session'[t] = session[t]
  BY <1>1, <1>2 DEF SdkSession, SessionFacts
<1>4. ASSUME NEW j \in Invocation, inv[j] # None
      PROVE  /\ Tied(j, inv'[j], conn, session') /\ inv'[j].conn = inv[j].conn
             /\ inv'[j].req = inv[j].req
             /\ inv'[j].session = inv[j].session /\ inv'[j].pc = inv[j].pc
             /\ inv'[j].local = inv[j].local
             /\ Doomed(inv[j], session) => Doomed(inv'[j], session')
  <2>1. inv'[j] = Quieted(j, inv[j], s)
    BY <1>1, <1>4
  <2>2. session[s].st = "retiring" /\ s \in Session /\ j \in Invocation /\ inv[j] # None
    BY <1>1, <1>4
  <2> QED
    BY ONLY InvokeInv, <1>3, <2>1, <2>2, RecordDisposed
<1>5. \A j \in Invocation : inv[j] = None => inv'[j] = None
  BY <1>1
<1>6. \A j \in Invocation : inv[j] # None => inv'[j] \in InvocationRecord /\ inv'[j] # None
  BY <1>4, NoneApart DEF Tied, Sound
<1>7. inv' \in [Invocation -> InvocationRecord \cup {None}]
  <2>1. \A j \in Invocation : inv'[j] \in InvocationRecord \cup {None}
    BY <1>5, <1>6
  <2>2. inv' = [j \in Invocation |-> inv'[j]]
    BY <1>1
  <2> QED
    BY ONLY <2>1, <2>2
<1>8. SessionFacts(session')
  BY <1>2, <1>3 DEF SessionFacts
<1>9. \A t \in Session, j \in Invocation : j \in session'[t].holds => inv'[j] # None
  BY <1>2, <1>3, <1>6 DEF RecordsKept
<1>10. conn' = conn
  BY <1>1 DEF SdkUnchanged
<1>11. RecordsKept(inv', conn', session') /\ ConnType(conn')
  BY <1>2, <1>3, <1>4, <1>5, <1>7, <1>8, <1>9, <1>10 DEF RecordsKept
<1>12. Evolves(inv, inv', session, session')
  BY <1>4, <1>5, <1>6 DEF Evolves, Finished
<1>13. \A t \in Session : session[t].closed => session'[t].closed
  BY <1>3
<1> QED
  BY <1>1, <1>4, <1>11, <1>12, <1>13, RecordsStep DEF SdkUnchanged

-----------------------------------------------------------------------------
(* Retirement.                                                             *)

\* What pool.retireSession with the holds H makes of the sessions in S.
RetiresTo(S, H, tt) ==
    /\ tt \in [Session -> SdkSession]
    /\ \A s \in Session :
          /\ tt[s].closed <=> session[s].closed \/ s \in S
          /\ tt[s].st = "disposed" <=> session[s].st = "disposed"
          /\ tt[s].st \in {"retiring", "disposed"} => tt[s].closed
          /\ session[s].st = "disposed" => tt[s].holds = {}
          /\ session[s].st # "disposed" => tt[s].holds = session[s].holds \cup H[s]

\* A record that the retirement finds: one whose lease becomes a hold has given it
\* up, and it is the hold of that session only.
Retiring(j, x, H, cn, tt) ==
    /\ Sound(x) /\ SessionTie(x, session) /\ ConnTie(x, cn, tt)
    /\ x.lease = "released" => x.ticket \in {"none", "terminal"}
    /\ (\A s \in Session : j \notin H[s]) => HoldTie(j, x, session)
    /\ \A s \in Session : j \in H[s] =>
          /\ ~x.rec /\ x.lease # "none" /\ x.pc # "admitting"
          /\ x.session = s \/ (x.session = None /\ ~x.local)
          /\ session[s].st # "disposed" => x.lease = "held"
          /\ session[s].st = "disposed" => x.session = s
          /\ \A t \in Session : j \in session[t].holds \cup H[t] => t = s

\* A record after the retirement of the sessions in S.
Retired(j, x, S, H) ==
    LET z == IF x.session \in S THEN Reject(x) ELSE x
    IN  IF \E s \in S : session[s].st = "disposed" /\ j \in H[s]
        THEN [z EXCEPT !.lease = "released"] ELSE z

\* One record when sessions are retired.
LEMMA RecordRetires ==
    ASSUME NEW S \in SUBSET Session, NEW H, NEW cn, NEW tt, RetiresTo(S, H, tt),
           SessionFacts(session), \A s \in Session : H[s] # {} => s \in S,
           NEW j \in Invocation, NEW x, Retiring(j, x, H, cn, tt),
           NEW y, y = Retired(j, x, S, H)
    PROVE  /\ Tied(j, y, cn, tt) /\ (Doomed(x, session) => Doomed(y, tt)) /\ y.pc = x.pc
           /\ y.conn = x.conn /\ y.req = x.req /\ y.session = x.session /\ y.local = x.local
<1>1. /\ x \in InvocationRecord /\ Sound(x) /\ SessionTie(x, session)
      /\ ConnTie(x, cn, tt)
      /\ x.lease = "released" => x.ticket \in {"none", "terminal"}
  BY DEF Retiring, Sound
<1>2. PICK z : z = IF x.session \in S THEN Reject(x) ELSE x
  OBVIOUS
<1>3. /\ Sound(z)
      /\ z.conn = x.conn /\ z.req = x.req /\ z.session = x.session
      /\ z.pc = x.pc /\ z.lease = x.lease /\ z.local = x.local /\ z.rec = x.rec
      /\ z.revoked = x.revoked /\ z.revokedTicket = x.revokedTicket
      /\ z.cancelled = x.cancelled /\ z.exec = x.exec
      /\ x.session \in S => z.ticket \in {"none", "terminal"}
      /\ x.session \notin S => z = x
      /\ x.ticket \in {"none", "terminal"} => z = x
      /\ x.result # "none" => z = x
  <2>1. PICK w : w = Reject(x)
    OBVIOUS
  <2>2. /\ Sound(w) /\ w.ticket \in {"none", "terminal"}
        /\ w.conn = x.conn /\ w.req = x.req /\ w.kind = x.kind /\ w.session = x.session
        /\ w.pc = x.pc /\ w.lease = x.lease /\ w.local = x.local /\ w.rec = x.rec
        /\ w.revoked = x.revoked /\ w.revokedTicket = x.revokedTicket
        /\ w.track = x.track /\ w.cancelled = x.cancelled /\ w.exec = x.exec
        /\ w.ops = x.ops
        /\ x.ticket \in {"none", "terminal"} => w = x
        /\ x.result # "none" => w = x
    BY <1>1, <2>1, Rejected
  <2> QED
    BY <1>1, <1>2, <2>1, <2>2
<1>4. x.session # None => x.session \in Session
  BY <1>1 DEF InvocationRecord
<1>5. SessionTie(z, tt)
  BY <1>1, <1>3, <1>4 DEF SessionTie, RetiresTo
<1>6. ConnTie(z, cn, tt)
  BY <1>1, <1>3 DEF ConnTie
<1>7. Doomed(x, session) => Doomed(z, tt)
  BY <1>3, <1>4 DEF Doomed, RetiresTo
<1>8. CASE \A s \in Session : j \notin H[s]
  <2>1. y = z
    BY <1>2, <1>8 DEF Retired
  <2>2. HoldTie(j, x, session)
    BY <1>8 DEF Retiring
  <2>3. \A s \in Session : j \in tt[s].holds <=> j \in session[s].holds
    BY <1>8 DEF RetiresTo, SessionFacts
  <2>4. HoldTie(j, z, tt)
    BY <1>3, <1>4, <2>2, <2>3 DEF HoldTie, RetiresTo
  <2> QED
    BY <1>3, <1>5, <1>6, <1>7, <2>1, <2>4 DEF Tied
<1>9. ASSUME NEW s \in Session, j \in H[s]
      PROVE  /\ Tied(j, y, cn, tt) /\ (Doomed(x, session) => Doomed(y, tt)) /\ y.pc = x.pc
             /\ y.conn = x.conn /\ y.req = x.req /\ y.session = x.session /\ y.local = x.local
  <2>1. /\ ~x.rec /\ x.lease # "none" /\ x.pc # "admitting" /\ s \in S
        /\ x.session = s \/ (x.session = None /\ ~x.local)
        /\ session[s].st # "disposed" => x.lease = "held"
        /\ session[s].st = "disposed" => x.session = s
        /\ \A t \in Session : j \in session[t].holds \cup H[t] => t = s
    BY <1>9 DEF Retiring
  <2>2. CASE session[s].st # "disposed"
    <3>1. y = z
      BY <1>2, <2>1, <2>2 DEF Retired
    <3>2. j \in tt[s].holds
      BY <1>9, <2>2 DEF RetiresTo
    <3>3. \A t \in Session : j \in tt[t].holds => t = s
      BY <2>1 DEF RetiresTo
    <3>4. HoldTie(j, z, tt)
      BY <1>3, <2>1, <2>2, <3>2, <3>3 DEF HoldTie
    <3> QED
      BY <1>3, <1>5, <1>6, <1>7, <3>1, <3>4 DEF Tied
  <2>3. CASE session[s].st = "disposed"
    <3>1. y = [z EXCEPT !.lease = "released"]
      BY <1>2, <1>9, <2>1, <2>3 DEF Retired
    <3>2. z \in InvocationRecord /\ Core(z) /\ PcFacts(z)
      BY <1>3 DEF Sound
    <3>3. y \in InvocationRecord
      <4>1. [z EXCEPT !.lease = "released"] \in InvocationRecord
        BY ONLY <3>2, Retyped
      <4> QED
        BY <3>1, <4>1
    <3>4. /\ Same(z, y) /\ y.local = z.local /\ y.rec = z.rec /\ y.lease = "released"
          /\ y.revoked = z.revoked /\ y.revokedTicket = z.revokedTicket
          /\ y.removalVerified = z.removalVerified /\ y.phase = z.phase /\ y.pc = z.pc
          /\ y.frames = z.frames /\ y.outbox = z.outbox /\ y.broken = z.broken
          /\ y.said = z.said /\ y.terminalSent = z.terminalSent
      BY ONLY <3>1, <3>2 DEF InvocationRecord, Same
    <3>5. s # None /\ z.session = s /\ tt[s].st = "disposed"
      BY <1>3, <2>1, <2>3, NoneApart DEF RetiresTo
    <3>6. z.exec # "running"
      BY <1>5, <3>5 DEF SessionTie
    <3>7. FrameFacts(y) /\ TicketFacts(y)
      BY <3>2, <3>4 DEF Core, FrameFacts, TicketFacts, Same
    <3>8. RevocationFacts(y) /\ LeaseFacts(y)
      BY <1>3, <2>1, <3>2, <3>4, <3>6 DEF Core, RevocationFacts, LeaseFacts, Same
    <3>9. PcFacts(y)
      BY <1>3, <2>1, <3>2, <3>4 DEF PcFacts, Silent, Same
    <3>10. SessionTie(y, tt) /\ ConnTie(y, cn, tt)
      BY <1>5, <1>6, <3>4, <3>5 DEF SessionTie, ConnTie, Same
    <3>11. HoldTie(j, y, tt)
      <4>1. \A t \in Session : j \notin tt[t].holds
        BY <2>1, <2>3 DEF RetiresTo
      <4> QED
        BY <3>4, <3>5, <4>1 DEF HoldTie, Same
    <3>12. Doomed(z, tt) => Doomed(y, tt)
      BY <3>4 DEF Doomed, Same
    <3> QED
      BY <1>3, <1>7, <3>3, <3>4, <3>7, <3>8, <3>9, <3>10, <3>11, <3>12
         DEF Tied, Sound, Core, Same
  <2> QED
    BY <2>2, <2>3
<1> QED
  BY <1>8, <1>9

\* From the records f the sessions in S are retired with the holds H, which gives g
\* and tt.
Retires(S, H, cn, f, g, tt) ==
    /\ f \in [Invocation -> InvocationRecord \cup {None}] /\ S \subseteq Session
    /\ session \in [Session -> SdkSession] /\ SessionFacts(session)
    /\ \A s \in Session : H[s] \subseteq Invocation /\ (H[s] # {} => s \in S)
    /\ \A j \in Invocation : f[j] # None => Retiring(j, f[j], H, cn, tt)
    /\ \A s \in Session, j \in Invocation : j \in session[s].holds \cup H[s] => f[j] # None
    /\ g = retireTickets(f, S, H) /\ tt = retired(S, H)

\* retired, field by field.
LEMMA RetiredSessions ==
    ASSUME NEW S, NEW H, session \in [Session -> SdkSession], SessionFacts(session),
           \A s \in Session : H[s] \subseteq Invocation /\ (H[s] # {} => s \in S),
           NEW tt, tt = retired(S, H)
    PROVE  RetiresTo(S, H, tt)
<1>1. \A s \in Session : tt[s] = IF s \in S /\ session[s].st # "disposed"
          THEN [st |-> "retiring", closed |-> TRUE, holds |-> session[s].holds \cup H[s]]
          ELSE session[s]
  BY DEF retired
<1>2. tt = [s \in Session |-> tt[s]]
  BY DEF retired
<1>3. ASSUME NEW s \in Session
      PROVE  /\ tt[s] \in SdkSession
             /\ tt[s].closed <=> session[s].closed \/ s \in S
             /\ tt[s].st = "disposed" <=> session[s].st = "disposed"
             /\ tt[s].st \in {"retiring", "disposed"} => tt[s].closed
             /\ session[s].st = "disposed" => tt[s].holds = {}
             /\ session[s].st # "disposed" => tt[s].holds = session[s].holds \cup H[s]
  <2>1. session[s] \in SdkSession
    OBVIOUS
  <2>2. CASE s \in S /\ session[s].st # "disposed"
    <3>1. tt[s] = [st |-> "retiring", closed |-> TRUE, holds |-> session[s].holds \cup H[s]]
      BY <1>1, <2>2
    <3> QED
      BY <2>1, <2>2, <3>1 DEF SdkSession
  <2>3. CASE ~(s \in S /\ session[s].st # "disposed")
    <3>1. tt[s] = session[s]
      BY <1>1, <2>3
    <3>2. s \in S => session[s].closed
      BY <2>3 DEF SessionFacts
    <3> QED
      BY <2>1, <2>3, <3>1, <3>2 DEF SessionFacts
  <2> QED
    BY <2>2, <2>3
<1> QED
  BY <1>2, <1>3 DEF RetiresTo

\* Retiring sessions keeps the records.
LEMMA RetireSessions ==
    ASSUME NEW S, NEW H, NEW cn, NEW f, NEW g, NEW tt, Retires(S, H, cn, f, g, tt)
    PROVE  /\ RecordsKept(g, cn, tt) /\ Evolves(f, g, session, tt)
           /\ \A j \in Invocation : f[j] # None => g[j].pc = f[j].pc
           /\ \A s \in Session : session[s].closed => tt[s].closed
           /\ \A s \in S : tt[s].closed
<1>1. /\ f \in [Invocation -> InvocationRecord \cup {None}] /\ S \subseteq Session
      /\ session \in [Session -> SdkSession] /\ SessionFacts(session)
      /\ \A s \in Session : H[s] \subseteq Invocation /\ (H[s] # {} => s \in S)
      /\ \A j \in Invocation : f[j] # None => Retiring(j, f[j], H, cn, tt)
      /\ \A s \in Session, j \in Invocation : j \in session[s].holds \cup H[s] => f[j] # None
      /\ tt = retired(S, H)
  BY DEF Retires
<1>2. RetiresTo(S, H, tt)
  BY <1>1, RetiredSessions
<1>3. ASSUME NEW j \in Invocation, f[j] # None
      PROVE  g[j] = Retired(j, f[j], S, H)
  <2> DEFINE a == closeAdapter(f, S)
  <2> DEFINE R == UNION {H[s] : s \in {t \in S : session[t].st = "disposed"}}
  <2>1. g = [k \in Invocation |-> IF k \in R THEN [a[k] EXCEPT !.lease = "released"] ELSE a[k]]
    BY DEF Retires, retireTickets
  <2>2. a[j] = IF f[j].session \in S THEN Reject(f[j]) ELSE f[j]
    BY <1>3 DEF closeAdapter
  <2>3. j \in R <=> \E s \in S : session[s].st = "disposed" /\ j \in H[s]
    OBVIOUS
  <2> HIDE DEF a, R
  <2>4. g[j] = IF j \in R THEN [a[j] EXCEPT !.lease = "released"] ELSE a[j]
    BY <2>1
  <2> QED
    BY <2>2, <2>3, <2>4 DEF Retired
<1>4. ASSUME NEW j \in Invocation, f[j] = None
      PROVE  g[j] = None
  <2> DEFINE a == closeAdapter(f, S)
  <2> DEFINE R == UNION {H[s] : s \in {t \in S : session[t].st = "disposed"}}
  <2>1. g = [k \in Invocation |-> IF k \in R THEN [a[k] EXCEPT !.lease = "released"] ELSE a[k]]
    BY DEF Retires, retireTickets
  <2>2. a[j] = None
    BY <1>4 DEF closeAdapter
  <2>3. j \notin R
    BY <1>1, <1>4
  <2> HIDE DEF a, R
  <2> QED
    BY <2>1, <2>2, <2>3
<1>5. ASSUME NEW j \in Invocation, f[j] # None
      PROVE  /\ Tied(j, g[j], cn, tt) /\ (Doomed(f[j], session) => Doomed(g[j], tt))
             /\ g[j].pc = f[j].pc /\ g[j].conn = f[j].conn /\ g[j].req = f[j].req
             /\ g[j].session = f[j].session /\ g[j].local = f[j].local
  <2>1. PICK x : x = f[j]
    OBVIOUS
  <2>2. PICK y : y = g[j]
    OBVIOUS
  <2>3. /\ S \in SUBSET Session /\ SessionFacts(session) /\ Retiring(j, x, H, cn, tt)
        /\ \A s \in Session : H[s] # {} => s \in S
        /\ y = Retired(j, x, S, H) /\ j \in Invocation
    BY <1>1, <1>3, <1>5, <2>1, <2>2
  <2>4. /\ Tied(j, y, cn, tt) /\ (Doomed(x, session) => Doomed(y, tt)) /\ y.pc = x.pc
        /\ y.conn = x.conn /\ y.req = x.req /\ y.session = x.session /\ y.local = x.local
    BY ONLY <1>2, <2>3, RecordRetires
  <2> QED
    BY <2>1, <2>2, <2>4
<1>6. \A j \in Invocation : f[j] # None => g[j] \in InvocationRecord /\ g[j] # None
  BY <1>5, NoneApart DEF Tied, Sound
<1>7. g \in [Invocation -> InvocationRecord \cup {None}]
  <2>1. \A j \in Invocation : g[j] \in InvocationRecord \cup {None}
    BY <1>4, <1>6
  <2>2. g = [j \in Invocation |-> g[j]]
    BY DEF Retires, retireTickets
  <2> QED
    BY ONLY <2>1, <2>2
<1>8. \A s \in Session, j \in Invocation : j \in tt[s].holds => j \in session[s].holds \cup H[s]
  BY <1>2 DEF RetiresTo
<1>9. SessionFacts(tt)
  <2>1. ASSUME NEW s \in Session, NEW t \in Session, NEW j \in Invocation,
               j \in tt[s].holds, j \in tt[t].holds
        PROVE  s = t
    <3>1. j \in session[s].holds \cup H[s] /\ j \in session[t].holds \cup H[t]
      BY <1>8, <2>1
    <3>2. Retiring(j, f[j], H, cn, tt)
      BY <1>1, <3>1
    <3>3. CASE j \in H[s]
      BY <3>1, <3>2, <3>3 DEF Retiring
    <3>4. CASE j \in H[t]
      BY <3>1, <3>2, <3>4 DEF Retiring
    <3>5. CASE j \in session[s].holds /\ j \in session[t].holds
      BY <1>1, <3>5 DEF SessionFacts
    <3> QED
      BY <3>1, <3>3, <3>4, <3>5
  <2>2. \A s \in Session : tt[s].st \in {"retiring", "disposed"} => tt[s].closed
    BY <1>2 DEF RetiresTo
  <2>3. \A s \in Session : tt[s].st = "disposed" => tt[s].holds = {}
    BY <1>2 DEF RetiresTo
  <2> QED
    BY <2>1, <2>2, <2>3 DEF SessionFacts
<1>10. \A s \in Session, j \in Invocation : j \in tt[s].holds => g[j] # None
  BY <1>1, <1>6, <1>8
<1>11. tt \in [Session -> SdkSession]
  BY <1>2 DEF RetiresTo
<1>12. RecordsKept(g, cn, tt)
  BY <1>4, <1>5, <1>7, <1>9, <1>10, <1>11 DEF RecordsKept
<1>13. Evolves(f, g, session, tt)
  BY <1>4, <1>5, <1>6 DEF Evolves, Finished
<1>14. /\ \A s \in Session : session[s].closed => tt[s].closed
       /\ \A s \in S : tt[s].closed
  BY <1>1, <1>2 DEF RetiresTo
<1> QED
  BY <1>5, <1>12, <1>13, <1>14

\* Steps of records in a row.
LEMMA EvolvesOn ==
    ASSUME NEW f, NEW g, NEW h, NEW ss, NEW tt, NEW uu,
           Evolves(f, g, ss, tt), Evolves(g, h, tt, uu)
    PROVE  Evolves(f, h, ss, uu)
BY DEF Evolves

\* The records that give no hold.
LEMMA OthersRetire ==
    ASSUME NEW H, NEW tt, NEW cn, NEW j \in Invocation, NEW x, Tied(j, x, cn, session),
           SessionFacts(session), \A s \in Session : j \notin H[s],
           \A s \in Session : session[s].closed => tt[s].closed
    PROVE  Retiring(j, x, H, cn, tt)
<1>1. /\ Sound(x) /\ SessionTie(x, session) /\ ConnTie(x, cn, session)
      /\ HoldTie(j, x, session) /\ x \in InvocationRecord
  BY DEF Tied, Sound
<1>2. x.lease = "released" => x.ticket \in {"none", "terminal"}
  BY ReleasedEnded
<1>3. ConnTie(x, cn, tt)
  <2>1. x.pc = "running" => x.session # None
    BY <1>1 DEF Sound, Core, TicketFacts, PcFacts
  <2>2. x.session # None => x.session \in Session
    BY <1>1 DEF InvocationRecord
  <2> QED
    BY <1>1, <2>1, <2>2 DEF ConnTie
<1> QED
  BY <1>1, <1>2, <1>3 DEF Retiring

\* The handler of i retires session s; H names no other request.
LEMMA HandlerRetires ==
    ASSUME InvokeInv, NEW i \in Invocation, Running(i), NEW s \in Session, NEW H, NEW y,
           \A t \in Session : H[t] \subseteq {i} /\ (H[t] # {} => t = s),
           Retiring(i, y, H, conn, session'), y.pc # "running",
           y.conn = inv[i].conn, y.req = inv[i].req,
           inv[i].session # None => y.session = inv[i].session,
           Doomed(inv[i], session) => Doomed(y, session),
           NEW f, Changed(f, i, y),
           session' = retired({s}, H), continue(i, retireTickets(f, {s}, H)),
           UNCHANGED <<conn, receipts>>
    PROVE  SafeStep
<1>1. /\ RecordsKept(inv, conn, session) /\ SessionFacts(session)
      /\ session \in [Session -> SdkSession]
      /\ inv \in [Invocation -> InvocationRecord \cup {None}]
  BY Tables
<1>2. /\ f \in [Invocation -> InvocationRecord \cup {None}] /\ f[i] = y
      /\ \A j \in Invocation \ {i} : f[j] = inv[j]
  BY DEF Changed
<1>3. inv[i] # None /\ y \in InvocationRecord /\ y # None
  BY NoneApart DEF Running, Retiring, Sound
<1>4. PICK g : g = retireTickets(f, {s}, H)
  OBVIOUS
<1>5. PICK tt : tt = session'
  OBVIOUS
<1>6. \A t \in Session : H[t] \subseteq Invocation /\ (H[t] # {} => t \in {s})
  OBVIOUS
<1>7. RetiresTo({s}, H, tt)
  <2>1. tt = retired({s}, H)
    BY <1>5
  <2> QED
    BY ONLY <1>1, <1>6, <2>1, RetiredSessions
<1>8. \A t \in Session : session[t].closed => tt[t].closed
  BY <1>7 DEF RetiresTo
<1>9. ASSUME NEW j \in Invocation, f[j] # None
      PROVE  Retiring(j, f[j], H, conn, tt)
  <2>1. CASE j = i
    BY <1>2, <1>5, <2>1
  <2>2. CASE j # i
    <3>1. f[j] = inv[j] /\ Tied(j, inv[j], conn, session)
      BY <1>1, <1>2, <1>9, <2>2 DEF RecordsKept
    <3>2. \A t \in Session : j \notin H[t]
      BY <2>2
    <3> QED
      BY <1>1, <1>8, <3>1, <3>2, OthersRetire
  <2> QED
    BY <2>1, <2>2
<1>10. \A t \in Session, j \in Invocation : j \in session[t].holds \cup H[t] => f[j] # None
  BY <1>1, <1>2, <1>3 DEF RecordsKept
<1>11. Retires({s}, H, conn, f, g, tt)
  BY <1>1, <1>2, <1>4, <1>5, <1>6, <1>9, <1>10 DEF Retires
<1>12. /\ RecordsKept(g, conn, tt) /\ Evolves(f, g, session, tt)
       /\ \A j \in Invocation : f[j] # None => g[j].pc = f[j].pc
  BY ONLY <1>11, RetireSessions
<1>13. Evolves(inv, f, session, session)
  <2> SUFFICES ASSUME NEW j \in Invocation
               PROVE  /\ f[j] = None <=> inv[j] = None
                      /\ inv[j] # None =>
                            /\ f[j].conn = inv[j].conn /\ f[j].req = inv[j].req
                            /\ inv[j].session # None => f[j].session = inv[j].session
                            /\ Doomed(inv[j], session) => Doomed(f[j], session)
                            /\ Finished(inv[j]) => Finished(f[j])
    BY DEF Evolves
  <2>1. CASE j = i
    BY <1>2, <1>3, <2>1 DEF Running, Finished
  <2>2. CASE j # i
    BY <1>2, <2>2
  <2> QED
    BY <2>1, <2>2
<1>14. Evolves(inv, g, session, tt)
  BY ONLY <1>12, <1>13, EvolvesOn
<1>15. /\ RecordsKept(g, conn, session') /\ Evolves(inv, g, session, session')
       /\ \A t \in Session : session[t].closed => session'[t].closed
       /\ conn' = conn /\ receipts' = receipts /\ continue(i, g)
  BY <1>4, <1>5, <1>8, <1>12, <1>14
<1>16. /\ \A j \in Invocation \ {i} : inv[j] # None => g[j].pc = inv[j].pc
       /\ g[i].pc = "running" => inv[i].pc = "running"
  BY <1>2, <1>3, <1>12
<1>17. InvokeInv /\ i \in Invocation /\ Running(i)
  OBVIOUS
<1> QED
  BY ONLY <1>15, <1>16, <1>17, Continued

\* The inventory rotated while the session was made.
LEMMA AdmissionRotatedStep ==
    ASSUME InvokeInv, NEW i \in Invocation, NEW s \in Session, admissionRotated(i, s)
    PROVE  SafeStep
<1>1. PICK x : x = inv[i]
  OBVIOUS
<1>2. PICK H : H = [t \in Session |-> IF t = s THEN {i} ELSE {}]
  OBVIOUS
<1>3. PICK y : y = IF x.revoked THEN returnRevoked(x) ELSE sendTerminal(x, TRUE)
  OBVIOUS
<1> DEFINE f == [inv EXCEPT ![i] = y]
<1>4. /\ Running(i) /\ inv[i] # None /\ x.pc = "admitting" /\ x.lease = "held"
      /\ session[s].st # "disposed" /\ session' = retired({s}, H)
      /\ continue(i, retireTickets(f, {s}, H)) /\ UNCHANGED <<conn, receipts>>
  BY <1>1, <1>2, <1>3 DEF admissionRotated, Running
<1>5. /\ x \in InvocationRecord /\ Core(x) /\ PcFacts(x) /\ SessionTie(x, session)
      /\ HoldTie(i, x, session)
  BY <1>1, <1>4, RunningTied
<1>6. /\ x.ticket = "none" /\ x.session = None /\ ~x.local /\ ~x.rec
      /\ (Silent(x) \/ (x.revoked /\ x.terminalSent))
  BY <1>4, <1>5 DEF PcFacts, Core, LeaseFacts
<1>7. Sound(y) /\ SameHandler(x, y) /\ y.pc \in {"sending", "done"}
  <2>1. CASE x.revoked
    BY <1>3, <1>5, <1>6, <2>1, RevokedReturned
  <2>2. CASE ~x.revoked
    BY <1>3, <1>5, <1>6, <2>2, TerminalSent
  <2> QED
    BY <2>1, <2>2
<1>8. \A t \in Session : i \notin session[t].holds
  BY <1>4, <1>5 DEF HoldTie
<1>9. Changed(f, i, y)
  BY <1>7, ExceptChanges DEF Sound
<1> HIDE DEF f
<1>10. \A t \in Session : H[t] \subseteq {i} /\ (H[t] # {} => t = s)
  BY <1>2
<1>11. /\ y.conn = inv[i].conn /\ y.req = inv[i].req /\ y.lease = "held" /\ ~y.rec
       /\ ~y.local /\ y.session = None /\ inv[i].session = None
  BY <1>1, <1>4, <1>6, <1>7 DEF SameHandler, Same
<1>12. Doomed(inv[i], session) => Doomed(y, session)
  BY <1>1, <1>4, <1>6, <1>7 DEF Doomed, SameHandler, Same
<1>13. Retiring(i, y, H, conn, session')
  <2>1. SessionTie(y, session) /\ ConnTie(y, conn, session')
    BY <1>7, <1>11 DEF SessionTie, ConnTie
  <2>2. i \in H[s]
    BY <1>2
  <2>3. \A t \in Session : i \in session[t].holds \cup H[t] => t = s
    BY <1>8, <1>10
  <2> QED
    BY <1>4, <1>7, <1>10, <1>11, <2>1, <2>2, <2>3 DEF Retiring
<1>14. y.pc # "running"
  BY <1>7
<1>15. InvokeInv /\ i \in Invocation /\ s \in Session /\ Running(i)
       /\ (inv[i].session # None => y.session = inv[i].session)
       /\ session' = retired({s}, H) /\ continue(i, retireTickets(f, {s}, H))
       /\ UNCHANGED <<conn, receipts>> /\ y.conn = inv[i].conn /\ y.req = inv[i].req
  BY <1>4, <1>11
<1> QED
  BY ONLY <1>9, <1>10, <1>12, <1>13, <1>14, <1>15, HandlerRetires

\* A record x of invocation i that reaches the catch block.
Catches(i, x) ==
    /\ x \in InvocationRecord /\ Core(x) /\ x.ticket \in {"none", "terminal"}
    /\ x.broken \/ Silent(x)
    /\ x.phase = "queued" => x.ticket = "terminal"
    /\ SessionTie(x, session) /\ HoldTie(i, x, session) /\ x.pc \in {"running", "sending"}
    /\ x.conn = inv[i].conn /\ x.req = inv[i].req /\ x.session = inv[i].session
    /\ Doomed(inv[i], session) => Doomed(x, session)

\* The record of a request whose session the catch block retires.
GivenUp(x) == [x EXCEPT !.local = FALSE, !.rec = FALSE, !.pc = "retiring"]

\* The lease goes to the session as its hold, if the handler has it.
LEMMA GivenUpRetires ==
    ASSUME NEW i \in Invocation, NEW x, Catches(i, x), x.session # None,
           NEW H, H = [t \in Session |-> IF t = x.session /\ x.local THEN {i} ELSE {}],
           NEW cn, NEW tt, NEW y, y = GivenUp(x),
           x.lease = "released" => x.ticket \in {"none", "terminal"}
    PROVE  /\ Retiring(i, y, H, cn, tt) /\ y.pc = "retiring"
           /\ y.conn = x.conn /\ y.req = x.req /\ y.session = x.session
           /\ Doomed(x, session) => Doomed(y, session)
<1>1. /\ x \in InvocationRecord /\ Core(x) /\ x.ticket \in {"none", "terminal"}
      /\ x.broken \/ Silent(x)
      /\ x.phase = "queued" => x.ticket = "terminal"
      /\ SessionTie(x, session) /\ HoldTie(i, x, session) /\ x.pc \in {"running", "sending"}
  BY DEF Catches
<1>2. x.session \in Session
  BY <1>1 DEF InvocationRecord
<1>3. y \in InvocationRecord
  <2>1. "retiring" \in Pc
    BY DEF Pc
  <2>2. [x EXCEPT !.local = FALSE, !.rec = FALSE, !.pc = "retiring"] \in InvocationRecord
    BY ONLY <1>1, <2>1, Retyped
  <2> QED
    BY <2>2 DEF GivenUp
<1>4. /\ Same(x, y) /\ y.lease = x.lease /\ y.local = FALSE /\ y.rec = FALSE
      /\ y.pc = "retiring" /\ y.phase = x.phase
      /\ y.revoked = x.revoked /\ y.revokedTicket = x.revokedTicket
      /\ y.removalVerified = x.removalVerified /\ y.terminalSent = x.terminalSent
      /\ y.frames = x.frames /\ y.outbox = x.outbox /\ y.broken = x.broken
      /\ y.said = x.said
  BY ONLY <1>1, y = GivenUp(x) DEF InvocationRecord, GivenUp, Same
<1>5. FrameFacts(y) /\ TicketFacts(y)
  BY <1>1, <1>4 DEF Core, FrameFacts, TicketFacts, Same
<1>6. RevocationFacts(y) /\ LeaseFacts(y)
  BY <1>1, <1>4 DEF Core, RevocationFacts, LeaseFacts, Same
<1>7. PcFacts(y)
  BY <1>1, <1>4 DEF PcFacts, Silent, Same
<1>8. SessionTie(y, session) /\ ConnTie(y, cn, tt)
  BY <1>1, <1>4 DEF SessionTie, ConnTie, Same
<1>9. Doomed(x, session) => Doomed(y, session)
  BY <1>1, <1>4 DEF Doomed, Same
<1>10. (\A t \in Session : i \notin H[t]) => HoldTie(i, y, session)
  <2> SUFFICES ASSUME \A t \in Session : i \notin H[t]
               PROVE  HoldTie(i, y, session)
    OBVIOUS
  <2>1. ~x.local /\ ~x.rec
    BY <1>1, <1>2 DEF Core, LeaseFacts
  <2> QED
    BY <1>1, <1>4, <2>1 DEF HoldTie, Same
<1>11. ASSUME NEW t \in Session, i \in H[t]
       PROVE  /\ y.lease # "none" /\ y.session = t
              /\ session[t].st # "disposed" => y.lease = "held"
              /\ \A u \in Session : i \in session[u].holds \cup H[u] => u = t
  <2>1. t = x.session /\ x.local
    BY <1>11
  <2>2. x.lease \in {"none", "held", "released"} /\ x.lease # "none"
    BY <1>1, <2>1 DEF InvocationRecord, Core, LeaseFacts
  <2>3. x.lease = "released" => session[t].st = "disposed"
    BY <1>1, <2>1 DEF HoldTie
  <2>4. \A u \in Session : i \in session[u].holds => u = t
    BY <1>1, <2>1 DEF HoldTie
  <2>5. \A u \in Session : i \in H[u] => u = t
    BY <2>1
  <2> QED
    BY <1>4, <2>1, <2>2, <2>3, <2>4, <2>5 DEF Same
<1>12. Sound(y) /\ (y.lease = "released" => y.ticket \in {"none", "terminal"})
  BY <1>1, <1>3, <1>4, <1>5, <1>6, <1>7 DEF Sound, Core, Same
<1>13. Retiring(i, y, H, cn, tt)
  BY <1>4, <1>8, <1>10, <1>11, <1>12 DEF Retiring
<1> QED
  BY <1>4, <1>9, <1>13 DEF Same

\* The catch block.
LEMMA CaughtStep ==
    ASSUME InvokeInv, NEW i \in Invocation, Running(i), NEW x, Catches(i, x),
           NEW untrusted \in BOOLEAN, caught(i, x, untrusted), UNCHANGED <<conn, receipts>>
    PROVE  SafeStep
<1>1. /\ x \in InvocationRecord /\ Core(x) /\ x.ticket \in {"none", "terminal"}
      /\ x.broken \/ Silent(x)
      /\ SessionTie(x, session) /\ HoldTie(i, x, session) /\ x.pc \in {"running", "sending"}
      /\ x.conn = inv[i].conn /\ x.req = inv[i].req /\ x.session = inv[i].session
      /\ Doomed(inv[i], session) => Doomed(x, session)
  BY DEF Catches
<1>2. inv[i] # None
  BY DEF Running
<1>3. CASE x.session # None /\ (session[x.session].closed \/ untrusted)
  <2>1. PICK s \in Session : s = x.session
    BY <1>1, <1>3 DEF InvocationRecord
  <2>2. PICK H : H = [t \in Session |-> IF t = x.session /\ x.local THEN {i} ELSE {}]
    OBVIOUS
  <2>3. PICK y : y = GivenUp(x)
    OBVIOUS
  <2> DEFINE f == [inv EXCEPT ![i] = y]
  <2>4. session' = retired({s}, H) /\ continue(i, retireTickets(f, {s}, H))
    BY <1>3, <2>1, <2>2, <2>3 DEF caught, GivenUp
  <2>5. /\ Retiring(i, y, H, conn, session') /\ y.pc = "retiring"
        /\ y.conn = x.conn /\ y.req = x.req /\ y.session = x.session
        /\ Doomed(x, session) => Doomed(y, session)
    BY <1>1, <1>3, <2>2, <2>3, GivenUpRetires
  <2>6. Changed(f, i, y)
    BY <2>5, ExceptChanges DEF Retiring, Sound
  <2> HIDE DEF f
  <2>7. \A t \in Session : H[t] \subseteq {i} /\ (H[t] # {} => t = s)
    BY <2>1, <2>2
  <2>8. /\ InvokeInv /\ i \in Invocation /\ Running(i) /\ s \in Session /\ y.pc # "running"
        /\ y.conn = inv[i].conn /\ y.req = inv[i].req
        /\ (inv[i].session # None => y.session = inv[i].session)
        /\ (Doomed(inv[i], session) => Doomed(y, session)) /\ UNCHANGED <<conn, receipts>>
    BY <1>1, <2>5
  <2> QED
    BY ONLY <2>4, <2>5, <2>6, <2>7, <2>8, HandlerRetires
<1>4. CASE ~(x.session # None /\ (session[x.session].closed \/ untrusted))
  <2>1. PICK y : y = catchTail(x)
    OBVIOUS
  <2> DEFINE f == [inv EXCEPT ![i] = y]
  <2>2. continue(i, f) /\ UNCHANGED session
    BY <1>4, <2>1 DEF caught
  <2>3. x.local /\ x.result = "error" => x.exec = "over"
    <3>1. x.session = None => x.result # "error"
      BY <1>1 DEF Core, TicketFacts
    <3> QED
      BY <1>1, <1>4, <3>1 DEF SessionTie
  <2>4. Sound(y) /\ SameHandler(x, y) /\ y.pc \in {"sending", "done"}
    BY <1>1, <2>1, <2>3, Caught
  <2>5. Successor(i, y)
    BY <1>1, <1>2, <2>4, EndSuccessor DEF Running
  <2>6. Changed(f, i, y)
    BY <2>4, ExceptChanges DEF Sound
  <2> HIDE DEF f
  <2>7. UNCHANGED <<conn, receipts, session>>
    BY <2>2
  <2> QED
    BY <2>2, <2>4, <2>5, <2>6, <2>7, HandlerStep
<1> QED
  BY <1>3, <1>4

\* The send of the terminal frame is settled.
LEMMA SendSettledEnds ==
    ASSUME InvokeInv, NEW i \in Invocation, sendSettled(i)
    PROVE  SafeStep
<1>1. PICK x : x = inv[i]
  OBVIOUS
<1>2. Running(i) /\ x.pc = "sending" /\ UNCHANGED <<conn, receipts>> /\ inv[i] # None
  BY <1>1 DEF sendSettled, Running
<1>3. /\ x \in InvocationRecord /\ Core(x) /\ PcFacts(x) /\ SessionTie(x, session)
      /\ HoldTie(i, x, session)
  BY <1>1, <1>2, RunningTied
<1>4. CASE x.broken /\ x.inTry
  <2>1. caught(i, x, FALSE)
    BY <1>1, <1>4 DEF sendSettled
  <2>2. Catches(i, x)
    BY <1>1, <1>2, <1>3, <1>4 DEF Catches, PcFacts
  <2> QED
    BY <1>2, <2>1, <2>2, CaughtStep
<1>5. CASE ~(x.broken /\ x.inTry)
  <2> DEFINE f == [inv EXCEPT ![i] = [inv[i] EXCEPT !.pc = "done"]]
  <2>1. continue(i, f) /\ UNCHANGED session
    BY <1>1, <1>5 DEF sendSettled
  <2>2. PICK g : g = f
    OBVIOUS
  <2>3. g = [inv EXCEPT ![i] = [inv[i] EXCEPT !.pc = "done"]]
    BY <2>2
  <2>4. continue(i, g)
    BY <2>1, <2>2
  <2> HIDE DEF f
  <2>5. UNCHANGED <<conn, receipts, session>> /\ Running(i) /\ inv[i].pc = "sending"
    BY <1>1, <1>2, <2>1
  <2> QED
    BY <2>3, <2>4, <2>5, SendSettledStep
<1> QED
  BY <1>4, <1>5

\* The result of the removal is noted in the record.
Verified(x) ==
    [x EXCEPT !.removalVerified = @ \/ (x.revokedTicket /\ x.result = "revoked")]

\* The record of a request whose ticket is settled.
LEMMA VerifiedFacts ==
    ASSUME InvokeInv, NEW i \in Invocation, inv[i] # None, inv[i].pc = "running",
           inv[i].ticket = "terminal", NEW x, x = Verified(inv[i])
    PROVE  /\ Catches(i, x) /\ Silent(x) /\ x.phase # "terminal" /\ x.ticket = "terminal"
           /\ x.pc = "running" /\ (x.local \/ x.lease = "none")
           /\ x.revokedTicket = inv[i].revokedTicket /\ x.result = inv[i].result
           /\ x.kind = inv[i].kind /\ x.session # None
           /\ ConnTie(x, conn, session)
<1>1. PICK w : w = inv[i]
  OBVIOUS
<1>2. /\ w \in InvocationRecord /\ Core(w) /\ PcFacts(w) /\ SessionTie(w, session)
      /\ HoldTie(i, w, session) /\ ConnTie(w, conn, session) /\ w.pc = "running"
      /\ w.ticket = "terminal"
  BY <1>1, RunningTied DEF Tied
<1>3. PICK v \in BOOLEAN : v = (w.removalVerified \/ (w.revokedTicket /\ w.result = "revoked"))
  OBVIOUS
<1>4. x = [w EXCEPT !.removalVerified = v]
  BY <1>1, <1>3 DEF Verified
<1>5. x \in InvocationRecord
  <2>1. [w EXCEPT !.removalVerified = v] \in InvocationRecord
    BY ONLY <1>2, v \in BOOLEAN, Retyped
  <2> QED
    BY <1>4, <2>1
<1>6. /\ Same(w, x) /\ x.lease = w.lease /\ x.local = w.local /\ x.rec = w.rec
      /\ x.pc = w.pc /\ x.phase = w.phase
      /\ x.revoked = w.revoked /\ x.revokedTicket = w.revokedTicket
      /\ x.removalVerified = v /\ x.terminalSent = w.terminalSent
      /\ x.frames = w.frames /\ x.outbox = w.outbox /\ x.broken = w.broken
      /\ x.said = w.said
  BY ONLY <1>2, <1>4 DEF InvocationRecord, Same
<1>7. v => w.result = "revoked"
  BY <1>2, <1>3 DEF Core, RevocationFacts
<1>8. FrameFacts(x) /\ TicketFacts(x)
  BY <1>2, <1>6 DEF Core, FrameFacts, TicketFacts, Same
<1>9. RevocationFacts(x) /\ LeaseFacts(x)
  BY <1>2, <1>6, <1>7 DEF Core, RevocationFacts, LeaseFacts, Same
<1>10. Silent(x) /\ x.phase # "terminal" /\ (x.local \/ x.lease = "none")
  BY <1>2, <1>6 DEF PcFacts, Silent
<1>11. SessionTie(x, session) /\ ConnTie(x, conn, session)
  BY <1>2, <1>6 DEF SessionTie, ConnTie, Same
<1>12. HoldTie(i, x, session)
  BY <1>2, <1>6 DEF HoldTie, Same
<1>13. Doomed(w, session) => Doomed(x, session)
  BY <1>6 DEF Doomed, Same
<1>14. x.session # None
  BY <1>2, <1>6 DEF Core, TicketFacts, Same
<1>15. Catches(i, x)
  BY <1>1, <1>2, <1>5, <1>6, <1>8, <1>9, <1>10, <1>11, <1>12, <1>13 DEF Catches, Core, Same
<1> QED
  BY <1>1, <1>2, <1>6, <1>10, <1>11, <1>14, <1>15 DEF Same

\* The second command of set_model gets its ticket.
LEMMA SecondCommand ==
    ASSUME InvokeInv, NEW i \in Invocation, Running(i), inv[i].pc = "running",
           inv[i].ticket = "terminal", inv[i].result = "value", inv[i].kind = "set_model",
           ~inv[i].revokedTicket, NEW x, x = Verified(inv[i]),
           NEW y, y = [newTicket(x, inv[i].session) EXCEPT !.stage = 2]
    PROVE  Successor(i, y) /\ y \in InvocationRecord /\ y.pc = "running"
<1>1. inv[i] # None
  BY DEF Running
<1>2. /\ Catches(i, x) /\ Silent(x) /\ x.phase # "terminal" /\ x.ticket = "terminal"
      /\ x.pc = "running" /\ (x.local \/ x.lease = "none")
      /\ ~x.revokedTicket /\ x.result = "value" /\ x.kind = "set_model" /\ x.session # None
      /\ ConnTie(x, conn, session)
  BY <1>1, VerifiedFacts
<1>3. /\ x \in InvocationRecord /\ Core(x) /\ SessionTie(x, session)
      /\ HoldTie(i, x, session) /\ x.session = inv[i].session
      /\ x.conn = inv[i].conn /\ x.req = inv[i].req
      /\ Doomed(inv[i], session) => Doomed(x, session)
  BY <1>2 DEF Catches
<1>4. PICK s \in Session : s = x.session
  BY <1>2, <1>3 DEF InvocationRecord
<1>5. /\ ~x.revoked /\ ~x.removalVerified /\ x.track = "plain" /\ x.exec = "over"
      /\ ~x.cancelled
  BY <1>2, <1>3 DEF Core, RevocationFacts, TicketFacts
<1>6. x.lease = "released" => session[s].st = "disposed"
  BY <1>2, <1>3, <1>4 DEF HoldTie
<1>7. PICK u : u = newTicket(x, s)
  OBVIOUS
<1>8. PICK ss : ss = session
  OBVIOUS
<1>9. /\ u \in InvocationRecord /\ Core(u) /\ SessionTie(u, ss)
      /\ u.conn = x.conn /\ u.req = x.req /\ u.kind = x.kind /\ u.session = x.session
      /\ u.ticket \in {"queued", "terminal"} /\ Silent(u) /\ u.phase = x.phase
      /\ u.lease = x.lease /\ u.local = x.local /\ u.rec = x.rec
      /\ u.revoked = x.revoked /\ u.revokedTicket = x.revokedTicket /\ u.pc = x.pc
      /\ u.ops = x.ops /\ u.inTry = x.inTry
  <2>1. /\ x.ticket \in {"none", "terminal"} /\ x.session = s
        /\ (x.lease = "released" => ss[s].st = "disposed") /\ SessionTie(x, ss)
    BY <1>2, <1>3, <1>4, <1>6, <1>8
  <2> QED
    BY <1>2, <1>3, <1>5, <1>7, <1>8, <2>1, NewTicket
<1>10. y = [u EXCEPT !.stage = 2]
  BY <1>3, <1>4, <1>7
<1>11. y \in InvocationRecord
  <2>1. [u EXCEPT !.stage = 2] \in InvocationRecord
    BY ONLY <1>9, 2 \in {1, 2}, Retyped
  <2> QED
    BY <1>10, <2>1
<1>12. /\ SameHandler(u, y) /\ y.pc = u.pc /\ y.phase = u.phase
       /\ y.frames = u.frames /\ y.outbox = u.outbox /\ y.broken = u.broken
       /\ y.said = u.said /\ y.terminalSent = u.terminalSent
  BY ONLY <1>9, <1>10 DEF InvocationRecord, SameHandler, Same
<1>13. Silent(y) /\ y.ticket \in {"queued", "terminal"} /\ y.phase # "terminal"
       /\ (y.local \/ y.lease = "none") /\ y.pc = "running"
  BY <1>2, <1>9, <1>12 DEF Silent, SameHandler, Same
<1>14. FrameFacts(y)
  BY <1>9, <1>12 DEF Core, FrameFacts, SameHandler, Same
<1>15. Sound(y)
  <2>1. PcFacts(y)
    BY <1>13 DEF PcFacts
  <2> QED
    BY <1>9, <1>11, <1>12, <1>14, <2>1, SendKeepsFacts DEF Sound, Core
<1>16. SessionTie(y, session)
  BY <1>8, <1>9, <1>12 DEF SessionTie, SameHandler, Same
<1>17. ConnTie(y, conn, session) /\ HoldTie(i, y, session)
  BY <1>2, <1>3, <1>9, <1>12 DEF ConnTie, HoldTie, SameHandler, Same
<1>18. Doomed(inv[i], session) => Doomed(y, session)
  BY <1>3, <1>5, <1>9, <1>12 DEF Doomed, SameHandler, Same
<1>19. /\ y.conn = inv[i].conn /\ y.req = inv[i].req /\ y.session = inv[i].session
  BY <1>3, <1>9, <1>12 DEF SameHandler, Same
<1> QED
  BY <1>11, <1>13, <1>15, <1>16, <1>17, <1>18, <1>19 DEF Successor, Tied, Finished

\* ticket.result is settled.
LEMMA TicketSettledStep ==
    ASSUME InvokeInv, NEW i \in Invocation, ticketSettled(i)
    PROVE  SafeStep
<1>1. PICK w : w = inv[i]
  OBVIOUS
<1>2. PICK untrusted \in BOOLEAN : untrusted = (w.revokedTicket /\ w.result = "value")
  OBVIOUS
<1>3. PICK x : x = Verified(w)
  OBVIOUS
<1>4. /\ Running(i) /\ inv[i] # None /\ w.pc = "running" /\ w.ticket = "terminal"
      /\ UNCHANGED <<conn, receipts>>
  BY <1>1 DEF ticketSettled, Running
<1>5. /\ Catches(i, x) /\ Silent(x) /\ x.phase # "terminal" /\ x.ticket = "terminal"
      /\ x.pc = "running" /\ x.result = w.result
  BY <1>1, <1>3, <1>4, VerifiedFacts
<1>6. /\ x \in InvocationRecord /\ Core(x) /\ SessionTie(x, session)
      /\ HoldTie(i, x, session) /\ x.session = inv[i].session
      /\ x.conn = inv[i].conn /\ x.req = inv[i].req
      /\ Doomed(inv[i], session) => Doomed(x, session)
  BY <1>5 DEF Catches
<1>7. CASE firstOfTwo(w) /\ ~untrusted
  <2>1. PICK y : y = [newTicket(x, inv[i].session) EXCEPT !.stage = 2]
    OBVIOUS
  <2> DEFINE f == [inv EXCEPT ![i] = y]
  <2>2. continue(i, f) /\ UNCHANGED session
    BY <1>1, <1>2, <1>3, <1>7, <2>1 DEF ticketSettled, Verified, firstOfTwo
  <2>3. w.result = "value" /\ w.kind = "set_model" /\ ~w.revokedTicket
    BY <1>2, <1>7 DEF firstOfTwo
  <2>4. Successor(i, y) /\ y \in InvocationRecord /\ y.pc = "running"
    BY <1>1, <1>3, <1>4, <2>1, <2>3, SecondCommand
  <2>5. Changed(f, i, y)
    BY <2>4, ExceptChanges
  <2> HIDE DEF f
  <2>6. UNCHANGED <<conn, receipts, session>> /\ Running(i) /\ inv[i].pc = "running"
    BY <1>1, <1>4, <2>2
  <2> QED
    BY <2>2, <2>4, <2>5, <2>6, HandlerStep
<1>8. CASE w.kind # "set_model" /\ w.result = "revoked"
  <2>1. PICK y : y = returnRevoked(x)
    OBVIOUS
  <2> DEFINE f == [inv EXCEPT ![i] = y]
  <2>2. continue(i, f) /\ UNCHANGED session
    BY <1>1, <1>2, <1>3, <1>8, <2>1 DEF ticketSettled, Verified, firstOfTwo
  <2>3. Sound(y) /\ SameHandler(x, y) /\ y.pc \in {"sending", "done"}
    BY <1>5, <1>6, <1>8, <2>1, RevokedReturned
  <2>4. Successor(i, y)
    BY <1>4, <1>5, <1>6, <2>3, EndSuccessor DEF Running
  <2>5. Changed(f, i, y)
    BY <2>3, ExceptChanges DEF Sound
  <2> HIDE DEF f
  <2>6. UNCHANGED <<conn, receipts, session>> /\ Running(i)
    BY <1>4, <2>2
  <2> QED
    BY <2>2, <2>3, <2>4, <2>5, <2>6, HandlerStep
<1>9. CASE ~firstOfTwo(w) /\ ~untrusted /\ w.result = "value"
  <2>1. PICK y : y = sendTerminal(x, TRUE)
    OBVIOUS
  <2> DEFINE f == [inv EXCEPT ![i] = y]
  <2>2. continue(i, f) /\ UNCHANGED session
    BY <1>1, <1>2, <1>3, <1>9, <2>1 DEF ticketSettled, Verified
  <2>3. Sound(y) /\ SameHandler(x, y) /\ y.pc = "sending"
    BY <1>5, <1>6, <1>9, <2>1, TerminalSent
  <2>4. Successor(i, y)
    BY <1>4, <1>5, <1>6, <2>3, EndSuccessor DEF Running
  <2>5. Changed(f, i, y)
    BY <2>3, ExceptChanges DEF Sound
  <2> HIDE DEF f
  <2>6. UNCHANGED <<conn, receipts, session>> /\ Running(i)
    BY <1>4, <2>2
  <2> QED
    BY <2>2, <2>3, <2>4, <2>5, <2>6, HandlerStep
<1>10. CASE /\ ~(firstOfTwo(w) /\ ~untrusted)
            /\ ~(w.kind # "set_model" /\ w.result = "revoked")
            /\ ~(~firstOfTwo(w) /\ ~untrusted /\ w.result = "value")
  <2>1. caught(i, x, untrusted)
    BY <1>1, <1>2, <1>3, <1>10 DEF ticketSettled, Verified
  <2> QED
    BY <1>4, <1>5, <2>1, CaughtStep
<1> QED
  BY <1>7, <1>8, <1>9, <1>10

-----------------------------------------------------------------------------
(* Cancellation.                                                           *)

\* A record that can be revoked before it starts.
Revocable(x) == x.phase = "queued" /\ x.ticket # "active" /\ revocable(x) /\ x.pc # "done"

\* What a revocation makes of a record: it will not start.
Revoked(i, x, y) ==
    /\ Sound(y) /\ y.conn = x.conn /\ y.req = x.req /\ y.session = x.session
    /\ y.pc = x.pc /\ y.lease = x.lease /\ y.local = x.local /\ y.rec = x.rec
    /\ \A ss : SessionTie(x, ss) => SessionTie(y, ss)
    /\ \A ss : HoldTie(i, x, ss) => HoldTie(i, y, ss)
    /\ \A cn, ss : ConnTie(y, cn, ss)
    /\ \A ss : Doomed(y, ss)
    /\ x.ticket \in {"none", "terminal"} => y.ticket \in {"none", "terminal"}

\* revokeCancellationBeforeStart.
LEMMA RevokedBeforeStart ==
    ASSUME NEW i \in Invocation, NEW x, Sound(x), Revocable(x),
           NEW y, y = revokeCancellationBeforeStart(x)
    PROVE  /\ Revoked(i, x, y) /\ y.phase = x.phase
           /\ ~y.revokedTicket => y.ticket = "none" /\ y.pc = "admitting" /\ Silent(y)
           /\ y.revokedTicket \in BOOLEAN /\ y.revoked
<1>1. x \in InvocationRecord /\ Core(x) /\ PcFacts(x)
  BY DEF Sound
<1>2. /\ x.phase = "queued" /\ x.ticket \in {"none", "queued"} /\ x.pc # "done"
      /\ x.pc \in Pc
  BY <1>1 DEF Revocable, revocable, InvocationRecord
<1>3. CASE x.ticket = "none"
  <2>1. y = [x EXCEPT !.revoked = TRUE]
    BY <1>3 DEF revokeCancellationBeforeStart
  <2>2. y \in InvocationRecord
    <3>1. [x EXCEPT !.revoked = TRUE] \in InvocationRecord
      BY ONLY <1>1, Retyped
    <3> QED
      BY <2>1, <3>1
  <2>3. /\ Same(x, y) /\ y.pc = x.pc
        /\ y.phase = x.phase /\ y.revoked = TRUE /\ y.revokedTicket = x.revokedTicket
        /\ y.lease = x.lease /\ y.local = x.local /\ y.rec = x.rec
        /\ y.removalVerified = x.removalVerified /\ y.terminalSent = x.terminalSent
        /\ y.frames = x.frames /\ y.outbox = x.outbox /\ y.broken = x.broken
        /\ y.said = x.said
    BY ONLY <1>1, <2>1 DEF InvocationRecord, Same
  <2>4. x.pc = "admitting"
    BY <1>1, <1>2, <1>3 DEF PcFacts, Pc
  <2>5. x.exec = "no" /\ ~x.revokedTicket /\ Silent(x) /\ x.session = None
    BY <1>1, <1>2, <1>3, <2>4 DEF PcFacts, Core, TicketFacts, RevocationFacts, FrameFacts
  <2>6. FrameFacts(y) /\ TicketFacts(y) /\ LeaseFacts(y)
    BY <1>1, <2>3 DEF Core, FrameFacts, TicketFacts, LeaseFacts, Same
  <2>7. RevocationFacts(y)
    BY <1>1, <1>3, <2>3, <2>5 DEF Core, RevocationFacts, Same
  <2>8. Silent(y)
    BY <2>3, <2>5 DEF Silent
  <2>9. PcFacts(y)
    BY <1>1, <1>2, <2>3, <2>4, <2>8 DEF PcFacts, Same
  <2>10. \A ss : SessionTie(x, ss) => SessionTie(y, ss)
    BY <2>3, <2>5 DEF SessionTie, Same
  <2>11. \A ss : HoldTie(i, x, ss) => HoldTie(i, y, ss)
    BY <2>3 DEF HoldTie, Same
  <2>12. \A cn, ss : ConnTie(y, cn, ss)
    BY <2>3, <2>4 DEF ConnTie
  <2>13. \A ss : Doomed(y, ss)
    BY <1>3, <2>3, <2>5 DEF Doomed, Same
  <2>14. Sound(y)
    BY <2>2, <2>6, <2>7, <2>9 DEF Sound, Core
  <2>15. Revoked(i, x, y)
    BY <1>3, <2>3, <2>10, <2>11, <2>12, <2>13, <2>14 DEF Revoked, Same
  <2>16. y.revokedTicket \in BOOLEAN /\ y.ticket = "none"
    BY <1>3, <2>2, <2>3 DEF InvocationRecord, Same
  <2> QED
    BY ONLY <2>3, <2>4, <2>8, <2>15, <2>16
<1>4. CASE x.ticket = "queued" /\ x.track = "plain"
  <2>1. y = [x EXCEPT !.revoked = TRUE, !.revokedTicket = TRUE,
                      !.ticket = "terminal", !.result = "revoked"]
    BY <1>4 DEF revokeCancellationBeforeStart
  <2>2. y \in InvocationRecord
    <3>1. [x EXCEPT !.revoked = TRUE, !.revokedTicket = TRUE,
                    !.ticket = "terminal", !.result = "revoked"] \in InvocationRecord
      BY ONLY <1>1, Retyped
    <3> QED
      BY <2>1, <3>1
  <2>3. /\ y.conn = x.conn /\ y.req = x.req /\ y.kind = x.kind /\ y.session = x.session
        /\ y.pc = x.pc /\ y.lease = x.lease /\ y.local = x.local /\ y.rec = x.rec
        /\ y.revoked = TRUE /\ y.revokedTicket = TRUE
        /\ y.removalVerified = x.removalVerified /\ y.terminalSent = x.terminalSent
        /\ y.frames = x.frames /\ y.outbox = x.outbox /\ y.broken = x.broken
        /\ y.said = x.said /\ y.track = x.track /\ y.cancelled = x.cancelled
        /\ y.exec = x.exec /\ y.phase = x.phase /\ y.ticket = "terminal"
        /\ y.result = "revoked"
    BY ONLY <1>1, <2>1 DEF InvocationRecord
  <2>4. x.pc = "running" /\ Silent(x) /\ x.exec = "no" /\ x.session # None /\ ~x.cancelled
    BY <1>1, <1>2, <1>4 DEF PcFacts, Core, TicketFacts, RevocationFacts
  <2>5. FrameFacts(y) /\ TicketFacts(y) /\ LeaseFacts(y)
    BY <1>1, <2>3, <2>4 DEF Core, FrameFacts, TicketFacts, LeaseFacts
  <2>6. RevocationFacts(y)
    BY <1>1, <2>3, <2>4 DEF Core, RevocationFacts
  <2>7. PcFacts(y)
    BY <1>1, <2>3, <2>4 DEF PcFacts, Silent
  <2>8. \A ss : SessionTie(x, ss) => SessionTie(y, ss)
    BY <2>3 DEF SessionTie
  <2>9. \A ss : HoldTie(i, x, ss) => HoldTie(i, y, ss)
    BY <2>3 DEF HoldTie
  <2>10. \A cn, ss : ConnTie(y, cn, ss)
    BY <2>3, <2>4 DEF ConnTie
  <2>11. \A ss : Doomed(y, ss)
    BY <2>3, <2>4 DEF Doomed
  <2>12. Sound(y)
    BY <2>2, <2>5, <2>6, <2>7 DEF Sound, Core
  <2> QED
    BY <2>3, <2>8, <2>9, <2>10, <2>11, <2>12 DEF Revoked
<1>5. CASE x.ticket = "queued" /\ x.track # "plain"
  <2>1. x.track = "sdk" /\ ~x.cancelled /\ x.exec = "no"
    BY <1>5 DEF Revocable, revocable
  <2>2. y = [x EXCEPT !.revoked = TRUE, !.revokedTicket = TRUE, !.cancelled = TRUE]
    BY <1>5 DEF revokeCancellationBeforeStart
  <2>3. y \in InvocationRecord
    <3>1. [x EXCEPT !.revoked = TRUE, !.revokedTicket = TRUE, !.cancelled = TRUE]
            \in InvocationRecord
      BY ONLY <1>1, Retyped
    <3> QED
      BY <2>2, <3>1
  <2>4. /\ y.conn = x.conn /\ y.req = x.req /\ y.kind = x.kind /\ y.session = x.session
        /\ y.pc = x.pc /\ y.lease = x.lease /\ y.local = x.local /\ y.rec = x.rec
        /\ y.revoked = TRUE /\ y.revokedTicket = TRUE
        /\ y.removalVerified = x.removalVerified /\ y.terminalSent = x.terminalSent
        /\ y.frames = x.frames /\ y.outbox = x.outbox /\ y.broken = x.broken
        /\ y.said = x.said /\ y.track = x.track /\ y.cancelled = TRUE
        /\ y.exec = x.exec /\ y.phase = x.phase /\ y.ticket = x.ticket
        /\ y.result = x.result
    BY ONLY <1>1, <2>2 DEF InvocationRecord
  <2>5. x.pc = "running" /\ Silent(x) /\ x.session # None
    BY <1>1, <1>5 DEF PcFacts, Core, TicketFacts
  <2>6. FrameFacts(y) /\ TicketFacts(y) /\ LeaseFacts(y)
    BY <1>1, <2>4 DEF Core, FrameFacts, TicketFacts, LeaseFacts
  <2>7. RevocationFacts(y)
    BY <1>1, <1>5, <2>1, <2>4 DEF Core, RevocationFacts
  <2>8. PcFacts(y)
    BY <1>1, <2>4, <2>5 DEF PcFacts, Silent
  <2>9. \A ss : SessionTie(x, ss) => SessionTie(y, ss)
    BY <2>4 DEF SessionTie
  <2>10. \A ss : HoldTie(i, x, ss) => HoldTie(i, y, ss)
    BY <2>4 DEF HoldTie
  <2>11. \A cn, ss : ConnTie(y, cn, ss)
    BY <2>4, <2>5 DEF ConnTie
  <2>12. \A ss : Doomed(y, ss)
    BY <2>1, <2>4 DEF Doomed
  <2>13. Sound(y)
    BY <2>3, <2>6, <2>7, <2>8 DEF Sound, Core
  <2> QED
    BY <1>5, <2>4, <2>9, <2>10, <2>11, <2>12, <2>13 DEF Revoked
<1> QED
  BY <1>2, <1>3, <1>4, <1>5

\* The revoked terminal frame that the cancel handler sends for a request that is
\* still being admitted.
LEMMA RevokedAndTold ==
    ASSUME NEW i \in Invocation, NEW x, NEW u, Revoked(i, x, u), u.ticket = "none",
           u.pc = "admitting", Silent(u), u.revoked, ~u.revokedTicket,
           NEW y, y = sendRevokedCancellationTerminal(u)
    PROVE  Revoked(i, x, y)
<1>1. u \in InvocationRecord /\ Core(u) /\ PcFacts(u)
  BY DEF Revoked, Sound
<1>2. PICK a : a = [u EXCEPT !.phase = "terminal", !.terminalSent = TRUE]
  OBVIOUS
<1>3. y = enqueue(a, "cancelled")
  BY <1>2 DEF sendRevokedCancellationTerminal, Silent
<1>4. a \in InvocationRecord
  <2>1. [u EXCEPT !.phase = "terminal", !.terminalSent = TRUE] \in InvocationRecord
    BY ONLY <1>1, Retyped
  <2> QED
    BY <1>2, <2>1
<1>5. /\ SameHandler(u, a) /\ a.phase = "terminal" /\ a.terminalSent = TRUE
      /\ a.frames = u.frames /\ a.outbox = u.outbox /\ a.broken = u.broken
      /\ a.said = u.said /\ a.pc = u.pc
  BY ONLY <1>1, <1>2 DEF InvocationRecord, SameHandler, Same
<1>6. FrameFacts(a) /\ (a.broken \/ (a.frames = 0 /\ a.outbox = 0))
  BY <1>1, <1>5 DEF Core, FrameFacts, Silent, SameHandler, Same
<1>7. /\ y \in InvocationRecord /\ SameHandler(a, y) /\ y.pc = a.pc
      /\ y.phase = a.phase /\ y.terminalSent = a.terminalSent
      /\ y.frames + y.outbox <= 1 /\ (y.broken => y.outbox = 0)
      /\ y.said \in {"cancelled", a.said}
  BY <1>3, <1>4, <1>6, Enqueued
<1>8. SameHandler(u, y)
  BY <1>5, <1>7 DEF SameHandler, Same
<1>9. FrameFacts(y)
  BY <1>5, <1>7, <1>8 DEF FrameFacts, SameHandler, Same
<1>10. TicketFacts(y) /\ RevocationFacts(y) /\ LeaseFacts(y)
  BY <1>1, <1>5, <1>7, <1>8, SendKeepsFacts
<1>11. PcFacts(y)
  BY <1>1, <1>5, <1>7, <1>8 DEF PcFacts, SameHandler, Same
<1>12. Sound(y)
  BY <1>7, <1>9, <1>10, <1>11 DEF Sound, Core
<1>13. \A ss : SessionTie(x, ss) => SessionTie(y, ss)
  BY <1>8 DEF SessionTie, SameHandler, Same, Revoked
<1>14. \A ss : HoldTie(i, x, ss) => HoldTie(i, y, ss)
  BY <1>5, <1>7, <1>8 DEF HoldTie, SameHandler, Same, Revoked
<1>15. \A cn, ss : ConnTie(y, cn, ss)
  BY <1>5, <1>7, <1>8 DEF ConnTie, SameHandler, Same
<1>16. \A ss : Doomed(y, ss)
  BY <1>1, <1>8 DEF Doomed, SameHandler, Same, Core, TicketFacts
<1> QED
  BY <1>5, <1>7, <1>8, <1>12, <1>13, <1>14, <1>15, <1>16 DEF Revoked, SameHandler, Same

\* No websocket closes: the records do not notice.
LEMMA ConnKept ==
    ASSUME NEW f, NEW cn, NEW dn, NEW ss, RecordsKept(f, cn, ss),
           \A c \in Conn : dn[c] = "closed" => cn[c] = "closed"
    PROVE  RecordsKept(f, dn, ss)
<1>1. ASSUME NEW j \in Invocation, f[j] # None
      PROVE  Tied(j, f[j], dn, ss)
  <2>1. Tied(j, f[j], cn, ss) /\ f[j] \in InvocationRecord
    BY <1>1 DEF RecordsKept, Tied, Sound
  <2>2. f[j].conn \in Conn
    BY <2>1 DEF InvocationRecord
  <2>3. ConnTie(f[j], dn, ss)
    BY <2>1, <2>2 DEF Tied, ConnTie
  <2> QED
    BY <2>1, <2>3 DEF Tied
<1> QED
  BY <1>1 DEF RecordsKept

\* Records evolve by doing nothing.
LEMMA EvolvesNot ==
    ASSUME NEW f, NEW ss
    PROVE  Evolves(f, f, ss, ss)
BY DEF Evolves

\* A websocket opens, or starts to close.
LEMMA ConnStep ==
    ASSUME InvokeInv, NEW c \in Conn, NEW v \in {"open", "closing"},
           conn' = [conn EXCEPT ![c] = v],
           UNCHANGED <<inv, tombstones, receipts, requestIds, inFlightInvokes, inFlight, session>>
    PROVE  SafeStep
<1>1. RecordsKept(inv, conn, session) /\ ConnType(conn)
  BY Tables
<1>2. ConnType(conn') /\ \A d \in Conn : conn'[d] = "closed" => conn[d] = "closed"
  BY <1>1 DEF ConnType
<1>3. RecordsKept(inv, conn', session)
  BY <1>1, <1>2, ConnKept
<1>4. RecordsKept(inv', conn', session')
  BY <1>3
<1>5. Evolves(inv, inv', session, session')
  <2>1. Evolves(inv, inv, session, session)
    BY EvolvesNot
  <2> QED
    BY <2>1
<1>6. /\ \A j \in Invocation : inv[j] # None => inv'[j].pc = inv[j].pc
      /\ \A s \in Session : session[s].closed => session'[s].closed
  OBVIOUS
<1>7. UNCHANGED <<tombstones, receipts, requestIds, inFlightInvokes, inFlight>> /\ InvokeInv
  OBVIOUS
<1> QED
  BY ONLY <1>2, <1>4, <1>5, <1>6, <1>7, RecordsStep

\* The tables of websocket c after the sweep.
Swept(c, T, K, tb, rs) ==
    /\ tb = [tombstones EXCEPT ![c] = @ \ T]
    /\ rs = [receipts EXCEPT ![c] = sweep(c, T, K)]

\* The sweep makes room, and slots counts what is left.
LEMMA SweepTables ==
    ASSUME InvokeInv, NEW c \in Conn, NEW T, NEW K, NEW tb, NEW rs, Swept(c, T, K, tb, rs)
    PROVE  /\ tb \in [Conn -> SUBSET Request]
           /\ rs \in [Conn -> [CancelId -> Receipt \cup {None}]]
           /\ rs[c] = sweep(c, T, K)
           /\ ReceiptsKept(rs, inv, session) /\ Bounded(inv, tb, rs)
           /\ slots(c, T, K) = Cardinality(RecordsOf(inv, c)) + Cardinality(tb[c])
                                 + Cardinality(ReceiptsOf(rs, c))
<1>1. /\ tombstones \in [Conn -> SUBSET Request]
      /\ receipts \in [Conn -> [CancelId -> Receipt \cup {None}]]
      /\ ReceiptsKept(receipts, inv, session) /\ Bounded(inv, tombstones, receipts)
  BY DEF InvokeInv, TypeOK
<1>2. /\ tb[c] = tombstones[c] \ T /\ \A d \in Conn \ {c} : tb[d] = tombstones[d]
      /\ tb \in [Conn -> SUBSET Request]
  BY <1>1 DEF Swept
<1>3. sweep(c, T, K) \in [CancelId -> Receipt \cup {None}]
  BY <1>1 DEF sweep
<1>4. /\ rs[c] = sweep(c, T, K) /\ \A d \in Conn \ {c} : rs[d] = receipts[d]
      /\ rs \in [Conn -> [CancelId -> Receipt \cup {None}]]
  BY <1>1, <1>3 DEF Swept
<1>5. \A d \in Conn, k \in CancelId : rs[d][k] # None => rs[d][k] = receipts[d][k]
  BY <1>4 DEF sweep
<1>6. ReceiptsKept(rs, inv, session)
  BY <1>1, <1>5 DEF ReceiptsKept
<1>7. \A d \in Conn : ReceiptsOf(rs, d) \subseteq ReceiptsOf(receipts, d)
                      /\ tb[d] \subseteq tombstones[d]
  BY <1>2, <1>5 DEF ReceiptsOf
<1>8. Bounded(inv, tb, rs)
  <2> SUFFICES ASSUME NEW d \in Conn
               PROVE  Cardinality(RecordsOf(inv, d)) + Cardinality(tb[d])
                        + Cardinality(ReceiptsOf(rs, d)) <= MaxRecords
    BY DEF Bounded
  <2>1. Cardinality(RecordsOf(inv, d)) + Cardinality(tombstones[d])
          + Cardinality(ReceiptsOf(receipts, d)) <= MaxRecords
    BY <1>1 DEF Bounded
  <2>2. /\ IsFiniteSet(ReceiptsOf(receipts, d)) /\ Cardinality(RecordsOf(inv, d)) \in Nat
        /\ Cardinality(ReceiptsOf(receipts, d)) \in Nat
        /\ Cardinality(ReceiptsOf(rs, d)) \in Nat
    BY TablesFinite
  <2>3. IsFiniteSet(tombstones[d]) /\ Cardinality(tombstones[d]) \in Nat
        /\ Cardinality(tb[d]) \in Nat
    BY <1>1, <1>2, TablesFinite
  <2>4. Cardinality(ReceiptsOf(rs, d)) <= Cardinality(ReceiptsOf(receipts, d))
    BY <1>7, <2>2, FS_Subset
  <2>5. Cardinality(tb[d]) <= Cardinality(tombstones[d])
    BY <1>7, <2>3, FS_Subset
  <2>6. MaxRecords \in Nat
    BY InvokeAssumption
  <2> QED
    BY <2>1, <2>2, <2>3, <2>4, <2>5, <2>6
<1>9. RecordsOf(inv, c) = records(c)
  BY DEF RecordsOf, RunningIn, records, Running
<1>10. ReceiptsOf(rs, c) = {k \in CancelId \ K : receipts[c][k] # None}
  BY <1>4 DEF ReceiptsOf, sweep
<1> QED
  BY <1>2, <1>4, <1>6, <1>8, <1>9, <1>10 DEF slots

\* A step that changes records and the tables of cancellation, while handlers wait.
LEMMA TablesStep ==
    ASSUME InvokeInv, ConnType(conn'), RecordsKept(inv', conn', session'),
           Evolves(inv, inv', session, session'),
           \A j \in Invocation : inv[j] # None => inv'[j].pc = inv[j].pc,
           tombstones' \in [Conn -> SUBSET Request],
           receipts' \in [Conn -> [CancelId -> Receipt \cup {None}]],
           ReceiptsKept(receipts', inv', session'), Bounded(inv, tombstones', receipts'),
           UNCHANGED <<requestIds, inFlightInvokes, inFlight, session>>
    PROVE  SafeStep
<1>1. /\ inFlight \in [Request -> Invocation \cup {None}]
      /\ inv \in [Invocation -> InvocationRecord \cup {None}]
      /\ inv' \in [Invocation -> InvocationRecord \cup {None}]
      /\ Reached(inFlight, inv, session) /\ Routes(inFlight, inv)
      /\ Budget(inv, requestIds, inFlightInvokes)
  BY DEF InvokeInv, TypeOK, RecordsKept
<1>2. TypeOK'
  BY DEF InvokeInv, TypeOK, RecordsKept, ConnType
<1>3. Evolves(inv, inv', session, session)
  OBVIOUS
<1>4. Routes(inFlight, inv')
  BY <1>1, <1>3, RoutesFollow
<1>5. Reached(inFlight, inv', session)
  <2>1. \A j \in Invocation : inv'[j] # None /\ inv'[j].pc = "running" =>
            inv[j].pc = "running" /\ inv[j].session # None
    BY <1>3, RunningHasSession DEF InvokeInv, Evolves
  <2>2. \A j \in Invocation : inv'[j] # None =>
            SessionTie(inv'[j], session) /\ PcFacts(inv'[j])
    BY DEF RecordsKept, Tied, Sound
  <2> QED
    BY <1>1, <1>3, <2>1, <2>2, ReachedFollow
<1>6. Budget(inv', requestIds, inFlightInvokes) /\ Bounded(inv', tombstones', receipts')
  <2>1. \A j \in Invocation : inv[j] # None => (inv'[j].pc = "done" <=> inv[j].pc = "done")
    OBVIOUS
  <2>2. Bounded(inv, tombstones', receipts')
    OBVIOUS
  <2> QED
    BY ONLY <1>1, <1>3, <2>1, <2>2, BudgetSame
<1>7. SameWebsockets
  BY <1>3 DEF Evolves, SameWebsockets
<1>8. AllFinished(inv')
  BY <1>3 DEF InvokeInv, AllFinished, Evolves
<1> QED
  BY <1>2, <1>4, <1>5, <1>6, <1>7, <1>8 DEF InvokeInv, SafeStep

\* The websocket is closed for a violation of the protocol, after the sweep.
LEMMA PolicyStep ==
    ASSUME InvokeInv, NEW c \in Conn, NEW T, NEW K, Swept(c, T, K, tombstones', receipts'),
           closePolicyViolation(c),
           UNCHANGED <<inv, requestIds, inFlightInvokes, inFlight, session>>
    PROVE  SafeStep
<1>1. RecordsKept(inv, conn, session) /\ ConnType(conn)
  BY Tables
<1>2. ConnType(conn') /\ \A d \in Conn : conn'[d] = "closed" => conn[d] = "closed"
  BY <1>1 DEF ConnType, closePolicyViolation
<1>3. RecordsKept(inv, conn', session)
  BY <1>1, <1>2, ConnKept
<1>4. /\ tombstones' \in [Conn -> SUBSET Request]
      /\ receipts' \in [Conn -> [CancelId -> Receipt \cup {None}]]
      /\ ReceiptsKept(receipts', inv, session) /\ Bounded(inv, tombstones', receipts')
  BY SweepTables
<1>5. Evolves(inv, inv, session, session)
  BY EvolvesNot
<1>6. /\ RecordsKept(inv', conn', session') /\ Evolves(inv, inv', session, session')
      /\ ReceiptsKept(receipts', inv', session')
      /\ \A j \in Invocation : inv[j] # None => inv'[j].pc = inv[j].pc
      /\ UNCHANGED <<requestIds, inFlightInvokes, inFlight, session>> /\ InvokeInv
  BY <1>3, <1>4, <1>5
<1> QED
  BY ONLY <1>2, <1>4, <1>6, TablesStep

\* The receipt v of cancel id k is added, where there is room for it.
Adds(f, tb, rs, c, k, v, qs) ==
    /\ tb \in [Conn -> SUBSET Request] /\ rs \in [Conn -> [CancelId -> Receipt \cup {None}]]
    /\ Bounded(f, tb, rs)
    /\ c \in Conn /\ k \in CancelId /\ v \in Receipt /\ rs[c][k] = None
    /\ Cardinality(RecordsOf(f, c)) + Cardinality(tb[c])
          + Cardinality(ReceiptsOf(rs, c)) < MaxRecords
    /\ qs = [rs EXCEPT ![c] = [rs[c] EXCEPT ![k] = v]]

\* A new receipt fits, if slots says so.
LEMMA ReceiptFits ==
    ASSUME NEW f, NEW tb, NEW rs, NEW c, NEW k, NEW v, NEW qs, Adds(f, tb, rs, c, k, v, qs)
    PROVE  /\ qs \in [Conn -> [CancelId -> Receipt \cup {None}]] /\ Bounded(f, tb, qs)
           /\ qs[c][k] = v
           /\ \A d \in Conn, m \in CancelId : d # c \/ m # k => qs[d][m] = rs[d][m]
<1> USE DEF Adds
<1>1. /\ qs \in [Conn -> [CancelId -> Receipt \cup {None}]] /\ qs[c][k] = v
      /\ \A m \in CancelId \ {k} : qs[c][m] = rs[c][m]
      /\ \A d \in Conn \ {c} : qs[d] = rs[d]
  OBVIOUS
<1>2. ReceiptsOf(qs, c) = ReceiptsOf(rs, c) \cup {k}
  BY <1>1, NoneApart DEF ReceiptsOf
<1>3. k \notin ReceiptsOf(rs, c)
  BY DEF ReceiptsOf
<1>4. IsFiniteSet(ReceiptsOf(rs, c)) /\ Cardinality(ReceiptsOf(rs, c)) \in Nat
      /\ Cardinality(RecordsOf(f, c)) \in Nat /\ Cardinality(tb[c]) \in Nat
  BY TablesFinite
<1>5. Cardinality(ReceiptsOf(qs, c)) = Cardinality(ReceiptsOf(rs, c)) + 1
  <2>1. Cardinality(ReceiptsOf(rs, c) \cup {k}) =
          IF k \in ReceiptsOf(rs, c) THEN Cardinality(ReceiptsOf(rs, c))
                                     ELSE Cardinality(ReceiptsOf(rs, c)) + 1
    BY <1>4, FS_AddElement
  <2> QED
    BY <1>2, <1>3, <2>1
<1>6. \A d \in Conn \ {c} : ReceiptsOf(qs, d) = ReceiptsOf(rs, d)
  BY <1>1 DEF ReceiptsOf
<1>7. Bounded(f, tb, qs)
  <2> SUFFICES ASSUME NEW d \in Conn
               PROVE  Cardinality(RecordsOf(f, d)) + Cardinality(tb[d])
                        + Cardinality(ReceiptsOf(qs, d)) <= MaxRecords
    BY DEF Bounded
  <2>1. CASE d = c
    <3>1. MaxRecords \in Nat
      BY InvokeAssumption
    <3> QED
      BY <1>4, <1>5, <2>1, <3>1
  <2>2. CASE d # c
    BY <1>6, <2>2 DEF Bounded
  <2> QED
    BY <2>1, <2>2
<1> QED
  BY <1>1, <1>7

\* What the cancel handler finds.
LEMMA OutcomeFacts ==
    ASSUME InvokeInv, NEW c \in Conn, NEW r \in Request, NEW T, NEW o, o = outcomeFor(c, r, T)
    PROVE  /\ o.i \in Invocation \cup {None} /\ o.outcome \in Outcome
           /\ o.outcome = "cancelled_before_start" =>
                 o.i \in Invocation /\ inv[o.i] # None /\ Revocable(inv[o.i])
<1> DEFINE own == {i \in records(c) : inv[i].req = r}
<1>1. CASE own = {}
  <2>1. o = [i |-> None, outcome |-> IF r \in tombstones[c] \ T THEN "already_terminal"
                                                             ELSE "not_owned"]
    BY <1>1 DEF outcomeFor
  <2> QED
    BY <2>1 DEF Outcome
<1>2. CASE own # {}
  <2>1. PICK i : i = CHOOSE j \in own : TRUE
    OBVIOUS
  <2>2. i \in own
    BY <1>2, <2>1
  <2>3. i \in Invocation /\ inv[i] # None /\ inv[i].pc # "done"
    BY <2>2 DEF records, Running
  <2>4. PICK v : v = CASE recordPhase(inv[i]) = "terminal" -> "already_terminal"
                       [] recordPhase(inv[i]) = "queued" /\ revocable(inv[i]) ->
                            "cancelled_before_start"
                       [] OTHER -> "cancellation_pending"
    OBVIOUS
  <2>5. o = [i |-> i, outcome |-> v]
    BY <1>2, <2>1, <2>4 DEF outcomeFor
  <2> HIDE DEF own
  <2>6. /\ v \in Outcome
        /\ v = "cancelled_before_start" => recordPhase(inv[i]) = "queued" /\ revocable(inv[i])
    BY <2>4 DEF Outcome
  <2>7. v = "cancelled_before_start" => Revocable(inv[i])
    BY <2>3, <2>6 DEF recordPhase, Revocable
  <2> QED
    BY <2>3, <2>5, <2>6, <2>7
<1> QED
  BY <1>1, <1>2

\* The record of a request that is cancelled before it starts.
Cancelled(x) ==
    LET u == revokeCancellationBeforeStart(x)
    IN  IF u.revokedTicket THEN u ELSE sendRevokedCancellationTerminal(u)

\* It is a successor, and it will not start.
LEMMA CancelledFacts ==
    ASSUME InvokeInv, NEW i \in Invocation, inv[i] # None, Revocable(inv[i]),
           NEW y, y = Cancelled(inv[i])
    PROVE  /\ Successor(i, y) /\ y \in InvocationRecord /\ Doomed(y, session)
           /\ y.pc = inv[i].pc
<1>1. PICK x : x = inv[i]
  OBVIOUS
<1>2. Sound(x) /\ SessionTie(x, session) /\ HoldTie(i, x, session) /\ Revocable(x)
  BY <1>1, RunningTied DEF Tied
<1>3. PICK u : u = revokeCancellationBeforeStart(x)
  OBVIOUS
<1>4. /\ Revoked(i, x, u)
      /\ ~u.revokedTicket => u.ticket = "none" /\ u.pc = "admitting" /\ Silent(u)
      /\ u.revokedTicket \in BOOLEAN /\ u.revoked
  BY ONLY <1>2, <1>3, i \in Invocation, RevokedBeforeStart
<1>5. y = IF u.revokedTicket THEN u ELSE sendRevokedCancellationTerminal(u)
  BY <1>1, <1>3 DEF Cancelled
<1>6. Revoked(i, x, y)
  <2>1. CASE u.revokedTicket
    BY <1>4, <1>5, <2>1
  <2>2. CASE ~u.revokedTicket
    BY <1>4, <1>5, <2>2, RevokedAndTold
  <2> QED
    BY <2>1, <2>2
<1> QED
  BY <1>1, <1>2, <1>6 DEF Revoked, Successor, Tied, Sound, Finished

\* CANCEL_INVOKE.
LEMMA CancelInvokeStep ==
    ASSUME InvokeInv, NEW c \in Conn, NEW k \in CancelId, NEW r \in Request, NEW T, NEW K,
           cancelInvoke(c, k, r, T, K)
    PROVE  SafeStep
<1>1. PICK o : o = outcomeFor(c, r, T)
  OBVIOUS
<1>2. PICK tb : tb = [tombstones EXCEPT ![c] = @ \ T]
  OBVIOUS
<1>3. PICK rs : rs = [receipts EXCEPT ![c] = sweep(c, T, K)]
  OBVIOUS
<1>4. Swept(c, T, K, tb, rs)
  BY <1>2, <1>3 DEF Swept
<1>5. /\ sweep(c, T, K)[k] = None /\ tombstones' = tb
      /\ UNCHANGED <<requestIds, inFlightInvokes, inFlight, session>>
  BY <1>2 DEF cancelInvoke
<1>6. /\ tb \in [Conn -> SUBSET Request]
      /\ rs \in [Conn -> [CancelId -> Receipt \cup {None}]] /\ rs[c] = sweep(c, T, K)
      /\ ReceiptsKept(rs, inv, session) /\ Bounded(inv, tb, rs)
      /\ slots(c, T, K) = Cardinality(RecordsOf(inv, c)) + Cardinality(tb[c])
                            + Cardinality(ReceiptsOf(rs, c))
  BY <1>4, SweepTables
<1>7. CASE slots(c, T, K) >= MaxRecords
  <2>1. closePolicyViolation(c) /\ receipts' = rs /\ UNCHANGED inv
    BY <1>3, <1>7 DEF cancelInvoke
  <2>2. Swept(c, T, K, tombstones', receipts')
    BY <1>4, <1>5, <2>1
  <2>3. UNCHANGED <<inv, requestIds, inFlightInvokes, inFlight, session>>
        /\ InvokeInv /\ c \in Conn
    BY <1>5, <2>1
  <2> QED
    BY ONLY <2>1, <2>2, <2>3, PolicyStep
<1>8. CASE ~(slots(c, T, K) >= MaxRecords)
  <2>1. PICK v : v = [req |-> r, outcome |-> o.outcome, of |-> o.i]
    OBVIOUS
  <2>2. PICK qs : qs = [rs EXCEPT ![c] = [rs[c] EXCEPT ![k] = v]]
    OBVIOUS
  <2>3. receipts' = [receipts EXCEPT ![c] = [sweep(c, T, K) EXCEPT ![k] = v]]
    BY <1>1, <1>8, <2>1 DEF cancelInvoke
  <2>4. receipts' = qs
    <3>1. receipts \in [Conn -> [CancelId -> Receipt \cup {None}]]
      BY DEF InvokeInv, TypeOK
    <3>2. PICK w : w = sweep(c, T, K)
      OBVIOUS
    <3>3. rs = [receipts EXCEPT ![c] = w] /\ rs[c] = w
          /\ receipts' = [receipts EXCEPT ![c] = [w EXCEPT ![k] = v]]
      BY <1>3, <1>6, <2>3, <3>2
    <3> QED
      BY ONLY <2>2, <3>1, <3>3
  <2>5. /\ o.i \in Invocation \cup {None} /\ o.outcome \in Outcome
        /\ o.outcome = "cancelled_before_start" =>
              o.i \in Invocation /\ inv[o.i] # None /\ Revocable(inv[o.i])
    BY <1>1, OutcomeFacts
  <2>6. v \in Receipt /\ v.outcome = o.outcome /\ v.of = o.i
    BY <2>1, <2>5 DEF Receipt
  <2>7. /\ qs \in [Conn -> [CancelId -> Receipt \cup {None}]] /\ Bounded(inv, tb, qs)
        /\ qs[c][k] = v
        /\ \A d \in Conn, m \in CancelId : d # c \/ m # k => qs[d][m] = rs[d][m]
    <3>1. Cardinality(RecordsOf(inv, c)) + Cardinality(tb[c])
            + Cardinality(ReceiptsOf(rs, c)) < MaxRecords
      <4>1. /\ Cardinality(RecordsOf(inv, c)) \in Nat
            /\ Cardinality(ReceiptsOf(rs, c)) \in Nat /\ Cardinality(tb[c]) \in Nat
        BY <1>6, TablesFinite
      <4>2. MaxRecords \in Nat
        BY InvokeAssumption
      <4> QED
        BY <1>6, <1>8, <4>1, <4>2
    <3>2. Adds(inv, tb, rs, c, k, v, qs)
      BY <1>5, <1>6, <2>2, <2>6, <3>1 DEF Adds
    <3> QED
      BY ONLY <3>2, ReceiptFits
  <2>8. conn' = conn /\ ConnType(conn')
    <3>1. conn' = conn
      BY <1>8 DEF cancelInvoke
    <3> QED
      BY <3>1, Tables
  <2>9. CASE o.outcome # "cancelled_before_start"
    <3>1. inv' = inv
      BY <1>1, <1>8, <2>9 DEF cancelInvoke
    <3>2. RecordsKept(inv', conn', session') /\ Evolves(inv, inv', session, session')
      <4>1. RecordsKept(inv, conn, session) /\ Evolves(inv, inv, session, session)
        BY Tables, EvolvesNot
      <4> QED
        BY <1>5, <2>8, <3>1, <4>1
    <3>3. ReceiptsKept(qs, inv, session)
      <4> SUFFICES ASSUME NEW d \in Conn, NEW m \in CancelId, qs[d][m] # None,
                          qs[d][m].outcome = "cancelled_before_start"
                   PROVE  qs[d][m].of # None /\ inv[qs[d][m].of] # None
                          /\ Doomed(inv[qs[d][m].of], session)
        BY DEF ReceiptsKept
      <4>1. qs[d][m] = rs[d][m]
        BY <2>6, <2>7, <2>9
      <4> QED
        BY <1>6, <4>1 DEF ReceiptsKept
    <3>4. /\ ReceiptsKept(receipts', inv', session') /\ Bounded(inv, tombstones', receipts')
          /\ tombstones' \in [Conn -> SUBSET Request]
          /\ receipts' \in [Conn -> [CancelId -> Receipt \cup {None}]]
          /\ \A j \in Invocation : inv[j] # None => inv'[j].pc = inv[j].pc
      BY <1>5, <1>6, <2>4, <2>7, <3>1, <3>3
    <3> QED
      BY ONLY InvokeInv, <1>5, <2>8, <3>2, <3>4, TablesStep
  <2>10. CASE o.outcome = "cancelled_before_start"
    <3>1. PICK i \in Invocation : i = o.i
      BY <2>5, <2>10
    <3>2. inv[i] # None /\ Revocable(inv[i])
      BY <2>5, <2>10, <3>1
    <3>3. PICK y : y = Cancelled(inv[i])
      OBVIOUS
    <3>4. inv' = [inv EXCEPT ![i] = y]
      BY <1>1, <1>8, <2>10, <3>1, <3>3 DEF cancelInvoke, Cancelled
    <3>5. /\ Successor(i, y) /\ y \in InvocationRecord /\ Doomed(y, session)
          /\ y.pc = inv[i].pc
      BY <3>2, <3>3, CancelledFacts
    <3>6. Changed(inv', i, y)
      BY <3>4, <3>5 DEF InvokeInv, TypeOK, Changed
    <3>7. RecordsKept(inv', conn, session) /\ Evolves(inv, inv', session, session)
      BY <3>2, <3>5, <3>6, OneRecord
    <3>8. RecordsKept(inv', conn', session') /\ Evolves(inv, inv', session, session')
      BY <1>5, <2>8, <3>7
    <3>9. ReceiptsKept(rs, inv', session)
      BY ONLY <1>6, <3>7, ReceiptsFollow
    <3>10. ReceiptsKept(qs, inv', session)
      <4> SUFFICES ASSUME NEW d \in Conn, NEW m \in CancelId, qs[d][m] # None,
                          qs[d][m].outcome = "cancelled_before_start"
                   PROVE  qs[d][m].of # None /\ inv'[qs[d][m].of] # None
                          /\ Doomed(inv'[qs[d][m].of], session)
        BY DEF ReceiptsKept
      <4>1. CASE d = c /\ m = k
        <5>1. qs[d][m].of = i /\ inv'[i] = y
          BY <2>6, <2>7, <3>1, <3>6, <4>1 DEF Changed
        <5> QED
          BY <3>5, <5>1, NoneApart
      <4>2. CASE d # c \/ m # k
        <5>1. qs[d][m] = rs[d][m]
          BY <2>7, <4>2
        <5> QED
          BY <3>9, <5>1 DEF ReceiptsKept
      <4> QED
        BY <4>1, <4>2
    <3>11. /\ ReceiptsKept(receipts', inv', session') /\ Bounded(inv, tombstones', receipts')
           /\ tombstones' \in [Conn -> SUBSET Request]
           /\ receipts' \in [Conn -> [CancelId -> Receipt \cup {None}]]
           /\ \A j \in Invocation : inv[j] # None => inv'[j].pc = inv[j].pc
      <4>1. \A j \in Invocation : inv[j] # None => inv'[j].pc = inv[j].pc
        BY <3>5, <3>6 DEF Changed
      <4> QED
        BY <1>5, <1>6, <2>4, <2>7, <3>10, <4>1
    <3> QED
      BY ONLY InvokeInv, <1>5, <2>8, <3>8, <3>11, TablesStep
  <2> QED
    BY <2>9, <2>10
<1> QED
  BY <1>7, <1>8

-----------------------------------------------------------------------------
(* INVOKE.                                                                 *)

\* The new record x of invocation i is added to f, where there is room for it.
Starts(f, i, x, c, r, ids, n, tb, rs, g) ==
    /\ f \in [Invocation -> InvocationRecord \cup {None}]
    /\ x \in InvocationRecord /\ i \in Invocation /\ c \in Conn /\ r \in Request
    /\ f[i] = None /\ x.pc = "admitting" /\ x.conn = c /\ x.req = r
    /\ ids \subseteq Request /\ r \notin ids /\ n \in 0 .. MaxInFlight /\ n < MaxInFlight
    /\ Budget(f, ids, n)
    /\ tb \in [Conn -> SUBSET Request] /\ Bounded(f, tb, rs)
    /\ Cardinality(RecordsOf(f, c)) + Cardinality(tb[c])
          + Cardinality(ReceiptsOf(rs, c)) < MaxRecords
    /\ g = [f EXCEPT ![i] = x]

\* A handler starts: it takes its request id, a slot of the budget and a slot of the
\* cancellation state.
LEMMA BudgetStarts ==
    ASSUME NEW f, NEW i, NEW x, NEW c, NEW r, NEW ids, NEW n, NEW tb, NEW rs, NEW g,
           Starts(f, i, x, c, r, ids, n, tb, rs, g)
    PROVE  /\ Budget(g, ids \cup {r}, n + 1) /\ n + 1 \in 0 .. MaxInFlight
           /\ Bounded(g, tb, rs)
<1> USE DEF Starts
<1>1. x # None
  BY NoneApart
<1>2. g[i] = x /\ \A j \in Invocation \ {i} : g[j] = f[j]
  OBVIOUS
<1>3. i \notin RunningIn(f) /\ RunningIn(g) = RunningIn(f) \cup {i}
  BY <1>1, <1>2 DEF RunningIn
<1>4. \A j \in RunningIn(f) : g[j] = f[j] /\ j # i
  BY <1>2, <1>3 DEF RunningIn
<1>5. IsFiniteSet(RunningIn(f)) /\ IsFiniteSet(ids) /\ Cardinality(RunningIn(f)) \in Nat
      /\ Cardinality(ids) \in Nat
  BY TablesFinite
<1>6. /\ n = Cardinality(RunningIn(f)) /\ n = Cardinality(ids)
      /\ ids = {f[j].req : j \in RunningIn(f)}
      /\ \A j, k \in RunningIn(f) : f[j].req = f[k].req => j = k
  BY DEF Budget
<1>7. Cardinality(RunningIn(g)) = n + 1
  <2>1. Cardinality(RunningIn(f) \cup {i}) =
          IF i \in RunningIn(f) THEN Cardinality(RunningIn(f)) ELSE Cardinality(RunningIn(f)) + 1
    BY <1>5, FS_AddElement
  <2> QED
    BY <1>3, <1>6, <2>1
<1>8. Cardinality(ids \cup {r}) = n + 1
  <2>1. Cardinality(ids \cup {r}) = IF r \in ids THEN Cardinality(ids) ELSE Cardinality(ids) + 1
    BY <1>5, FS_AddElement
  <2> QED
    BY <1>6, <2>1
<1>9. ids \cup {r} = {g[j].req : j \in RunningIn(g)}
  <2>1. {g[j].req : j \in RunningIn(g)} = {g[j].req : j \in RunningIn(f)} \cup {g[i].req}
    BY <1>3
  <2>2. {g[j].req : j \in RunningIn(f)} = {f[j].req : j \in RunningIn(f)}
    BY <1>4
  <2> QED
    BY <1>2, <1>6, <2>1, <2>2
<1>10. \A j, k \in RunningIn(g) : g[j].req = g[k].req => j = k
  BY <1>2, <1>3, <1>4, <1>6
<1>11. Budget(g, ids \cup {r}, n + 1)
  BY <1>7, <1>8, <1>9, <1>10 DEF Budget
<1>12. n + 1 \in 0 .. MaxInFlight
  BY InvokeAssumption
<1>13. Bounded(g, tb, rs)
  <2> SUFFICES ASSUME NEW d \in Conn
               PROVE  Cardinality(RecordsOf(g, d)) + Cardinality(tb[d])
                        + Cardinality(ReceiptsOf(rs, d)) <= MaxRecords
    BY DEF Bounded
  <2>1. CASE d # c
    <3>1. RecordsOf(g, d) = RecordsOf(f, d)
      BY <1>2, <1>3, <1>4, <2>1 DEF RecordsOf
    <3> QED
      BY <3>1 DEF Bounded
  <2>2. CASE d = c
    <3>1. RecordsOf(g, d) = RecordsOf(f, d) \cup {i}
      BY <1>2, <1>3, <1>4, <2>2 DEF RecordsOf
    <3>2. IsFiniteSet(RecordsOf(f, d)) /\ Cardinality(RecordsOf(f, d)) \in Nat
          /\ Cardinality(ReceiptsOf(rs, d)) \in Nat
      BY TablesFinite
    <3>3. Cardinality(tb[d]) \in Nat
      BY TablesFinite
    <3>4. Cardinality(RecordsOf(f, d) \cup {i}) = Cardinality(RecordsOf(f, d)) + 1
      <4>1. i \notin RecordsOf(f, d)
        BY <1>3 DEF RecordsOf
      <4>2. Cardinality(RecordsOf(f, d) \cup {i}) =
              IF i \in RecordsOf(f, d) THEN Cardinality(RecordsOf(f, d))
                                       ELSE Cardinality(RecordsOf(f, d)) + 1
        BY <3>2, FS_AddElement
      <4> QED
        BY <4>1, <4>2
    <3>5. MaxRecords \in Nat
      BY InvokeAssumption
    <3>6. Cardinality(RecordsOf(f, d)) + Cardinality(tb[d])
            + Cardinality(ReceiptsOf(rs, d)) < MaxRecords
      BY <2>2
    <3>7. Cardinality(RecordsOf(g, d)) = Cardinality(RecordsOf(f, d)) + 1
      BY <3>1, <3>4
    <3> QED
      BY ONLY <3>2, <3>3, <3>5, <3>6, <3>7
  <2> QED
    BY <2>1, <2>2
<1> QED
  BY <1>11, <1>12, <1>13

\* The record of a new handler.
LEMMA NewRecordTied ==
    ASSUME NEW i \in Invocation, NEW c \in Conn, NEW r \in Request, NEW kind \in Kinds,
           NEW cn, NEW ss, cn[c] # "closed", \A s \in Session : i \notin ss[s].holds,
           NEW x, x = NewRecord(c, r, kind)
    PROVE  /\ Tied(i, x, cn, ss) /\ x \in InvocationRecord /\ x.pc = "admitting"
           /\ x.conn = c /\ x.req = r
<1>1. x \in InvocationRecord
  BY InvokeAssumption DEF InvocationRecord, NewRecord, Pc, Track
<1>2. /\ x.conn = c /\ x.req = r /\ x.pc = "admitting" /\ x.phase = "queued"
      /\ ~x.revoked /\ ~x.revokedTicket /\ ~x.removalVerified /\ ~x.terminalSent
      /\ x.session = None /\ x.lease = "none" /\ ~x.local /\ ~x.rec
      /\ x.ticket = "none" /\ x.track = "plain" /\ ~x.cancelled /\ x.result = "none"
      /\ x.exec = "no" /\ x.outbox = 0 /\ x.frames = 0 /\ ~x.broken /\ x.said = "none"
  BY DEF NewRecord
<1>3. FrameFacts(x) /\ TicketFacts(x) /\ RevocationFacts(x) /\ LeaseFacts(x)
  BY <1>2 DEF FrameFacts, TicketFacts, RevocationFacts, LeaseFacts
<1>4. PcFacts(x)
  BY <1>2 DEF PcFacts, Silent
<1>5. SessionTie(x, ss) /\ ConnTie(x, cn, ss) /\ HoldTie(i, x, ss)
  BY <1>2 DEF SessionTie, ConnTie, HoldTie
<1> QED
  BY <1>1, <1>2, <1>3, <1>4, <1>5 DEF Tied, Sound, Core

\* INVOKE, up to its first await.
LEMMA InvokeStep ==
    ASSUME InvokeInv, NEW i \in Invocation, NEW c \in Conn, NEW r \in Request,
           NEW kind \in Kinds, NEW T, NEW K, invoke(i, c, r, kind, T, K)
    PROVE  SafeStep
<1>1. PICK tb : tb = [tombstones EXCEPT ![c] = @ \ T]
  OBVIOUS
<1>2. PICK rs : rs = [receipts EXCEPT ![c] = sweep(c, T, K)]
  OBVIOUS
<1>3. Swept(c, T, K, tb, rs)
  BY <1>1, <1>2 DEF Swept
<1>4. /\ conn[c] \in {"open", "closing"} /\ inv[i] = None
      /\ fresh(c, r, T) => inFlightInvokes < MaxInFlight
      /\ tombstones' = tb /\ receipts' = rs /\ UNCHANGED <<inFlight, session>>
  BY <1>1, <1>2 DEF invoke, Hears
<1>5. /\ tb \in [Conn -> SUBSET Request]
      /\ rs \in [Conn -> [CancelId -> Receipt \cup {None}]]
      /\ ReceiptsKept(rs, inv, session) /\ Bounded(inv, tb, rs)
      /\ slots(c, T, K) = Cardinality(RecordsOf(inv, c)) + Cardinality(tb[c])
                            + Cardinality(ReceiptsOf(rs, c))
  BY <1>3, SweepTables
<1>6. CASE ~(fresh(c, r, T) /\ slots(c, T, K) < MaxRecords)
  <2>1. closePolicyViolation(c) /\ UNCHANGED <<inv, requestIds, inFlightInvokes>>
    BY <1>6 DEF invoke
  <2>2. Swept(c, T, K, tombstones', receipts')
    BY <1>3, <1>4
  <2>3. UNCHANGED <<inv, requestIds, inFlightInvokes, inFlight, session>>
        /\ InvokeInv /\ c \in Conn /\ closePolicyViolation(c)
    BY <1>4, <2>1
  <2> QED
    BY ONLY <2>2, <2>3, PolicyStep
<1>7. CASE fresh(c, r, T) /\ slots(c, T, K) < MaxRecords
  <2>1. PICK x : x = NewRecord(c, r, kind)
    OBVIOUS
  <2>2. /\ inv' = [inv EXCEPT ![i] = x] /\ requestIds' = requestIds \cup {r}
        /\ inFlightInvokes' = inFlightInvokes + 1 /\ conn' = conn
    BY <1>7, <2>1 DEF invoke
  <2>3. /\ RecordsKept(inv, conn, session) /\ ConnType(conn) /\ SessionFacts(session)
        /\ session \in [Session -> SdkSession]
        /\ inFlight \in [Request -> Invocation \cup {None}]
        /\ inv \in [Invocation -> InvocationRecord \cup {None}]
        /\ Routes(inFlight, inv)
    BY Tables
  <2>4. \A s \in Session : i \notin session[s].holds
    BY <1>4, <2>3 DEF RecordsKept
  <2>5. /\ Tied(i, x, conn, session) /\ x \in InvocationRecord /\ x.pc = "admitting"
        /\ x.conn = c /\ x.req = r
    BY <1>4, <2>1, <2>4, NewRecordTied
  <2>6. x # None
    BY <2>5, NoneApart
  <2>7. /\ inv'[i] = x /\ \A j \in Invocation \ {i} : inv'[j] = inv[j]
        /\ inv' \in [Invocation -> InvocationRecord \cup {None}]
    BY <2>2, <2>3, <2>5
  <2>8. RecordsKept(inv', conn', session')
    <3>1. \A j \in Invocation : inv'[j] # None => Tied(j, inv'[j], conn, session)
      BY <2>3, <2>5, <2>7 DEF RecordsKept
    <3>2. \A s \in Session, j \in Invocation : j \in session[s].holds => inv'[j] # None
      BY <2>3, <2>4, <2>7 DEF RecordsKept
    <3> QED
      BY <1>4, <2>2, <2>3, <2>7, <3>1, <3>2 DEF RecordsKept
  <2>9. r \notin requestIds
    BY <1>7 DEF fresh
  <2>10. /\ Budget(inv', requestIds', inFlightInvokes')
         /\ inFlightInvokes' \in 0 .. MaxInFlight /\ Bounded(inv', tb, rs)
    <3>1. /\ requestIds \subseteq Request /\ inFlightInvokes \in 0 .. MaxInFlight
          /\ Budget(inv, requestIds, inFlightInvokes)
      BY DEF InvokeInv, TypeOK
    <3>2. Cardinality(RecordsOf(inv, c)) + Cardinality(tb[c])
            + Cardinality(ReceiptsOf(rs, c)) < MaxRecords
      BY <1>5, <1>7
    <3>3. Starts(inv, i, x, c, r, requestIds, inFlightInvokes, tb, rs, inv')
      BY <1>4, <1>5, <1>7, <2>2, <2>3, <2>5, <2>9, <3>1, <3>2 DEF Starts
    <3>4. /\ Budget(inv', requestIds \cup {r}, inFlightInvokes + 1)
          /\ inFlightInvokes + 1 \in 0 .. MaxInFlight /\ Bounded(inv', tb, rs)
      BY ONLY <3>3, BudgetStarts
    <3> QED
      BY <2>2, <3>4
  <2>11. TypeOK'
    <3>1. requestIds' \subseteq Request
      BY <2>2 DEF InvokeInv, TypeOK
    <3> QED
      BY <1>4, <1>5, <2>2, <2>3, <2>7, <2>10, <3>1 DEF TypeOK, ConnType
  <2>12. ReceiptsKept(receipts', inv', session')
    <3> SUFFICES ASSUME NEW d \in Conn, NEW m \in CancelId, rs[d][m] # None,
                        rs[d][m].outcome = "cancelled_before_start"
                 PROVE  rs[d][m].of # None /\ inv'[rs[d][m].of] # None
                        /\ Doomed(inv'[rs[d][m].of], session)
      BY <1>4 DEF ReceiptsKept
    <3>1. rs[d][m] \in Receipt
      BY <1>5
    <3>2. PICK v : v = rs[d][m].of
      OBVIOUS
    <3>3. v \in Invocation \cup {None}
      BY <3>1, <3>2 DEF Receipt
    <3>4. v # None /\ inv[v] # None /\ Doomed(inv[v], session)
      BY <1>5, <3>2 DEF ReceiptsKept
    <3>5. inv'[v] = inv[v]
      BY <1>4, <2>7, <3>3, <3>4
    <3> QED
      BY <3>2, <3>4, <3>5
  <2>13. Routes(inFlight', inv')
    <3> SUFFICES ASSUME NEW q \in Request, inFlight[q] # None
                 PROVE  inv'[inFlight[q]] # None /\ inv'[inFlight[q]].req = q
                        /\ inv'[inFlight[q]].session # None
      BY <1>4 DEF Routes
    <3>1. inFlight[q] \in Invocation /\ inv[inFlight[q]] # None
          /\ inv[inFlight[q]].req = q /\ inv[inFlight[q]].session # None
      BY <2>3 DEF Routes
    <3>2. inv'[inFlight[q]] = inv[inFlight[q]]
      BY <1>4, <2>7, <3>1
    <3> QED
      BY <3>1, <3>2
  <2>14. Reached(inFlight', inv', session')
    <3>1. Reached(inFlight, inv, session)
      BY DEF InvokeInv
    <3> SUFFICES ASSUME NEW j \in Invocation, inv'[j] # None, inv'[j].pc = "running"
                 PROVE  \/ inFlight'[inv'[j].req] = j
                        \/ /\ inFlight'[inv'[j].req] = None
                           /\ session'[inv'[j].session].closed /\ inv'[j].ticket = "terminal"
      BY DEF Reached
    <3>2. j # i /\ inv'[j] = inv[j]
      BY <2>5, <2>7
    <3> QED
      BY <1>4, <3>1, <3>2 DEF Reached
  <2>15. SameWebsockets
    BY <1>4, <2>7 DEF SameWebsockets
  <2>16. AllFinished(inv')
    BY <2>5, <2>7 DEF InvokeInv, AllFinished
  <2> QED
    BY <1>4, <2>8, <2>10, <2>11, <2>12, <2>13, <2>14, <2>15, <2>16 DEF InvokeInv, SafeStep
<1> QED
  BY <1>6, <1>7

-----------------------------------------------------------------------------
(* The close event.                                                        *)

\* A record that the close event contains: its session is retired with its lease
\* as a hold.
LEMMA ContainedRetires ==
    ASSUME NEW j \in Invocation, NEW x, NEW cn, Tied(j, x, cn, session),
           SessionFacts(session), x.session # None,
           NEW H, \A t \in Session : j \in H[t] <=> t = x.session /\ x.rec,
           NEW dn, NEW tt, tt[x.session].closed,
           NEW y, y = [x EXCEPT !.rec = FALSE]
    PROVE  /\ Retiring(j, y, H, dn, tt) /\ (Doomed(x, session) => Doomed(y, session))
           /\ y.pc = x.pc /\ y.conn = x.conn /\ y.req = x.req /\ y.session = x.session
           /\ y.local = x.local
<1>1. /\ x \in InvocationRecord /\ Core(x) /\ PcFacts(x) /\ SessionTie(x, session)
      /\ HoldTie(j, x, session) /\ x.session \in Session
  BY DEF Tied, Sound, InvocationRecord
<1>2. x.lease = "released" => x.ticket \in {"none", "terminal"}
  BY ReleasedEnded
<1>3. y \in InvocationRecord
  <2>1. [x EXCEPT !.rec = FALSE] \in InvocationRecord
    BY ONLY <1>1, Retyped
  <2> QED
    BY <2>1
<1>4. /\ Same(x, y) /\ y.pc = x.pc /\ y.rec = FALSE
      /\ y.phase = x.phase /\ y.revoked = x.revoked /\ y.revokedTicket = x.revokedTicket
      /\ y.lease = x.lease /\ y.local = x.local
      /\ y.removalVerified = x.removalVerified /\ y.terminalSent = x.terminalSent
      /\ y.frames = x.frames /\ y.outbox = x.outbox /\ y.broken = x.broken
      /\ y.said = x.said
  BY ONLY <1>1, y = [x EXCEPT !.rec = FALSE] DEF InvocationRecord, Same
<1>5. FrameFacts(y) /\ TicketFacts(y)
  BY <1>1, <1>4 DEF Core, FrameFacts, TicketFacts, Same
<1>6. RevocationFacts(y) /\ LeaseFacts(y)
  BY <1>1, <1>4 DEF Core, RevocationFacts, LeaseFacts, Same
<1>7. PcFacts(y)
  BY <1>1, <1>4 DEF PcFacts, Silent, Same
<1>8. SessionTie(y, session)
  BY <1>1, <1>4 DEF SessionTie, Same
<1>9. x.pc # "admitting"
  BY <1>1 DEF PcFacts
<1>10. ConnTie(y, dn, tt)
  BY <1>4, <1>9 DEF ConnTie, Same
<1>11. (\A t \in Session : j \notin H[t]) => HoldTie(j, y, session)
  <2> SUFFICES ASSUME \A t \in Session : j \notin H[t]
               PROVE  HoldTie(j, y, session)
    OBVIOUS
  <2>1. ~x.rec
    BY <1>1
  <2> QED
    BY <1>1, <1>4, <2>1 DEF HoldTie, Same
<1>12. ASSUME NEW s \in Session, j \in H[s]
       PROVE  /\ ~y.rec /\ y.lease # "none" /\ y.pc # "admitting" /\ y.session = s
              /\ y.lease = "held"
              /\ \A t \in Session : j \in session[t].holds \cup H[t] => t = s
  <2>1. s = x.session /\ x.rec
    BY <1>12
  <2>2. x.lease = "held"
    BY <1>1, <2>1 DEF Core, LeaseFacts
  <2>3. \A t \in Session : j \notin session[t].holds
    BY <1>1, <2>1 DEF HoldTie
  <2> QED
    BY <1>4, <1>9, <2>1, <2>2, <2>3 DEF Same
<1>13. Sound(y)
  BY <1>3, <1>5, <1>6, <1>7 DEF Sound, Core
<1>14. Retiring(j, y, H, dn, tt)
  BY <1>2, <1>4, <1>8, <1>10, <1>11, <1>12, <1>13 DEF Retiring, Same
<1>15. Doomed(x, session) => Doomed(y, session)
  BY <1>4 DEF Doomed, Same
<1> QED
  BY <1>4, <1>14, <1>15 DEF Same

\* A record that the close event revokes.
LEMMA RevokedRetires ==
    ASSUME NEW j \in Invocation, NEW x, NEW cn, Tied(j, x, cn, session),
           SessionFacts(session), Revocable(x),
           NEW H, \A t \in Session : j \notin H[t], NEW dn, NEW tt,
           NEW y, y = revokeCancellationBeforeStart(x)
    PROVE  /\ Retiring(j, y, H, dn, tt) /\ (Doomed(x, session) => Doomed(y, session))
           /\ y.pc = x.pc /\ y.conn = x.conn /\ y.req = x.req /\ y.session = x.session
           /\ y.local = x.local
<1>1. Sound(x) /\ SessionTie(x, session) /\ HoldTie(j, x, session)
  BY DEF Tied
<1>2. x.lease = "released" => x.ticket \in {"none", "terminal"}
  BY ReleasedEnded
<1>3. Revoked(j, x, y)
  BY <1>1, RevokedBeforeStart
<1>4. /\ Sound(y) /\ y.conn = x.conn /\ y.req = x.req /\ y.session = x.session
      /\ y.pc = x.pc /\ y.lease = x.lease /\ y.local = x.local
      /\ SessionTie(y, session) /\ HoldTie(j, y, session) /\ ConnTie(y, dn, tt)
      /\ Doomed(y, session)
      /\ x.ticket \in {"none", "terminal"} => y.ticket \in {"none", "terminal"}
  BY <1>1, <1>3 DEF Revoked
<1>5. Retiring(j, y, H, dn, tt)
  BY <1>2, <1>4 DEF Retiring
<1> QED
  BY <1>4, <1>5

\* What the close event of websocket c makes of the record of j.
ClosedRecord(c, j) ==
    CASE j \in contained(c) -> [inv[j] EXCEPT !.rec = FALSE]
      [] /\ j \in records(c) \ contained(c)
         /\ recordPhase(inv[j]) = "queued" /\ revocable(inv[j]) ->
            revokeCancellationBeforeStart(inv[j])
      [] OTHER -> inv[j]

\* The sessions that the close event retires, and their holds.
ContainedSessions(c) == {inv[i].session : i \in contained(c)}

ContainedHolds(c) ==
    [s \in Session |-> {i \in contained(c) : inv[i].session = s /\ inv[i].rec}]

\* The record of j after the close event, before the retirement.
LEMMA ClosedRecordRetires ==
    ASSUME InvokeInv, NEW c \in Conn, NEW dn, dn = [conn EXCEPT ![c] = "closed"],
           NEW tt, \A s \in Session : session[s].closed => tt[s].closed,
           \A s \in ContainedSessions(c) : tt[s].closed,
           NEW j \in Invocation, inv[j] # None
    PROVE  LET x == inv[j]
               y == ClosedRecord(c, j)
           IN  /\ Retiring(j, y, ContainedHolds(c), dn, tt)
               /\ Doomed(x, session) => Doomed(y, session)
               /\ y.pc = x.pc /\ y.conn = x.conn /\ y.req = x.req /\ y.session = x.session
               /\ y.local = x.local
<1>1. PICK x : x = inv[j]
  OBVIOUS
<1>2. PICK y : y = ClosedRecord(c, j)
  OBVIOUS
<1>3. PICK H : H = ContainedHolds(c)
  OBVIOUS
<1>4. Tied(j, x, conn, session) /\ SessionFacts(session) /\ ConnType(conn)
  BY <1>1, Tables DEF RecordsKept
<1>5. x \in InvocationRecord /\ Core(x) /\ PcFacts(x) /\ ConnTie(x, conn, session)
  BY <1>4 DEF Tied, Sound
<1>6. j \in records(c) <=> x.pc # "done" /\ x.conn = c
  BY <1>1 DEF records, Running
<1>7. CASE j \in contained(c)
  <2>1. x.session # None /\ x.session \in ContainedSessions(c)
    BY <1>1, <1>7 DEF contained, ContainedSessions
  <2>2. y = [x EXCEPT !.rec = FALSE]
    BY <1>1, <1>2, <1>7 DEF ClosedRecord
  <2>3. \A t \in Session : j \in H[t] <=> t = x.session /\ x.rec
    BY <1>1, <1>3, <1>7 DEF ContainedHolds
  <2>4. tt[x.session].closed
    BY <2>1
  <2>5. /\ Retiring(j, y, H, dn, tt) /\ (Doomed(x, session) => Doomed(y, session))
        /\ y.pc = x.pc /\ y.conn = x.conn /\ y.req = x.req /\ y.session = x.session
        /\ y.local = x.local
    BY ONLY j \in Invocation, <1>4, <2>1, <2>2, <2>3, <2>4, ContainedRetires
  <2> QED
    BY <1>1, <1>2, <1>3, <2>5
<1>8. ASSUME j \notin contained(c)
      PROVE  \A t \in Session : j \notin H[t]
  BY <1>3, <1>8 DEF ContainedHolds
<1>9. CASE /\ j \in records(c) /\ j \notin contained(c)
           /\ recordPhase(x) = "queued" /\ revocable(x)
  <2>1. y = revokeCancellationBeforeStart(x)
    BY <1>1, <1>2, <1>9 DEF ClosedRecord
  <2>2. Revocable(x)
    BY <1>6, <1>9 DEF Revocable, recordPhase
  <2>3. \A t \in Session : j \notin H[t]
    BY <1>8, <1>9
  <2>4. /\ Retiring(j, y, H, dn, tt) /\ (Doomed(x, session) => Doomed(y, session))
        /\ y.pc = x.pc /\ y.conn = x.conn /\ y.req = x.req /\ y.session = x.session
        /\ y.local = x.local
    BY ONLY j \in Invocation, <1>4, <2>1, <2>2, <2>3, RevokedRetires
  <2> QED
    BY <1>1, <1>2, <1>3, <2>4
<1>10. CASE /\ j \notin contained(c)
            /\ ~(j \in records(c) /\ recordPhase(x) = "queued" /\ revocable(x))
  <2>1. y = x
    BY <1>1, <1>2, <1>10 DEF ClosedRecord
  <2>2. \A t \in Session : j \notin H[t]
    BY <1>8, <1>10
  <2>3. Tied(j, x, dn, session)
    <3>1. ConnTie(x, dn, session)
      <4>1. CASE x.conn # c
        <5>1. dn[x.conn] = conn[x.conn]
          BY <1>4, <1>5, <4>1 DEF ConnType, InvocationRecord
        <5> QED
          BY <1>5, <5>1 DEF ConnTie
      <4>2. CASE x.conn = c
        <5>1. x.pc = "admitting" => x.revoked
          <6> SUFFICES ASSUME x.pc = "admitting", ~x.revoked
                       PROVE  FALSE
            OBVIOUS
          <6>1. x.phase = "queued" /\ x.ticket = "none"
            BY <1>5 DEF PcFacts
          <6>2. recordPhase(x) = "queued" /\ revocable(x)
            BY <6>1 DEF recordPhase, revocable
          <6> QED
            BY <1>6, <1>10, <4>2, <6>2
        <5>2. x.pc # "running"
          <6> SUFFICES ASSUME x.pc = "running"
                       PROVE  FALSE
            OBVIOUS
          <6>1. x.phase # "terminal" /\ x.session # None
            BY <1>5 DEF PcFacts, Core, TicketFacts
          <6>2. recordPhase(x) # "terminal" /\ j \in records(c)
            BY <1>6, <4>2, <6>1 DEF recordPhase
          <6> QED
            BY <1>1, <1>10, <6>1, <6>2 DEF contained
        <5> QED
          BY <5>1, <5>2 DEF ConnTie
      <4> QED
        BY <4>1, <4>2
    <3> QED
      BY <1>4, <3>1 DEF Tied
  <2>4. \A s \in Session : session[s].closed => tt[s].closed
    OBVIOUS
  <2>5. Retiring(j, x, H, dn, tt)
    BY ONLY j \in Invocation, <1>4, <2>2, <2>3, <2>4, OthersRetire
  <2> QED
    BY <1>1, <1>2, <1>3, <2>1, <2>5
<1> QED
  BY <1>1, <1>7, <1>9, <1>10

\* The close event.
LEMMA ClosedStep ==
    ASSUME InvokeInv, NEW c \in Conn, NEW receipt \in BOOLEAN, closed(c, receipt)
    PROVE  SafeStep
<1>1. PICK S : S = ContainedSessions(c)
  OBVIOUS
<1>2. PICK H : H = ContainedHolds(c)
  OBVIOUS
<1>3. PICK F : F = IF receipt THEN fencedSessions(c) ELSE {}
  OBVIOUS
<1>4. PICK f : f = [j \in Invocation |-> ClosedRecord(c, j)]
  OBVIOUS
<1>5. PICK g : g = retireTickets(f, S, H)
  OBVIOUS
<1>6. PICK tt : tt = retired(S, H)
  OBVIOUS
<1>7. PICK dn : dn = [conn EXCEPT ![c] = "closed"]
  OBVIOUS
<1>8. /\ conn' = dn /\ session' = disposeDirectly(tt, F) /\ inv' = closeAdapter(g, F)
      /\ inFlight' = IF receipt THEN unrouted(c) ELSE inFlight
      /\ UNCHANGED <<tombstones, receipts, requestIds, inFlightInvokes>>
  BY <1>1, <1>2, <1>3, <1>4, <1>5, <1>6, <1>7
     DEF closed, ContainedSessions, ContainedHolds, ClosedRecord
<1>9. /\ RecordsKept(inv, conn, session) /\ SessionFacts(session)
      /\ session \in [Session -> SdkSession] /\ ConnType(conn)
      /\ inv \in [Invocation -> InvocationRecord \cup {None}]
      /\ inFlight \in [Request -> Invocation \cup {None}]
  BY Tables
<1>10. \A j \in contained(c) : j \in Invocation /\ inv[j] # None /\ inv[j].session \in Session
  <2> SUFFICES ASSUME NEW j \in contained(c)
               PROVE  j \in Invocation /\ inv[j] # None /\ inv[j].session \in Session
    OBVIOUS
  <2>1. j \in Invocation /\ inv[j] # None /\ inv[j].session # None
    BY DEF contained, records, Running
  <2>2. inv[j] \in InvocationRecord
    BY <1>9, <2>1
  <2> QED
    BY <2>1, <2>2 DEF InvocationRecord
<1>11. S \subseteq Session
  BY <1>1, <1>10 DEF ContainedSessions
<1>12. \A s \in Session : H[s] \subseteq Invocation /\ (H[s] # {} => s \in S)
  BY <1>1, <1>2, <1>10 DEF ContainedHolds, ContainedSessions
<1>13. RetiresTo(S, H, tt)
  BY ONLY <1>6, <1>9, <1>12, RetiredSessions
<1>14. (\A s \in Session : session[s].closed => tt[s].closed) /\ \A s \in S : tt[s].closed
  BY <1>11, <1>13 DEF RetiresTo
<1>15. ASSUME NEW j \in Invocation, inv[j] # None
       PROVE  /\ Retiring(j, f[j], H, dn, tt)
              /\ Doomed(inv[j], session) => Doomed(f[j], session)
              /\ f[j].pc = inv[j].pc /\ f[j].conn = inv[j].conn
              /\ f[j].req = inv[j].req /\ f[j].session = inv[j].session
              /\ f[j].local = inv[j].local
  <2>1. f[j] = ClosedRecord(c, j)
    BY <1>4
  <2>2. InvokeInv /\ c \in Conn /\ inv[j] # None /\ j \in Invocation
        /\ \A s \in ContainedSessions(c) : tt[s].closed
    BY <1>1, <1>14, <1>15
  <2>3. /\ Retiring(j, ClosedRecord(c, j), ContainedHolds(c), dn, tt)
        /\ Doomed(inv[j], session) => Doomed(ClosedRecord(c, j), session)
        /\ ClosedRecord(c, j).pc = inv[j].pc /\ ClosedRecord(c, j).conn = inv[j].conn
        /\ ClosedRecord(c, j).req = inv[j].req
        /\ ClosedRecord(c, j).session = inv[j].session
        /\ ClosedRecord(c, j).local = inv[j].local
    BY ONLY <1>7, <1>14, <2>2, ClosedRecordRetires
  <2> QED
    BY <1>2, <2>1, <2>3
<1>16. ASSUME NEW j \in Invocation, inv[j] = None
       PROVE  f[j] = None
  BY <1>4, <1>10, <1>16 DEF ClosedRecord, records, Running
<1>17. \A j \in Invocation : inv[j] # None => f[j] \in InvocationRecord /\ f[j] # None
  BY <1>15, NoneApart DEF Retiring, Sound
<1>18. f \in [Invocation -> InvocationRecord \cup {None}]
  <2>1. \A j \in Invocation : f[j] \in InvocationRecord \cup {None}
    BY <1>16, <1>17
  <2>2. f = [j \in Invocation |-> f[j]]
    BY <1>4
  <2> QED
    BY ONLY <2>1, <2>2
<1>19. \A s \in Session, j \in Invocation : j \in session[s].holds \cup H[s] => f[j] # None
  <2>1. \A s \in Session : H[s] \subseteq contained(c)
    BY <1>2 DEF ContainedHolds
  <2> QED
    BY <1>9, <1>10, <1>17, <2>1 DEF RecordsKept
<1>20. Retires(S, H, dn, f, g, tt)
  <2>1. \A j \in Invocation : f[j] # None => Retiring(j, f[j], H, dn, tt)
    BY <1>15, <1>16
  <2> QED
    BY <1>5, <1>6, <1>9, <1>11, <1>12, <1>18, <1>19, <2>1 DEF Retires
<1>21. /\ RecordsKept(g, dn, tt) /\ Evolves(f, g, session, tt)
       /\ \A j \in Invocation : f[j] # None => g[j].pc = f[j].pc
  BY ONLY <1>20, RetireSessions
<1>22. Evolves(inv, f, session, session)
  BY <1>15, <1>16, <1>17 DEF Evolves, Finished
<1>23. Evolves(inv, g, session, tt)
  BY ONLY <1>21, <1>22, EvolvesOn
<1>24. F \subseteq Session
  BY <1>3, FencedSessions
<1>25. Closes(F, tt, session')
  <2>1. tt \in [Session -> SdkSession]
    BY <1>13 DEF RetiresTo
  <2> QED
    BY <1>8, <2>1 DEF Closes, disposeDirectly, SdkSession
<1>26. Shut(F, tt, session', dn, g, inv')
  BY <1>8, <1>21, <1>25 DEF Shut
<1>27. /\ RecordsKept(inv', dn, session') /\ Evolves(g, inv', tt, session')
       /\ \A j \in Invocation : g[j] # None => inv'[j].pc = g[j].pc
       /\ \A s \in Session : tt[s].closed => session'[s].closed
  BY ONLY <1>26, CloseSessions
<1>28. Evolves(inv, inv', session, session')
  BY ONLY <1>23, <1>27, EvolvesOn
<1>29. RecordsKept(inv', conn', session') /\ ConnType(conn')
  BY <1>7, <1>8, <1>9, <1>27 DEF ConnType
<1>30. \A j \in Invocation : inv[j] # None => inv'[j].pc = inv[j].pc
  <2>1. \A j \in Invocation : inv[j] # None => g[j] # None
    BY <1>23 DEF Evolves
  <2> QED
    BY <1>15, <1>17, <1>21, <1>27, <2>1
<1>31. \A s \in Session : session[s].closed => session'[s].closed
  BY <1>14, <1>27
<1>32. /\ \A j \in Invocation : inv[j] # None => (inv'[j].pc = "done" <=> inv[j].pc = "done")
       /\ \A j \in Invocation : inv'[j] # None /\ inv'[j].pc = "running" =>
             inv[j].pc = "running"
  BY <1>28, <1>30 DEF Evolves
<1>33. UNCHANGED <<tombstones, receipts, requestIds, inFlightInvokes>> /\ InvokeInv
       /\ c \in Conn
  BY <1>8
<1>34. CASE receipt
  <2>1. inFlight' = unrouted(c) /\ F = fencedSessions(c)
    BY <1>3, <1>8, <1>34
  <2>2. \A s \in fencedSessions(c) : session'[s].closed
    BY <1>24, <1>25, <2>1 DEF Closes
  <2>3. /\ inFlight' \in [Request -> Invocation \cup {None}]
        /\ \A r \in Request : inFlight'[r] # inFlight[r] =>
              /\ inFlight'[r] = None /\ inFlight[r] \in Invocation
              /\ inv'[inFlight[r]].pc = "running" =>
                    session'[inv'[inFlight[r]].session].closed
    BY ONLY <1>28, <1>29, <1>33, <2>1, <2>2, Unrouted
  <2> QED
    BY ONLY <1>28, <1>29, <1>31, <1>32, <1>33, <2>3, PlainStep
<1>35. CASE ~receipt
  <2>1. UNCHANGED <<tombstones, receipts, requestIds, inFlightInvokes, inFlight>>
    BY <1>8, <1>35
  <2> QED
    BY ONLY <1>28, <1>29, <1>30, <1>31, <1>33, <2>1, RecordsStep
<1> QED
  BY <1>34, <1>35

-----------------------------------------------------------------------------
(* The theorems.                                                           *)

\* Whatever the SDK does with a request.
LEMMA SdkActionsStep ==
    ASSUME InvokeInv, NEW i \in Invocation, Sdk(i)
    PROVE  SafeStep
<1>1. /\ inv \in [Invocation -> InvocationRecord \cup {None}]
      /\ inv[i] # None => inv[i] \in InvocationRecord /\ TicketFacts(inv[i])
                            /\ RevocationFacts(inv[i])
  BY DEF InvokeInv, TypeOK, RecordsKept, Tied, Sound, Core
<1>2. CASE activate(i)
  <2>1. /\ inv[i] # None /\ inv[i].ticket = "queued" /\ inv[i].track = "plain"
        /\ inv' = [inv EXCEPT ![i] = Activate(inv[i])] /\ SdkUnchanged /\ UNCHANGED session
    BY <1>2 DEF activate, Queued
  <2> QED
    BY <2>1, ActivateStep
<1>3. CASE executionReceipt(i)
  <2>1. /\ inv[i] # None /\ inv[i].ticket = "queued" /\ inv[i].exec = "running"
        /\ inv' = [inv EXCEPT ![i] = Activate(inv[i])] /\ SdkUnchanged /\ UNCHANGED session
    BY <1>3 DEF executionReceipt, Queued
  <2> QED
    BY <2>1, ActivateStep
<1>4. CASE submit(i)
  <2>1. /\ inv[i] # None /\ inv[i].ticket = "queued" /\ inv[i].track = "plain"
        /\ inv[i].kind = "control"
        /\ inv' = [inv EXCEPT ![i] = [inv[i] EXCEPT !.track = "committed"]]
        /\ SdkUnchanged /\ UNCHANGED session
    BY <1>4 DEF submit, Queued
  <2>2. ~inv[i].cancelled
    BY <1>1, <2>1 DEF RevocationFacts
  <2> QED
    BY <2>1, <2>2, SubmitStep
<1>5. CASE submitted(i)
  <2>1. /\ inv[i] # None /\ inv[i].ticket = "queued" /\ inv[i].track = "committed"
        /\ inv' = [inv EXCEPT ![i] = [inv[i] EXCEPT !.track = "sdk"]]
        /\ SdkUnchanged /\ UNCHANGED session
    BY <1>5 DEF submitted, Queued
  <2>2. ~inv[i].cancelled /\ inv[i].kind = "control"
    BY <1>1, <2>1 DEF RevocationFacts, TicketFacts
  <2> QED
    BY <2>1, <2>2, SubmitStep
<1>6. CASE dequeue(i)
  BY <1>6, DequeueStep
<1>7. CASE removalReceipt(i)
  <2>1. /\ inv[i] # None /\ inv[i].ticket = "queued" /\ inv[i].track = "sdk"
        /\ inv[i].exec = "no" /\ SdkUnchanged /\ UNCHANGED session
    BY <1>7 DEF removalReceipt, Queued
  <2>2. inv' = [inv EXCEPT ![i] = [inv[i] EXCEPT !.ticket = "terminal",
                                                 !.result = "revoked"]]
    BY <1>1, <1>7 DEF removalReceipt
  <2>3. [inv[i] EXCEPT !.ticket = "terminal", !.result = "revoked"] =
          [inv[i] EXCEPT !.ticket = "terminal", !.result = "revoked", !.exec = "no"]
    BY <1>1, <2>1 DEF InvocationRecord
  <2>4. inv' = [inv EXCEPT ![i] = [inv[i] EXCEPT !.ticket = "terminal",
                                                 !.result = "revoked", !.exec = "no"]]
    BY <2>2, <2>3
  <2> QED
    BY <2>1, <2>4, SettledStep
<1>8. CASE cancelledInputExecuted(i)
  BY <1>8, CancelledInputStep
<1>9. ASSUME NEW result \in {"value", "error"}, executed(i, result)
      PROVE  SafeStep
  <2>1. inv[i] # None /\ inv[i].ticket = "active" /\ SdkUnchanged /\ UNCHANGED session
    BY <1>9 DEF executed
  <2>2. inv' = [inv EXCEPT ![i] = [inv[i] EXCEPT !.ticket = "terminal",
                                                 !.result = result, !.exec = "over"]]
    BY <1>1, <1>9 DEF executed
  <2> QED
    BY <2>1, <2>2, SettledStep
<1> QED
  BY <1>2, <1>3, <1>4, <1>5, <1>6, <1>7, <1>8, <1>9 DEF Sdk

\* A handler goes on.
LEMMA HandlerActionsStep ==
    ASSUME InvokeInv, NEW i \in Invocation, Handler(i)
    PROVE  SafeStep
<1>1. ASSUME NEW thrown \in BOOLEAN, admissionFails(i, thrown)
      PROVE  SafeStep
  BY <1>1, AdmissionFailsStep
<1>2. ASSUME NEW s \in Session, admissionRotated(i, s)
      PROVE  SafeStep
  BY <1>2, AdmissionRotatedStep
<1>3. ASSUME NEW s \in Session, NEW current \in BOOLEAN, admitted(i, s, current)
      PROVE  SafeStep
  BY <1>3, AdmittedStep
<1>4. CASE ticketSettled(i)
  BY <1>4, TicketSettledStep
<1>5. CASE retirementAwaited(i)
  BY <1>5, RetirementAwaitedStep
<1>6. CASE sendSettled(i)
  BY <1>6, SendSettledEnds
<1> QED
  BY <1>1, <1>2, <1>3, <1>4, <1>5, <1>6 DEF Handler

\* Every step of the daemon and of the SDK is safe.
LEMMA NextIsSafe ==
    ASSUME InvokeInv, Next
    PROVE  SafeStep
<1>1. ASSUME NEW c \in Conn, connectToBot(c)
      PROVE  SafeStep
  <2>1. /\ conn' = [conn EXCEPT ![c] = "open"]
        /\ UNCHANGED <<inv, tombstones, receipts, requestIds, inFlightInvokes, inFlight, session>>
    BY <1>1 DEF connectToBot
  <2> QED
    BY <2>1, ConnStep
<1>2. ASSUME NEW c \in Conn, startClose(c)
      PROVE  SafeStep
  <2>1. /\ conn' = [conn EXCEPT ![c] = "closing"]
        /\ UNCHANGED <<inv, tombstones, receipts, requestIds, inFlightInvokes, inFlight, session>>
    BY <1>2 DEF startClose
  <2> QED
    BY <2>1, ConnStep
<1>3. ASSUME NEW c \in Conn, invalidateBindingRequests(c)
      PROVE  SafeStep
  BY <1>3, InvalidateStep
<1>4. ASSUME NEW c \in Conn, NEW receipt \in BOOLEAN, closed(c, receipt)
      PROVE  SafeStep
  BY <1>4, ClosedStep
<1>5. ASSUME NEW c \in Conn, NEW k \in CancelId, NEW r \in Request, cancelConflicts(c, k, r)
      PROVE  SafeStep
  <2>1. /\ conn' = [conn EXCEPT ![c] = "closing"]
        /\ UNCHANGED <<inv, tombstones, receipts, requestIds, inFlightInvokes, inFlight, session>>
    BY <1>5 DEF cancelConflicts, closePolicyViolation
  <2> QED
    BY <2>1, ConnStep
<1>6. ASSUME NEW c \in Conn, NEW k \in CancelId, NEW r \in Request, NEW e \in Expiry,
             cancelInvoke(c, k, r, e[1], e[2])
      PROVE  SafeStep
  BY <1>6, CancelInvokeStep
<1>7. ASSUME NEW i \in Invocation, NEW c \in Conn, NEW r \in Request, NEW kind \in Kinds,
             NEW e \in Expiry, invoke(i, c, r, kind, e[1], e[2])
      PROVE  SafeStep
  BY <1>7, InvokeStep
<1>8. ASSUME NEW c \in Conn, NEW r \in Request, answer(c, r)
      PROVE  SafeStep
  BY <1>8, AnswerStep
<1>9. ASSUME NEW i \in Invocation,
             \/ acquireActivity(i) \/ Handler(i) \/ Transmits(i) \/ answered(i) \/ Sdk(i)
      PROVE  SafeStep
  <2>1. CASE acquireActivity(i)
    BY <2>1, AcquireActivityStep
  <2>2. CASE Handler(i)
    BY <2>2, HandlerActionsStep
  <2>3. CASE Transmits(i)
    BY <2>3, TransmitStep DEF Transmits
  <2>4. CASE answered(i)
    BY <2>4, AnsweredStep
  <2>5. CASE Sdk(i)
    BY <2>5, SdkActionsStep
  <2> QED
    BY <1>9, <2>1, <2>2, <2>3, <2>4, <2>5
<1>10. ASSUME NEW s \in Session,
              adapterCloses(s) \/ createSession(s) \/ poolRetires(s) \/ disposed(s)
       PROVE  SafeStep
  BY <1>10, AdapterClosesStep, CreateSessionStep, PoolRetiresStep, DisposedStep
<1> QED
  BY <1>1, <1>2, <1>3, <1>4, <1>5, <1>6, <1>7, <1>8, <1>9, <1>10 DEF Next

\* Nothing runs at first.
LEMMA InitHolds ==
    ASSUME Init
    PROVE  InvokeInv
<1> USE DEF Init
<1>1. TypeOK
  <2>1. MaxInFlight \in Nat
    BY InvokeAssumption
  <2> QED
    BY <2>1 DEF TypeOK, SdkSession
<1>2. RecordsKept(inv, conn, session)
  <2>1. SessionFacts(session)
    BY DEF SessionFacts
  <2> QED
    BY <1>1, <2>1 DEF RecordsKept, TypeOK
<1>3. ReceiptsKept(receipts, inv, session) /\ Routes(inFlight, inv)
      /\ Reached(inFlight, inv, session) /\ AllFinished(inv)
  BY DEF ReceiptsKept, Routes, Reached, AllFinished
<1>4. RunningIn(inv) = {} /\ Cardinality({}) = 0
  BY FS_EmptySet DEF RunningIn
<1>5. Budget(inv, requestIds, inFlightInvokes)
  BY <1>4 DEF Budget
<1>6. Bounded(inv, tombstones, receipts)
  <2>1. \A c \in Conn : RecordsOf(inv, c) = {} /\ ReceiptsOf(receipts, c) = {}
                        /\ tombstones[c] = {}
    BY <1>4 DEF RecordsOf, ReceiptsOf
  <2>2. MaxRecords \in Nat /\ 0 <= MaxRecords
    BY InvokeAssumption
  <2>3. \A c \in Conn : /\ Cardinality(RecordsOf(inv, c)) = 0 /\ Cardinality(tombstones[c]) = 0
                        /\ Cardinality(ReceiptsOf(receipts, c)) = 0
    BY <1>4, <2>1
  <2> QED
    BY ONLY <2>2, <2>3 DEF Bounded
<1> QED
  BY <1>1, <1>2, <1>3, <1>5, <1>6 DEF InvokeInv

\* The inductive invariant of the INVOKE handlers: records, tickets, leases, holds,
\* receipts, routing entries, request ids and budget agree in every state.
THEOREM InvokeInvariance == Spec => []InvokeInv
<1>1. Init => InvokeInv
  BY InitHolds
<1>2. InvokeInv /\ [Next]_vars => InvokeInv'
  <2> SUFFICES ASSUME InvokeInv, [Next]_vars
               PROVE  InvokeInv'
    OBVIOUS
  <2>1. CASE Next
    BY <2>1, NextIsSafe DEF SafeStep
  <2>2. CASE UNCHANGED vars
    BY <2>2 DEF vars, InvokeInv, TypeOK
  <2> QED
    BY <2>1, <2>2
<1> QED
  BY <1>1, <1>2, PTL DEF Spec

\* What the bot is told of a cancelled request is true and said once
\* (CancellationHonoured), however many websockets, requests and sessions there are.
THEOREM CancellationIsHonoured == Spec => []CancellationHonoured
<1>1. InvokeInv => CancellationHonoured
  <2> SUFFICES ASSUME InvokeInv
               PROVE  CancellationHonoured
    OBVIOUS
  <2>1. \A i \in Invocation : inv[i] # None =>
            inv[i] \in InvocationRecord /\ Core(inv[i]) /\ PcFacts(inv[i])
    BY DEF InvokeInv, RecordsKept, Tied, Sound
  <2>2. OneTerminalFrame
    BY <2>1 DEF OneTerminalFrame, Started, Core, FrameFacts
  <2>3. CancelledNeverRan
    BY <2>1 DEF CancelledNeverRan, Started, Core, FrameFacts, TicketFacts
  <2>4. ReceiptHonoured
    <3>1. ReceiptsKept(receipts, inv, session)
      BY DEF InvokeInv
    <3> QED
      BY <3>1 DEF ReceiptHonoured, ReceiptsKept, Doomed
  <2>5. CancellationStateBounded
    <3>1. \A c \in Conn : /\ RecordsOf(inv, c) = records(c)
                          /\ ReceiptsOf(receipts, c) = {k \in CancelId : receipts[c][k] # None}
      BY DEF RecordsOf, RunningIn, records, Running, ReceiptsOf
    <3>2. Bounded(inv, tombstones, receipts)
      BY DEF InvokeInv
    <3> QED
      BY ONLY <3>1, <3>2 DEF Bounded, CancellationStateBounded
  <2>6. TypeOK
    BY DEF InvokeInv
  <2> QED
    BY <2>2, <2>3, <2>4, <2>5, <2>6 DEF CancellationHonoured
<1> QED
  BY <1>1, InvokeInvariance, PTL

\* The activity lease of a request lasts as long as its session may run it, and a
\* lease that outlives its handler is the hold of exactly one session (LeaseKept).
THEOREM LeaseIsKept == Spec => []LeaseKept
<1>1. InvokeInv => LeaseKept
  <2> SUFFICES ASSUME InvokeInv
               PROVE  LeaseKept
    OBVIOUS
  <2>1. \A i \in Invocation : inv[i] # None =>
            Core(inv[i]) /\ HoldTie(i, inv[i], session) /\ inv[i] \in InvocationRecord
    BY DEF InvokeInv, RecordsKept, Tied, Sound
  <2>2. LeaseUntilQuiet
    BY <2>1 DEF LeaseUntilQuiet, Started, Core, LeaseFacts
  <2>3. ASSUME NEW i \in Started, inv[i].pc = "done", inv[i].lease = "held"
        PROVE  \E s \in Session : i \in session[s].holds
    <3>1. i \in Invocation /\ inv[i] # None
      BY DEF Started
    <3>2. ~inv[i].rec
      BY <2>1, <2>3, <3>1 DEF InvokeInv, AllFinished, Finished, Core, LeaseFacts
    <3> QED
      BY <2>1, <2>3, <3>1, <3>2 DEF HoldTie
  <2>4. ASSUME NEW s \in Session, NEW i \in session[s].holds
        PROVE  inv[i].lease = "held"
    <3>1. i \in Invocation /\ inv[i] # None
      BY DEF InvokeInv, RecordsKept, SdkSession
    <3> QED
      BY <2>1, <3>1 DEF HoldTie
  <2> QED
    BY <2>2, <2>3, <2>4 DEF LeaseKept, LeaseNotLost
<1> QED
  BY <1>1, InvokeInvariance, PTL

\* Gate answers of a request that runs reach it (AnswersReachRequest).
THEOREM AnswersReach == Spec => []AnswersReachRequest
<1>1. InvokeInv => AnswersReachRequest
  BY DEF InvokeInv, Reached, AnswersReachRequest, Started
<1> QED
  BY <1>1, InvokeInvariance, PTL

\* The request-id fence and the budget of invocations are exact (BudgetExact).
THEOREM BudgetIsExact == Spec => []BudgetExact
<1>1. InvokeInv => BudgetExact
  <2> SUFFICES ASSUME InvokeInv
               PROVE  BudgetExact
    OBVIOUS
  <2>1. RunningIn(inv) = {i \in Invocation : Running(i)}
    BY DEF RunningIn, Running
  <2>2. Budget(inv, requestIds, inFlightInvokes)
    BY DEF InvokeInv
  <2> QED
    BY <2>1, <2>2 DEF Budget, BudgetExact
<1> QED
  BY <1>1, InvokeInvariance, PTL

\* A websocket that is closed stays closed.
LEMMA ClosedForGood ==
    ASSUME InvokeInv, Next, NEW c \in Conn, conn[c] = "closed"
    PROVE  conn'[c] = "closed"
<1>1. conn \in [Conn -> {"unused", "open", "closing", "closed"}]
  BY DEF InvokeInv, TypeOK
<1>2. ASSUME NEW d \in Conn, NEW v, conn[d] # "closed", conn' = [conn EXCEPT ![d] = v]
      PROVE  conn'[c] = "closed"
  BY <1>1, <1>2
<1>3. ASSUME NEW d \in Conn,
             \/ connectToBot(d) \/ startClose(d) \/ invalidateBindingRequests(d)
             \/ \E receipt \in BOOLEAN : closed(d, receipt)
      PROVE  conn'[c] = "closed"
  BY <1>2, <1>3 DEF connectToBot, startClose, invalidateBindingRequests, closed, Hears
<1>4. ASSUME NEW d \in Conn, NEW k \in CancelId, NEW r \in Request, cancelConflicts(d, k, r)
      PROVE  conn'[c] = "closed"
  BY <1>2, <1>4 DEF cancelConflicts, closePolicyViolation, Hears
<1>5. ASSUME NEW d \in Conn, NEW k \in CancelId, NEW r \in Request, NEW e \in Expiry,
             cancelInvoke(d, k, r, e[1], e[2])
      PROVE  conn'[c] = "closed"
  BY <1>2, <1>5 DEF cancelInvoke, closePolicyViolation, Hears
<1>6. ASSUME NEW i \in Invocation, NEW d \in Conn, NEW r \in Request, NEW kind \in Kinds,
             NEW e \in Expiry, invoke(i, d, r, kind, e[1], e[2])
      PROVE  conn'[c] = "closed"
  BY <1>2, <1>6 DEF invoke, closePolicyViolation, Hears
<1>7. ASSUME NEW d \in Conn, NEW r \in Request, answer(d, r)
      PROVE  conn'[c] = "closed"
  BY <1>7 DEF answer
<1>8. ASSUME NEW i \in Invocation, acquireActivity(i) \/ Transmits(i) \/ answered(i)
      PROVE  conn'[c] = "closed"
  BY <1>8 DEF acquireActivity, Transmits, transmit, answered
<1>9. ASSUME NEW i \in Invocation, Handler(i)
      PROVE  conn'[c] = "closed"
  BY <1>9 DEF Handler, admissionFails, admissionRotated, admitted, ticketSettled,
              retirementAwaited, sendSettled
<1>10. ASSUME NEW i \in Invocation, Sdk(i)
       PROVE  conn'[c] = "closed"
  BY <1>10 DEF Sdk, activate, submit, submitted, dequeue, executionReceipt, removalReceipt,
               cancelledInputExecuted, executed, SdkUnchanged
<1>11. ASSUME NEW s \in Session,
              adapterCloses(s) \/ createSession(s) \/ poolRetires(s) \/ disposed(s)
       PROVE  conn'[c] = "closed"
  BY <1>11 DEF adapterCloses, createSession, poolRetires, disposed, SdkUnchanged
<1> QED
  BY <1>3, <1>4, <1>5, <1>6, <1>7, <1>8, <1>9, <1>10, <1>11 DEF Next

\* What runs although its websocket is closed runs on a closed session.
LEMMA RunsOnlyWhenClosed ==
    ASSUME NEW i \in Invocation, NEW x, NEW cn, NEW ss, Tied(i, x, cn, ss),
           cn[x.conn] = "closed", x.exec = "running"
    PROVE  ss[x.session].closed
<1>1. /\ x \in InvocationRecord /\ Core(x) /\ PcFacts(x) /\ SessionTie(x, ss)
      /\ ConnTie(x, cn, ss)
  BY DEF Tied, Sound
<1>2. x.ticket \in {"queued", "active", "terminal"} /\ x.session # None
  BY <1>1 DEF Core, TicketFacts, InvocationRecord
<1>3. CASE x.ticket = "terminal"
  <2>1. x.result = "error"
    BY <1>1, <1>3 DEF Core, TicketFacts, InvocationRecord
  <2> QED
    BY <1>1, <1>2, <2>1 DEF SessionTie
<1>4. CASE x.ticket \in {"queued", "active"}
  <2>1. x.pc = "running"
    BY <1>1, <1>4 DEF PcFacts
  <2>2. ~x.revokedTicket
    BY <1>1, <1>4 DEF Core, RevocationFacts
  <2> QED
    BY <1>1, <2>1, <2>2 DEF ConnTie
<1> QED
  BY <1>2, <1>3, <1>4

\* After the close event no request of the websocket starts on a session that is not
\* being torn down (NoStartAfterClose).
THEOREM NothingStartsAfterClose == Spec => NoStartAfterClose
<1> DEFINE A == \A i \in Started :
                    /\ conn[inv[i].conn] = "closed"
                    /\ inv[i].exec # "running" /\ inv'[i].exec = "running"
                    => session'[inv'[i].session].closed
<1>1. InvokeInv /\ [Next]_vars => [A]_vars
  <2> SUFFICES ASSUME InvokeInv, Next
               PROVE  A
    BY DEF vars
  <2> SUFFICES ASSUME NEW i \in Started, conn[inv[i].conn] = "closed",
                      inv'[i].exec = "running"
               PROVE  session'[inv'[i].session].closed
    OBVIOUS
  <2>1. i \in Invocation /\ inv[i] # None /\ inv[i] \in InvocationRecord
    BY DEF Started, InvokeInv, TypeOK
  <2>2. inv[i].conn \in Conn
    BY <2>1 DEF InvocationRecord
  <2>3. conn'[inv[i].conn] = "closed"
    BY <2>2, ClosedForGood
  <2>4. SafeStep
    BY NextIsSafe
  <2>5. inv'[i] # None /\ inv'[i].conn = inv[i].conn
    BY <2>1, <2>4 DEF SafeStep, SameWebsockets
  <2>6. Tied(i, inv'[i], conn', session')
    BY <2>1, <2>4, <2>5 DEF SafeStep, InvokeInv, RecordsKept
  <2>7. conn'[inv'[i].conn] = "closed"
    BY <2>3, <2>5
  <2>8. i \in Invocation /\ inv'[i].exec = "running"
    BY <2>1
  <2> QED
    BY ONLY <2>6, <2>7, <2>8, RunsOnlyWhenClosed
<1> QED
  BY <1>1, InvokeInvariance, PTL DEF Spec, NoStartAfterClose
=============================================================================
