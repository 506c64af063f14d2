-------------------------- MODULE HostInvokeProofs --------------------------
(***************************************************************************)
(* Proofs about module HostInvoke, for any number of websockets, requests, *)
(* gates and answers and for every limit.  The accounts and the timers of  *)
(* a request concern it alone: every method of the registry changes the    *)
(* entries of one request, or ends all those of one websocket.             *)
(***************************************************************************)
EXTENDS HostInvoke, FiniteSetTheorems, TLAPS

-----------------------------------------------------------------------------
(* The inductive invariant.                                                *)

LiveOn(g, s) == {r \in Req : g.inv[r].live /\ g.inv[r].socket = s}

\* The registry's maps are typed and the slots exact.
Sound(g) ==
    /\ g \in Registry
    /\ \A r \in Req : g.inv[r].live => g.inv[r].socket \in Sock
    /\ \A r \in Req : g.inv[r].stage # "none" => g.inv[r].gate # 0
    /\ \A s \in Sock : g.count[s] = Cardinality(LiveOn(g, s))

\* One request p, with the state sk of its websocket and dm of the daemon: its
\* result, whether it has a cancel frame out, and the presentations it has.
Kept(p, result, out, shown, dm, sk) ==
    /\ ~p.live => p = Ended(p) /\ ~out
    /\ p.live => result # "none" /\ sk # "none"
    /\ p.live /\ dm \notin {"owned", "revoked"} =>
          sk # "open" /\ p.cancellation = "none"
    /\ p.live /\ p.cancellation = "none" =>
          /\ result = "waiting" /\ ~out
          /\ "hard" \in p.timers /\ ("idle" \in p.timers <=> ~p.gatePending)
          /\ p.timers \cap {"receipt", "terminal"} = {}
          /\ p.stage = "awaiting_receipt" => p.gate \in shown
    /\ p.live /\ p.cancellation = "cancelled_before_start" => dm = "revoked"

Shown(g, r) == {k \in Gate : <<r, k>> \in g.presenting}

RequestKept(g, dm, sk, r) ==
    Kept(g.inv[r], g.result[r], r \in g.cancelling, Shown(g, r), dm[r],
         sk[g.inv[r].socket])

HostInv ==
    /\ TypeOK /\ Sound(reg) /\ refused = {}
    /\ current # 0 => sock[current] # "none"
    /\ \A r \in Req : RequestKept(reg, daemon, sock, r)

-----------------------------------------------------------------------------
(* Entries and slots.                                                      *)

\* What other requests see of a change to r.
OthersKept(g, h, r) ==
    \A q \in Req \ {r} :
        /\ h.inv[q] = g.inv[q] /\ h.result[q] = g.result[q]
        /\ q \in h.cancelling <=> q \in g.cancelling
        /\ Shown(h, q) = Shown(g, q)

\* A registry is its eight maps.
LEMMA RegistryFields ==
    ASSUME NEW g \in Registry
    PROVE  /\ g.inv \in [Req -> Pending] /\ g.result \in [Req -> Result]
           /\ g.count \in [Sock -> 0 .. Cardinality(Req)]
           /\ g.tombstones \subseteq Req /\ g.presenting \subseteq Req \X Gate
           /\ g.abandoning \subseteq Req \X Gate
           /\ g.answering \subseteq Req \X Gate \X (1 .. MaxAnswer)
           /\ g.cancelling \subseteq Req
BY DEF Registry

\* The counts are small enough for their type.
LEMMA LiveCounted ==
    ASSUME NEW g, NEW s
    PROVE  /\ IsFiniteSet(LiveOn(g, s)) /\ Cardinality(LiveOn(g, s)) \in Nat
           /\ Cardinality(LiveOn(g, s)) <= Cardinality(Req)
           /\ Cardinality(Req) \in Nat
BY HostInvokeAssumption, FS_Subset, FS_CardinalityType DEF LiveOn

\* A request keeps its websocket and its slot.
LEMMA SlotKept ==
    ASSUME NEW g, NEW h, Sound(g), h \in Registry, NEW r \in Req, NEW x,
           h.inv = [g.inv EXCEPT ![r] = x], h.count = g.count,
           x.live = g.inv[r].live, x.socket = g.inv[r].socket,
           x.stage # "none" => x.gate # 0
    PROVE  Sound(h)
<1>1. g.inv \in [Req -> Pending]
  BY RegistryFields DEF Sound
<1>2. h.inv[r] = x /\ \A q \in Req \ {r} : h.inv[q] = g.inv[q]
  BY <1>1
<1>3. \A q \in Req : h.inv[q].live = g.inv[q].live
                     /\ h.inv[q].socket = g.inv[q].socket
  BY <1>2
<1>4. \A s \in Sock : LiveOn(h, s) = LiveOn(g, s)
  BY <1>3 DEF LiveOn
<1> QED
  BY <1>2, <1>3, <1>4 DEF Sound

\* A request gives up its slot.
LEMMA SlotFreed ==
    ASSUME NEW g, NEW h, Sound(g), NEW r \in Req, g.inv[r].live,
           NEW x, x.live = FALSE,
           h.inv = [g.inv EXCEPT ![r] = x], 
           h.count = [g.count EXCEPT ![g.inv[r].socket] = @ - 1]
    PROVE  /\ h.count \in [Sock -> 0 .. Cardinality(Req)]
           /\ \A s \in Sock : h.count[s] = Cardinality(LiveOn(h, s))
           /\ \A q \in Req : h.inv[q].live => h.inv[q].socket \in Sock
<1> DEFINE t == g.inv[r].socket
<1>1. /\ g.inv \in [Req -> Pending] /\ t \in Sock
      /\ g.count \in [Sock -> 0 .. Cardinality(Req)]
  BY RegistryFields DEF Sound
<1>2. h.inv[r] = x /\ \A q \in Req \ {r} : h.inv[q] = g.inv[q]
  BY <1>1
<1>3. LiveOn(h, t) = LiveOn(g, t) \ {r} /\ r \in LiveOn(g, t)
  BY <1>2 DEF LiveOn
<1>4. \A s \in Sock \ {t} : LiveOn(h, s) = LiveOn(g, s)
  BY <1>2 DEF LiveOn
<1>5. Cardinality(LiveOn(h, t)) = Cardinality(LiveOn(g, t)) - 1
  <2>1. IsFiniteSet(LiveOn(g, t))
    BY LiveCounted
  <2> HIDE DEF t
  <2> QED
    BY <1>3, <2>1, FS_RemoveElement
<1>6. \A s \in Sock : g.count[s] = Cardinality(LiveOn(g, s))
  BY DEF Sound
<1>7. \A s \in Sock : h.count[s] = Cardinality(LiveOn(h, s))
  BY <1>1, <1>4, <1>5, <1>6
<1>8. h.count \in [Sock -> 0 .. Cardinality(Req)]
  <2>1. \A s \in Sock : h.count[s] \in 0 .. Cardinality(Req)
    BY <1>7, LiveCounted
  <2> QED
    BY <1>1, <2>1
<1> QED
  BY <1>2, <1>7, <1>8 DEF Sound

\* A request takes a slot.
LEMMA SlotTaken ==
    ASSUME NEW g, NEW h, Sound(g), NEW r \in Req, ~ g.inv[r].live,
           NEW t \in Sock, NEW x, x.live, x.socket = t,
           h.inv = [g.inv EXCEPT ![r] = x],
           h.count = [g.count EXCEPT ![t] = @ + 1]
    PROVE  /\ h.count \in [Sock -> 0 .. Cardinality(Req)]
           /\ \A s \in Sock : h.count[s] = Cardinality(LiveOn(h, s))
           /\ \A q \in Req : h.inv[q].live => h.inv[q].socket \in Sock
<1>1. /\ g.inv \in [Req -> Pending]
      /\ g.count \in [Sock -> 0 .. Cardinality(Req)]
  BY RegistryFields DEF Sound
<1>2. h.inv[r] = x /\ \A q \in Req \ {r} : h.inv[q] = g.inv[q]
  BY <1>1
<1>3. LiveOn(h, t) = LiveOn(g, t) \cup {r} /\ r \notin LiveOn(g, t)
  BY <1>2 DEF LiveOn
<1>4. \A s \in Sock \ {t} : LiveOn(h, s) = LiveOn(g, s)
  BY <1>2 DEF LiveOn
<1>5. Cardinality(LiveOn(h, t)) = Cardinality(LiveOn(g, t)) + 1
  <2>1. IsFiniteSet(LiveOn(g, t))
    BY LiveCounted
  <2> QED
    BY <1>3, <2>1, FS_AddElement
<1>6. \A s \in Sock : g.count[s] = Cardinality(LiveOn(g, s))
  BY DEF Sound
<1>7. \A s \in Sock : h.count[s] = Cardinality(LiveOn(h, s))
  BY <1>1, <1>4, <1>5, <1>6
<1>8. h.count \in [Sock -> 0 .. Cardinality(Req)]
  <2>1. \A s \in Sock : h.count[s] \in 0 .. Cardinality(Req)
    BY <1>7, LiveCounted
  <2> QED
    BY <1>1, <2>1
<1> QED
  BY <1>2, <1>7, <1>8 DEF Sound

-----------------------------------------------------------------------------
(* The methods.                                                            *)

\* The promise resolves once; only the wait timers change.
LEMMA SettleEffect ==
    ASSUME NEW g, Sound(g), NEW r \in Req,
           NEW how \in {"completed", "disposition", "disconnected", "unconfirmed"}
    PROVE  /\ Sound(settle(g, r, how)) /\ OthersKept(g, settle(g, r, how), r)
           /\ settle(g, r, how).inv[r] =
                 IF g.result[r] # "waiting" THEN g.inv[r]
                 ELSE [g.inv[r] EXCEPT !.timers = @ \ {"idle", "hard"}]
           /\ settle(g, r, how).result[r] # "waiting"
           /\ g.result[r] # "none" => settle(g, r, how).result[r] # "none"
           /\ settle(g, r, how).cancelling = g.cancelling
           /\ settle(g, r, how).presenting = g.presenting
           /\ settle(g, r, how).tombstones = g.tombstones
<1> DEFINE h == settle(g, r, how)
<1>1. g \in Registry
  BY DEF Sound
<1>2. CASE g.result[r] # "waiting"
  BY <1>2 DEF settle, OthersKept
<1>3. CASE g.result[r] = "waiting"
  <2> DEFINE x == [g.inv[r] EXCEPT !.timers = @ \ {"idle", "hard"}]
  <2>1. h = [g EXCEPT !.result = [@ EXCEPT ![r] = how],
                      !.inv = [@ EXCEPT ![r] = x]]
    BY <1>1, <1>3, RegistryFields DEF settle, Registry
  <2>2. /\ x \in Pending /\ x.live = g.inv[r].live
        /\ x.socket = g.inv[r].socket
        /\ x.stage = g.inv[r].stage /\ x.gate = g.inv[r].gate
    <3>1. g.inv[r] \in Pending
      BY <1>1, RegistryFields
    <3> QED
      BY <3>1 DEF Pending
  <2> HIDE DEF x, h
  <2>3. /\ h \in Registry /\ h.inv = [g.inv EXCEPT ![r] = x]
        /\ h.result = [g.result EXCEPT ![r] = how] /\ h.count = g.count
        /\ h.cancelling = g.cancelling /\ h.presenting = g.presenting
        /\ h.tombstones = g.tombstones
    BY <1>1, <2>1, <2>2 DEF Registry, Result
  <2>4. Sound(h)
    BY <2>2, <2>3, SlotKept DEF Sound
  <2>5. OthersKept(g, h, r) /\ h.inv[r] = x /\ h.result[r] = how
    BY <1>1, <2>3, RegistryFields DEF OthersKept, Shown
  <2> QED
    BY <1>3, <2>3, <2>4, <2>5 DEF h, x
<1> QED
  BY <1>2, <1>3

\* Effects on r add up, seen from the other requests.
LEMMA OthersTransitive ==
    ASSUME NEW f, NEW g, NEW h, NEW r, OthersKept(f, g, r), OthersKept(g, h, r)
    PROVE  OthersKept(f, h, r)
BY DEF OthersKept

\* What an ended request looks like.
LEMMA EndedEntry ==
    ASSUME NEW p \in Pending
    PROVE  /\ Ended(p) \in Pending /\ Ended(p).live = FALSE
           /\ Ended(p).socket = p.socket /\ Ended(p).stage = "none"
           /\ Ended(Ended(p)) = Ended(p)
<1>1. NoPending \in Pending
  BY HostInvokeAssumption DEF NoPending, Pending
<1> QED
  BY <1>1 DEF Ended, NoPending, Pending

\* The request leaves pendingRequests with its slot and its presentations.
LEMMA DeleteEffect ==
    ASSUME NEW g, Sound(g), NEW r \in Req
    PROVE  /\ Sound(deletePending(g, r)) /\ OthersKept(g, deletePending(g, r), r)
           /\ ~ deletePending(g, r).inv[r].live
           /\ g.inv[r].live =>
                 /\ deletePending(g, r).inv[r] =
                        Ended(deletePending(g, r).inv[r])
                 /\ r \notin deletePending(g, r).cancelling
           /\ ~ g.inv[r].live => deletePending(g, r) = g
<1> DEFINE h == deletePending(g, r)
<1>1. g \in Registry /\ g.inv[r] \in Pending
  BY RegistryFields DEF Sound
<1>2. CASE ~ g.inv[r].live
  BY <1>2 DEF deletePending, OthersKept
<1>3. CASE g.inv[r].live
  <2> DEFINE x == Ended(g.inv[r])
             c == [g.count EXCEPT ![g.inv[r].socket] = @ - 1]
             a == {b \in g.presenting : b[1] # r}
  <2>1. h = [g EXCEPT !.inv = [@ EXCEPT ![r] = x], !.presenting = a,
                      !.cancelling = @ \ {r}, !.count = c]
    BY <1>1, <1>3, RegistryFields DEF deletePending, Registry
  <2>2. x \in Pending /\ x.live = FALSE /\ Ended(x) = x /\ x.stage = "none"
    BY <1>1, EndedEntry
  <2>3. a \subseteq Req \X Gate
    BY <1>1, RegistryFields
  <2> HIDE DEF x, h, c, a
  <2>4. /\ h.inv = [g.inv EXCEPT ![r] = x] /\ h.count = c
        /\ h.presenting = a /\ h.cancelling = g.cancelling \ {r}
        /\ h.result = g.result
    BY <1>1, <2>1 DEF Registry
  <2>5. h.count = [g.count EXCEPT ![g.inv[r].socket] = @ - 1]
    BY <2>4 DEF c
  <2>6. /\ h.count \in [Sock -> 0 .. Cardinality(Req)]
        /\ \A s \in Sock : h.count[s] = Cardinality(LiveOn(h, s))
        /\ \A q \in Req : h.inv[q].live => h.inv[q].socket \in Sock
    BY <1>3, <2>2, <2>4, <2>5, SlotFreed
  <2>7. h \in Registry
    BY <1>1, <2>1, <2>2, <2>3, <2>4, <2>6 DEF Registry
  <2>8. Sound(h)
    <3>1. \A q \in Req : h.inv[q].stage # "none" => h.inv[q].gate # 0
      BY <1>1, <2>2, <2>4, RegistryFields DEF Sound
    <3> QED
      BY <2>6, <2>7, <3>1 DEF Sound
  <2>9. OthersKept(g, h, r)
    <3>1. \A q \in Req \ {r} : Shown(h, q) = Shown(g, q)
      BY <2>4 DEF Shown, a
    <3> QED
      BY <1>1, <2>4, <3>1, RegistryFields DEF OthersKept
  <2>10. h.inv[r] = x /\ r \notin h.cancelling
    BY <1>1, <2>4, RegistryFields
  <2> QED
    BY <1>3, <2>2, <2>8, <2>9, <2>10 DEF h
<1> QED
  BY <1>2, <1>3

\* Tombstones, answers and abandonments are read by nobody else.
LEMMA SideMaps ==
    ASSUME NEW g, Sound(g), NEW h \in Registry, NEW r,
           h.inv = g.inv, h.result = g.result, h.count = g.count,
           h.presenting = g.presenting, h.cancelling = g.cancelling
    PROVE  Sound(h) /\ OthersKept(g, h, r)
BY DEF Sound, LiveOn, OthersKept, Shown

\* A tracker is retired: the request ends, or stays for want of room.
LEMMA RetireEffect ==
    ASSUME NEW g, Sound(g), NEW r \in Req
    PROVE  LET h == retireCancellationTracker(g, r) IN
           /\ Sound(h) /\ OthersKept(g, h, r)
           /\ \/ ~ h.inv[r].live /\ h.inv[r] = Ended(h.inv[r])
                                /\ r \notin h.cancelling
              \/ ~ g.inv[r].live /\ h.inv[r] = g.inv[r]
                                /\ h.cancelling = g.cancelling
              \/ /\ h.inv[r] = g.inv[r] /\ h.result = g.result
                 /\ h.cancelling = g.cancelling /\ h.presenting = g.presenting
<1> DEFINE a == [g EXCEPT !.tombstones = @ \cup {r}]
           b == [g EXCEPT !.tombstones = @ \ {r}]
<1>1. g \in Registry
  BY DEF Sound
<1>2. /\ a \in Registry /\ a.inv = g.inv /\ a.result = g.result
      /\ a.count = g.count /\ a.presenting = g.presenting
      /\ a.cancelling = g.cancelling
  BY <1>1 DEF Registry
<1>3. /\ b \in Registry /\ b.inv = g.inv /\ b.result = g.result
      /\ b.count = g.count /\ b.presenting = g.presenting
      /\ b.cancelling = g.cancelling
  BY <1>1 DEF Registry
<1>4. \/ retireCancellationTracker(g, r) = deletePending(a, r)
      \/ retireCancellationTracker(g, r) = b
  BY DEF retireCancellationTracker
<1> HIDE DEF a, b
<1>5. /\ Sound(a) /\ OthersKept(g, a, r) /\ Sound(b) /\ OthersKept(g, b, r)
  BY <1>2, <1>3, SideMaps
<1>6. CASE retireCancellationTracker(g, r) = deletePending(a, r)
  BY <1>2, <1>5, <1>6, DeleteEffect, OthersTransitive
<1>7. CASE retireCancellationTracker(g, r) = b
  BY <1>3, <1>5, <1>7
<1> QED
  BY <1>4, <1>6, <1>7

\* A gate on show may be abandoned once.
LEMMA AbandonEffect ==
    ASSUME NEW g, Sound(g), NEW r \in Req
    PROVE  LET h == abandonGate(g, r) IN
           /\ Sound(h) /\ OthersKept(g, h, r) /\ h.result = g.result
           /\ h.presenting = g.presenting /\ h.cancelling = g.cancelling
           /\ \/ h.inv[r] = g.inv[r]
              \/ g.inv[r].stage # "none"
                   /\ h.inv[r] = [g.inv[r] EXCEPT !.abandoned = TRUE]
<1> DEFINE x == [g.inv[r] EXCEPT !.abandoned = TRUE]
           h == [g EXCEPT !.inv[r].abandoned = TRUE,
                          !.abandoning = @ \cup {<<r, g.inv[r].gate>>}]
<1>1. g \in Registry /\ g.inv[r] \in Pending
  BY RegistryFields DEF Sound
<1>2. CASE abandonGate(g, r) = g
  BY <1>2 DEF OthersKept
<1>3. CASE /\ abandonGate(g, r) = h /\ g.inv[r].stage # "none"
           /\ g.inv[r].gate # 0
  <2>1. /\ x \in Pending /\ x.live = g.inv[r].live
        /\ x.socket = g.inv[r].socket
        /\ x.stage = g.inv[r].stage /\ x.gate = g.inv[r].gate
    BY <1>1 DEF Pending
  <2>2. h = [g EXCEPT !.inv = [@ EXCEPT ![r] = x],
                      !.abandoning = @ \cup {<<r, g.inv[r].gate>>}]
    BY <1>1, RegistryFields DEF Registry
  <2>3. <<r, g.inv[r].gate>> \in Req \X Gate
    BY <1>1, <1>3 DEF Pending
  <2> HIDE DEF x, h
  <2>4. /\ h \in Registry /\ h.inv = [g.inv EXCEPT ![r] = x]
        /\ h.result = g.result /\ h.count = g.count
        /\ h.presenting = g.presenting /\ h.cancelling = g.cancelling
    BY <1>1, <2>1, <2>2, <2>3 DEF Registry
  <2>5. Sound(h)
    BY <1>3, <2>1, <2>4, SlotKept
  <2>6. OthersKept(g, h, r) /\ h.inv[r] = x
    BY <1>1, <2>4, RegistryFields DEF OthersKept, Shown
  <2> QED
    BY <1>3, <2>4, <2>5, <2>6 DEF x
<1>4. g.inv[r].stage # "none" => g.inv[r].gate # 0
  BY DEF Sound
<1> QED
  BY <1>2, <1>3, <1>4 DEF abandonGate

-----------------------------------------------------------------------------
(* Cancellation.                                                           *)

\* initiateCancellation on a live request nobody cancelled yet: it ends with
\* its promise, or waits for the receipt.
LEMMA CancelEffect ==
    ASSUME NEW g, Sound(g), NEW r \in Req, g.inv[r].live,
           g.inv[r].cancellation = "none", g.result[r] # "none"
    PROVE  LET h == initiateCancellation(g, r) IN
           /\ Sound(h) /\ OthersKept(g, h, r)
           /\ \/ ~ h.inv[r].live /\ h.inv[r] = Ended(h.inv[r])
                                /\ r \notin h.cancelling
              \/ /\ Writable(g, r) /\ h.inv[r].live
                 /\ h.inv[r].cancellation = "asked"
                 /\ h.inv[r].socket = g.inv[r].socket
                 /\ h.result[r] = g.result[r]
<1> DEFINE h == initiateCancellation(g, r)
           a == IF g.inv[r].gatePending THEN abandonGate(g, r) ELSE g
           b == [a EXCEPT !.inv[r].cancellation = "asked",
                   !.inv[r].timers = (@ \ {"idle", "hard"}) \cup {"receipt"},
                   !.cancelling = @ \cup {r}]
<1>1. CASE ~ Writable(g, r)
  <2>1. h = deletePending(settle(g, r, "disconnected"), r)
    BY <1>1 DEF initiateCancellation
  <2> DEFINE f == settle(g, r, "disconnected")
  <2>2. /\ Sound(f) /\ OthersKept(g, f, r)
        /\ f.inv[r] = IF g.result[r] # "waiting" THEN g.inv[r]
                      ELSE [g.inv[r] EXCEPT !.timers = @ \ {"idle", "hard"}]
    BY SettleEffect
  <2>3. g.inv[r] \in Pending
    BY RegistryFields DEF Sound
  <2>4. f.inv[r].live
    BY <2>2, <2>3 DEF Pending
  <2> HIDE DEF f
  <2>5. /\ Sound(deletePending(f, r)) /\ OthersKept(f, deletePending(f, r), r)
        /\ ~ deletePending(f, r).inv[r].live
        /\ deletePending(f, r).inv[r] = Ended(deletePending(f, r).inv[r])
        /\ r \notin deletePending(f, r).cancelling
    BY <2>2, <2>4, DeleteEffect
  <2>6. OthersKept(g, deletePending(f, r), r)
    BY <2>2, <2>5, OthersTransitive
  <2> QED
    BY <2>1, <2>5, <2>6 DEF f
<1>2. CASE Writable(g, r)
  <2>1. h = b
    BY <1>2 DEF initiateCancellation
  <2>2. /\ Sound(a) /\ OthersKept(g, a, r) /\ a.result = g.result
        /\ a.inv[r].live /\ a.inv[r].socket = g.inv[r].socket
        /\ a.presenting = g.presenting /\ a.cancelling = g.cancelling
    <3>1. g.inv[r] \in Pending
      BY RegistryFields DEF Sound
    <3>2. CASE g.inv[r].gatePending
      <4>1. a = abandonGate(g, r)
        BY <3>2
      <4> HIDE DEF a
      <4>2. /\ Sound(a) /\ OthersKept(g, a, r) /\ a.result = g.result
            /\ a.presenting = g.presenting /\ a.cancelling = g.cancelling
            /\ \/ a.inv[r] = g.inv[r]
               \/ a.inv[r] = [g.inv[r] EXCEPT !.abandoned = TRUE]
        BY <4>1, AbandonEffect
      <4> QED
        BY <3>1, <4>2 DEF Pending
    <3>3. CASE ~ g.inv[r].gatePending
      BY <3>3 DEF OthersKept
    <3> QED
      BY <3>2, <3>3
  <2> HIDE DEF a
  <2> DEFINE x == [a.inv[r] EXCEPT !.cancellation = "asked",
                     !.timers = (@ \ {"idle", "hard"}) \cup {"receipt"}]
  <2>3. a \in Registry /\ a.inv[r] \in Pending
    BY <2>2, RegistryFields DEF Sound
  <2>4. b = [a EXCEPT !.inv = [@ EXCEPT ![r] = x], !.cancelling = @ \cup {r}]
    BY <2>3, RegistryFields DEF Registry
  <2>5. /\ x \in Pending /\ x.live = a.inv[r].live /\ x.socket = a.inv[r].socket
        /\ x.cancellation = "asked"
        /\ x.stage = a.inv[r].stage /\ x.gate = a.inv[r].gate
    BY <2>3 DEF Pending
  <2> HIDE DEF x, b
  <2>6. /\ b \in Registry /\ b.inv = [a.inv EXCEPT ![r] = x]
        /\ b.result = a.result /\ b.count = a.count
        /\ b.presenting = a.presenting /\ b.cancelling = a.cancelling \cup {r}
    BY <2>3, <2>4, <2>5 DEF Registry
  <2>7. Sound(b)
    <3>1. x.stage # "none" => x.gate # 0
      BY <2>2, <2>5 DEF Sound
    <3> QED
      BY <2>2, <2>5, <2>6, <3>1, SlotKept
  <2>8. OthersKept(a, b, r) /\ b.inv[r] = x
    BY <2>3, <2>6, RegistryFields DEF OthersKept, Shown
  <2>9. OthersKept(g, b, r)
    BY <2>2, <2>8, OthersTransitive
  <2> QED
    BY <1>2, <2>1, <2>2, <2>5, <2>6, <2>7, <2>8, <2>9
<1> QED
  BY <1>1, <1>2

\* Whatever was done to timers and gate of a request before, cancelling it
\* leaves it as it must be.
LEMMA CancellationKept ==
    ASSUME HostInv, NEW r \in Req, NEW g, Sound(g), OthersKept(reg, g, r),
           g.inv[r].live = reg.inv[r].live,
           g.inv[r].socket = reg.inv[r].socket,
           g.inv[r].cancellation = reg.inv[r].cancellation,
           ~ reg.inv[r].live => g.inv[r] = reg.inv[r],
           g.result[r] = reg.result[r],
           r \in g.cancelling <=> r \in reg.cancelling
    PROVE  LET h == initiateCancellation(g, r) IN
           Sound(h) /\ OthersKept(reg, h, r) /\ RequestKept(h, daemon, sock, r)
<1> DEFINE h == initiateCancellation(g, r)
<1>1. RequestKept(reg, daemon, sock, r)
  BY DEF HostInv
<1>2. CASE ~ g.inv[r].live
  BY <1>1, <1>2 DEF initiateCancellation, RequestKept, Kept
<1>3. CASE g.inv[r].live /\ g.inv[r].cancellation # "none"
  BY <1>1, <1>3 DEF initiateCancellation, RequestKept, Kept
<1>4. CASE g.inv[r].live /\ g.inv[r].cancellation = "none"
  <2>1. /\ reg.result[r] # "none" /\ sock[reg.inv[r].socket] # "none"
        /\ daemon[r] \notin {"owned", "revoked"} => sock[reg.inv[r].socket] # "open"
    BY <1>1, <1>4 DEF RequestKept, Kept
  <2>2. /\ Sound(h) /\ OthersKept(g, h, r)
        /\ \/ ~ h.inv[r].live /\ h.inv[r] = Ended(h.inv[r])
                             /\ r \notin h.cancelling
           \/ /\ Writable(g, r) /\ h.inv[r].live
              /\ h.inv[r].cancellation = "asked"
              /\ h.inv[r].socket = g.inv[r].socket
              /\ h.result[r] = g.result[r]
    BY <1>4, <2>1, CancelEffect
  <2> HIDE DEF h
  <2>3. OthersKept(reg, h, r)
    BY <2>2, OthersTransitive
  <2>4. RequestKept(h, daemon, sock, r)
    BY <2>1, <2>2 DEF RequestKept, Kept, Writable
  <2> QED
    BY <2>2, <2>3, <2>4 DEF h
<1> QED
  BY <1>2, <1>3, <1>4

\* The same after a presentation that failed.
LEMMA PresentationFailedKept ==
    ASSUME HostInv, NEW r \in Req, NEW g, Sound(g), OthersKept(reg, g, r),
           g.inv[r] = reg.inv[r], g.result[r] = reg.result[r],
           r \in g.cancelling <=> r \in reg.cancelling
    PROVE  LET h == presentationFailed(g, r) IN
           Sound(h) /\ OthersKept(reg, h, r) /\ RequestKept(h, daemon, sock, r)
<1> DEFINE a == abandonGate(g, r)
<1>1. /\ Sound(a) /\ OthersKept(g, a, r) /\ a.result = g.result
      /\ a.cancelling = g.cancelling
      /\ \/ a.inv[r] = g.inv[r]
         \/ g.inv[r].stage # "none"
              /\ a.inv[r] = [g.inv[r] EXCEPT !.abandoned = TRUE]
  BY AbandonEffect
<1> HIDE DEF a
<1>2. g.inv[r] \in Pending
  BY RegistryFields DEF Sound
<1>3. OthersKept(reg, a, r)
  BY <1>1, OthersTransitive
<1>4. ~ reg.inv[r].live => reg.inv[r].stage = "none"
  <2>1. ~ reg.inv[r].live => reg.inv[r] = Ended(reg.inv[r])
    BY DEF HostInv, RequestKept, Kept
  <2>2. reg.inv[r] \in Pending
    BY <1>2
  <2>3. Ended(reg.inv[r]).stage = "none"
    BY <2>2, EndedEntry
  <2> QED
    BY <2>1, <2>3
<1>5. /\ a.inv[r].live = reg.inv[r].live
      /\ a.inv[r].socket = reg.inv[r].socket
      /\ a.inv[r].cancellation = reg.inv[r].cancellation
      /\ ~ reg.inv[r].live => a.inv[r] = reg.inv[r]
      /\ a.result[r] = reg.result[r]
      /\ r \in a.cancelling <=> r \in reg.cancelling
  BY <1>1, <1>2, <1>4 DEF Pending
<1>6. presentationFailed(g, r) = initiateCancellation(a, r)
  BY DEF presentationFailed, a
<1> QED
  BY <1>1, <1>3, <1>5, <1>6, CancellationKept

-----------------------------------------------------------------------------
(* Steps of one request.                                                   *)

\* Only r and its entry at the daemon change.
LEMMA RequestMoves ==
    ASSUME HostInv, NEW r \in Req, Sound(reg'), OthersKept(reg, reg', r),
           UNCHANGED <<current, known, beat, shut>>, refused' = {},
           sock' = sock,
           daemon' \in [Req -> {"none", "owned", "revoked", "over"}],
           \A q \in Req \ {r} : daemon'[q] = daemon[q],
           RequestKept(reg', daemon', sock, r)
    PROVE  HostInv'
<1>1. \A q \in Req \ {r} : RequestKept(reg', daemon', sock, q)
  BY DEF HostInv, OthersKept, RequestKept
<1>2. \A q \in Req : RequestKept(reg', daemon', sock', q)
  BY <1>1
<1>3. TypeOK'
  BY DEF HostInv, TypeOK, Sound
<1> QED
  BY <1>2, <1>3 DEF HostInv

\* The daemon is not concerned either.
LEMMA QuietMoves ==
    ASSUME HostInv, NEW r \in Req, Sound(reg'), OthersKept(reg, reg', r), Quiet,
           RequestKept(reg', daemon, sock, r)
    PROVE  HostInv'
<1>1. /\ UNCHANGED <<current, known, beat, shut>> /\ refused' = {}
      /\ sock' = sock /\ daemon' = daemon
      /\ daemon' \in [Req -> {"none", "owned", "revoked", "over"}]
  BY DEF Quiet, HostInv, TypeOK
<1> QED
  BY <1>1, RequestMoves

\* What is known of any request.
LEMMA EntryTyped ==
    ASSUME HostInv, NEW r \in Req
    PROVE  /\ reg \in Registry /\ Sound(reg) /\ reg.inv[r] \in Pending
           /\ reg.inv \in [Req -> Pending] /\ reg.result \in [Req -> Result]
           /\ RequestKept(reg, daemon, sock, r) /\ OthersKept(reg, reg, r)
BY RegistryFields DEF HostInv, Sound, OthersKept

\* The timers of r change and nothing else.
LEMMA TimersChange ==
    ASSUME HostInv, NEW r \in Req,
           NEW T \in SUBSET {"idle", "hard", "receipt", "terminal"}
    PROVE  LET g == [reg EXCEPT !.inv[r].timers = T] IN
           /\ Sound(g) /\ OthersKept(reg, g, r) /\ g.result = reg.result
           /\ g.cancelling = reg.cancelling /\ g.presenting = reg.presenting
           /\ g.inv[r] = [reg.inv[r] EXCEPT !.timers = T]
<1> DEFINE x == [reg.inv[r] EXCEPT !.timers = T]
           g == [reg EXCEPT !.inv[r].timers = T]
<1>1. /\ reg \in Registry /\ Sound(reg) /\ reg.inv[r] \in Pending
      /\ reg.inv \in [Req -> Pending]
  BY EntryTyped
<1>2. /\ x \in Pending /\ x.live = reg.inv[r].live
      /\ x.socket = reg.inv[r].socket
      /\ x.stage = reg.inv[r].stage /\ x.gate = reg.inv[r].gate
  BY <1>1 DEF Pending
<1>3. g = [reg EXCEPT !.inv = [@ EXCEPT ![r] = x]]
  BY <1>1 DEF Registry
<1> HIDE DEF x, g
<1>4. /\ g \in Registry /\ g.inv = [reg.inv EXCEPT ![r] = x]
      /\ g.result = reg.result /\ g.count = reg.count
      /\ g.cancelling = reg.cancelling /\ g.presenting = reg.presenting
  BY <1>1, <1>2, <1>3 DEF Registry
<1>5. x.stage # "none" => x.gate # 0
  BY <1>1, <1>2 DEF Sound
<1>6. Sound(g)
  BY <1>1, <1>2, <1>4, <1>5, SlotKept
<1>7. OthersKept(reg, g, r) /\ g.inv[r] = x
  BY <1>1, <1>4 DEF OthersKept, Shown
<1> QED
  BY <1>4, <1>6, <1>7 DEF g, x

\* An ended request has no timer armed.
LEMMA EndedTimers ==
    ASSUME HostInv, NEW r \in Req, ~ reg.inv[r].live
    PROVE  /\ reg.inv[r].timers = {} /\ reg.inv[r].cancellation = "none"
           /\ reg.inv[r].stage = "none" /\ reg.inv[r].gate = 0
           /\ reg.inv[r].gatePending = FALSE /\ r \notin reg.cancelling
<1>1. reg.inv[r] = Ended(reg.inv[r]) /\ r \notin reg.cancelling
  BY DEF HostInv, RequestKept, Kept
<1>2. /\ Ended(reg.inv[r]).timers = {} /\ Ended(reg.inv[r]).stage = "none"
      /\ Ended(reg.inv[r]).cancellation = "none" /\ Ended(reg.inv[r]).gate = 0
      /\ Ended(reg.inv[r]).gatePending = FALSE
  BY DEF Ended, NoPending
<1> QED
  BY <1>1, <1>2

\* /cancel, and the caller's abort.
LEMMA CancelInvokeStep ==
    ASSUME HostInv, NEW r \in Req, cancelInvoke(r)
    PROVE  HostInv'
<1> DEFINE h == initiateCancellation(reg, r)
<1>1. Sound(h) /\ OthersKept(reg, h, r) /\ RequestKept(h, daemon, sock, r)
  BY EntryTyped, CancellationKept
<1> HIDE DEF h
<1>2. reg' = h /\ Quiet
  BY DEF cancelInvoke, h
<1> QED
  BY <1>1, <1>2, QuietMoves

\* The idle timer, and the hard cap.
LEMMA WaitTimerStep ==
    ASSUME HostInv, NEW r \in Req, idleFires(r) \/ hardFires(r)
    PROVE  HostInv'
<1>1. PICK t \in {"idle", "hard"} :
         /\ t \in reg.inv[r].timers /\ Quiet
         /\ reg' = initiateCancellation(
                [reg EXCEPT !.inv[r].timers = @ \ {t}], r)
  BY DEF idleFires, hardFires
<1> DEFINE T == reg.inv[r].timers \ {t}
           g == [reg EXCEPT !.inv[r].timers = T]
           h == initiateCancellation(g, r)
<1>2. reg.inv[r] \in Pending /\ reg \in Registry /\ reg.inv \in [Req -> Pending]
  BY EntryTyped
<1>3. T \in SUBSET {"idle", "hard", "receipt", "terminal"}
  BY <1>2 DEF Pending
<1>4. reg' = h
  BY <1>1
<1>5. reg.inv[r].live
  BY <1>1, EndedTimers
<1> HIDE DEF T
<1>6. /\ Sound(g) /\ OthersKept(reg, g, r) /\ g.result = reg.result
      /\ g.cancelling = reg.cancelling
      /\ g.inv[r] = [reg.inv[r] EXCEPT !.timers = T]
  BY <1>3, TimersChange
<1> HIDE DEF g
<1>7. /\ g.inv[r].live = reg.inv[r].live
      /\ g.inv[r].socket = reg.inv[r].socket
      /\ g.inv[r].cancellation = reg.inv[r].cancellation
  BY <1>2, <1>6 DEF Pending
<1>8. Sound(h) /\ OthersKept(reg, h, r) /\ RequestKept(h, daemon, sock, r)
  BY <1>5, <1>6, <1>7, CancellationKept
<1> HIDE DEF h
<1> QED
  BY <1>1, <1>4, <1>8, QuietMoves

\* A promise resolves unconfirmed and its tracker is retired: the request was
\* cancelled, and the daemon still owes its terminal.
LEMMA TrackerRetired ==
    ASSUME HostInv, NEW r \in Req, reg.inv[r].live,
           reg.inv[r].cancellation # "none",
           NEW g, Sound(g), OthersKept(reg, g, r),
           g.inv[r].live, g.inv[r].socket = reg.inv[r].socket,
           g.inv[r].cancellation = reg.inv[r].cancellation,
           g.result[r] # "none"
    PROVE  LET h == retireCancellationTracker(settle(g, r, "unconfirmed"), r) IN
           Sound(h) /\ OthersKept(reg, h, r) /\ RequestKept(h, daemon, sock, r)
<1> DEFINE f == settle(g, r, "unconfirmed")
           h == retireCancellationTracker(f, r)
<1>1. /\ Sound(f) /\ OthersKept(g, f, r) /\ f.result[r] # "none"
      /\ f.inv[r] = IF g.result[r] # "waiting" THEN g.inv[r]
                    ELSE [g.inv[r] EXCEPT !.timers = @ \ {"idle", "hard"}]
  BY SettleEffect
<1> HIDE DEF f
<1>2. g.inv[r] \in Pending
  BY RegistryFields DEF Sound
<1>3. /\ f.inv[r].live /\ f.inv[r].socket = reg.inv[r].socket
      /\ f.inv[r].cancellation = reg.inv[r].cancellation
  BY <1>1, <1>2 DEF Pending
<1>4. /\ Sound(h) /\ OthersKept(f, h, r)
      /\ \/ ~ h.inv[r].live /\ h.inv[r] = Ended(h.inv[r])
                           /\ r \notin h.cancelling
         \/ ~ f.inv[r].live
         \/ h.inv[r] = f.inv[r] /\ h.result = f.result
  BY <1>1, RetireEffect
<1> HIDE DEF h
<1>5. OthersKept(reg, h, r)
  BY <1>1, <1>4, OthersTransitive
<1>6. RequestKept(reg, daemon, sock, r)
  BY EntryTyped
<1>7. RequestKept(h, daemon, sock, r)
  BY <1>1, <1>3, <1>4, <1>6 DEF RequestKept, Kept
<1> QED
  BY <1>4, <1>5, <1>7 DEF h, f

\* The receipt timer and, after a receipt, the terminal timer.
LEMMA ReceiptTimerStep ==
    ASSUME HostInv, NEW r \in Req, receiptFires(r)
    PROVE  HostInv'
<1> DEFINE T == reg.inv[r].timers \ {"receipt", "terminal"}
           g == [reg EXCEPT !.inv[r].timers = T]
           h == retireCancellationTracker(settle(g, r, "unconfirmed"), r)
<1>1. /\ reg.inv[r].live /\ Quiet /\ reg' = h
      /\ reg.inv[r].timers \cap {"receipt", "terminal"} # {}
  BY DEF receiptFires
<1>2. /\ reg.inv[r] \in Pending /\ RequestKept(reg, daemon, sock, r)
      /\ T \in SUBSET {"idle", "hard", "receipt", "terminal"}
  BY EntryTyped DEF Pending
<1>3. reg.inv[r].cancellation # "none" /\ reg.result[r] # "none"
  BY <1>1, <1>2 DEF RequestKept, Kept
<1> HIDE DEF T
<1>4. /\ Sound(g) /\ OthersKept(reg, g, r) /\ g.result = reg.result
      /\ g.inv[r] = [reg.inv[r] EXCEPT !.timers = T]
  BY <1>2, TimersChange
<1> HIDE DEF g
<1>5. /\ g.inv[r].live /\ g.inv[r].socket = reg.inv[r].socket
      /\ g.inv[r].cancellation = reg.inv[r].cancellation
  BY <1>1, <1>2, <1>4 DEF Pending
<1>6. Sound(h) /\ OthersKept(reg, h, r) /\ RequestKept(h, daemon, sock, r)
  BY <1>1, <1>3, <1>4, <1>5, TrackerRetired
<1> HIDE DEF h
<1> QED
  BY <1>1, <1>6, QuietMoves

\* Steps that touch nothing but tombstones, answers and abandonments.
LEMMA SideStep ==
    ASSUME HostInv, Quiet, reg' \in Registry, reg'.inv = reg.inv,
           reg'.result = reg.result, reg'.count = reg.count,
           reg'.presenting = reg.presenting, reg'.cancelling = reg.cancelling
    PROVE  HostInv'
<1>1. Sound(reg) /\ Sound(reg')
  BY DEF HostInv, Sound, LiveOn
<1>2. \A q \in Req : RequestKept(reg', daemon', sock', q)
  BY DEF HostInv, RequestKept, Shown, Quiet
<1>3. TypeOK' /\ refused' = {} /\ (current' # 0 => sock'[current'] # "none")
  BY DEF HostInv, TypeOK, Quiet
<1> QED
  BY <1>1, <1>2, <1>3 DEF HostInv

\* A tombstone's time is over; an answer or an abandonment was not confirmed.
LEMMA ForgetStep ==
    ASSUME HostInv, NEW r \in Req,
           \/ tombstoneExpires(r)
           \/ \E p \in Gate : abandonTimeout(r, p) \/ acceptGateAbandonResult(r, p)
           \/ \E p \in Gate, k \in 1 .. MaxAnswer : answerTimeout(<<r, p, k>>)
    PROVE  HostInv'
<1>1. reg \in Registry
  BY EntryTyped
<1>2. CASE tombstoneExpires(r)
  <2>1. reg' = [reg EXCEPT !.tombstones = @ \ {r}] /\ Quiet
    BY <1>2 DEF tombstoneExpires
  <2> QED
    BY <1>1, <2>1, SideStep DEF Registry
<1>3. ASSUME NEW p \in Gate, abandonTimeout(r, p) \/ acceptGateAbandonResult(r, p)
      PROVE  HostInv'
  <2>1. reg' = [reg EXCEPT !.abandoning = @ \ {<<r, p>>}] /\ Quiet
    BY <1>3 DEF abandonTimeout, acceptGateAbandonResult
  <2> QED
    BY <1>1, <2>1, SideStep DEF Registry
<1>4. ASSUME NEW a, answerTimeout(a)
      PROVE  HostInv'
  <2>1. reg' = [reg EXCEPT !.answering = @ \ {a}] /\ Quiet
    BY <1>4 DEF answerTimeout, settleGateAnswer
  <2> QED
    BY <1>1, <2>1, SideStep DEF Registry
<1> QED
  BY <1>2, <1>3, <1>4

-----------------------------------------------------------------------------
(* Gates.                                                                  *)

\* The entry of r changes, with its presentation of gate k and its cancel
\* frame.
LEMMA EntryChanges ==
    ASSUME HostInv, NEW r \in Req, NEW x, NEW k, NEW h \in Registry,
           x.live = reg.inv[r].live, x.socket = reg.inv[r].socket,
           x.stage # "none" => x.gate # 0,
           h.inv = [reg.inv EXCEPT ![r] = x],
           h.result = reg.result, h.count = reg.count,
           \/ h.presenting = reg.presenting
           \/ h.presenting = reg.presenting \cup {<<r, k>>}
           \/ h.presenting = reg.presenting \ {<<r, k>>},
           h.cancelling = reg.cancelling \/ h.cancelling = reg.cancelling \ {r}
    PROVE  Sound(h) /\ OthersKept(reg, h, r) /\ h.inv[r] = x
<1>1. reg.inv \in [Req -> Pending] /\ Sound(reg)
  BY EntryTyped
<1>2. Sound(h)
  BY <1>1, SlotKept
<1>3. \A q \in Req \ {r} : Shown(h, q) = Shown(reg, q)
  BY DEF Shown
<1> QED
  BY <1>1, <1>2, <1>3 DEF OthersKept

\* The gate's message is posted and the gate offered to the daemon, or its
\* request is taken down.
LEMMA PresentGateStep ==
    ASSUME HostInv, NEW r \in Req, presentGate(r)
    PROVE  HostInv'
<1>1. /\ reg.inv[r] \in Pending /\ reg \in Registry
      /\ reg.inv \in [Req -> Pending] /\ RequestKept(reg, daemon, sock, r)
      /\ Sound(reg) /\ OthersKept(reg, reg, r)
  BY EntryTyped
<1>2. Quiet /\ reg.inv[r].stage = "awaiting_handle" /\ reg.inv[r].live
  BY DEF presentGate
<1>3. CASE reg' = presentationFailed(reg, r)
  BY <1>1, <1>2, <1>3, PresentationFailedKept, QuietMoves
<1> DEFINE k == reg.inv[r].gate
<1>4. CASE reg' = [reg EXCEPT !.inv[r].stage = "awaiting_receipt",
                              !.presenting = @ \cup {<<r, k>>}]
  <2> DEFINE x == [reg.inv[r] EXCEPT !.stage = "awaiting_receipt"]
  <2>1. k \in Gate
    BY <1>1, <1>2 DEF Sound, Pending
  <2>2. /\ x \in Pending /\ x.live = reg.inv[r].live
        /\ x.socket = reg.inv[r].socket /\ x.gate = k
        /\ x.cancellation = reg.inv[r].cancellation
        /\ x.timers = reg.inv[r].timers
        /\ x.gatePending = reg.inv[r].gatePending
    BY <1>1 DEF Pending
  <2>3. reg' = [reg EXCEPT !.inv = [@ EXCEPT ![r] = x],
                           !.presenting = @ \cup {<<r, k>>}]
    BY <1>1, <1>4 DEF Registry
  <2> HIDE DEF x, k
  <2> DEFINE A == reg.presenting \cup {<<r, k>>}
  <2>4. A \in SUBSET (Req \X Gate) /\ reg' = [reg EXCEPT
            !.inv = [@ EXCEPT ![r] = x], !.presenting = A]
    BY <1>1, <2>1, <2>3, RegistryFields
  <2> HIDE DEF A
  <2>5. /\ reg' \in Registry /\ reg'.inv = [reg.inv EXCEPT ![r] = x]
        /\ reg'.result = reg.result /\ reg'.count = reg.count
        /\ reg'.presenting = A /\ reg'.cancelling = reg.cancelling
    BY <1>1, <2>2, <2>4 DEF Registry
  <2>6. x.gate # 0
    BY <2>1, <2>2 DEF Gate
  <2>7. Sound(reg') /\ OthersKept(reg, reg', r) /\ reg'.inv[r] = x
    <3>1. Sound(reg')
      BY <1>1, <2>2, <2>5, <2>6, SlotKept
    <3>2. \A q \in Req \ {r} : Shown(reg', q) = Shown(reg, q)
      BY <2>5 DEF Shown, A
    <3> QED
      BY <1>1, <2>5, <3>1, <3>2 DEF OthersKept
  <2>8. x.gate \in Shown(reg', r)
    BY <2>1, <2>2, <2>5 DEF Shown, A
  <2>9. RequestKept(reg', daemon, sock, r)
    BY <1>1, <1>2, <2>2, <2>5, <2>7, <2>8 DEF RequestKept, Kept
  <2> QED
    BY <1>2, <2>7, <2>9, QuietMoves
<1> QED
  BY <1>3, <1>4 DEF presentGate

\* onGate or activate() failed.
LEMMA HandleFailsStep ==
    ASSUME HostInv, NEW r \in Req, handleFails(r)
    PROVE  HostInv'
<1>1. Sound(reg) /\ OthersKept(reg, reg, r)
  BY EntryTyped
<1> QED
  BY <1>1, PresentationFailedKept, QuietMoves DEF handleFails

\* An attempt to present gate p is over, and p is the gate on show or not.
LEMMA AttemptOver ==
    ASSUME HostInv, NEW r \in Req, NEW p \in Gate
    PROVE  LET g == [reg EXCEPT !.presenting = @ \ {<<r, p>>}] IN
           /\ Sound(g) /\ OthersKept(reg, g, r) /\ g.inv = reg.inv
           /\ g.result = reg.result /\ g.cancelling = reg.cancelling
           /\ g.count = reg.count /\ g.presenting = reg.presenting \ {<<r, p>>}
           /\ reg.inv[r].gate # p => RequestKept(g, daemon, sock, r)
<1> DEFINE g == [reg EXCEPT !.presenting = @ \ {<<r, p>>}]
<1>1. /\ reg \in Registry /\ reg.inv \in [Req -> Pending] /\ Sound(reg)
      /\ RequestKept(reg, daemon, sock, r)
  BY EntryTyped
<1>2. /\ g \in Registry /\ g.inv = reg.inv /\ g.result = reg.result
      /\ g.count = reg.count /\ g.cancelling = reg.cancelling
      /\ g.presenting = reg.presenting \ {<<r, p>>}
  BY <1>1 DEF Registry
<1> HIDE DEF g
<1>3. Sound(g)
  BY <1>1, <1>2 DEF Sound, LiveOn
<1>4. OthersKept(reg, g, r)
  BY <1>2 DEF OthersKept, Shown
<1>5. ASSUME reg.inv[r].gate # p PROVE RequestKept(g, daemon, sock, r)
  <2>1. reg.inv[r].gate \in Shown(reg, r) => reg.inv[r].gate \in Shown(g, r)
    BY <1>2, <1>5 DEF Shown
  <2> QED
    BY <1>1, <1>2, <2>1 DEF RequestKept, Kept
<1> QED
  BY <1>2, <1>3, <1>4, <1>5 DEF g

\* No receipt of the presentation in time: the gate on show takes its request
\* down, a gate replaced since does not.
LEMMA PresentationTimeoutStep ==
    ASSUME HostInv, NEW r \in Req, NEW p \in Gate, presentationTimeout(r, p)
    PROVE  HostInv'
<1> DEFINE g == [reg EXCEPT !.presenting = @ \ {<<r, p>>}]
<1>1. /\ Sound(g) /\ OthersKept(reg, g, r) /\ g.inv = reg.inv
      /\ g.result = reg.result /\ g.cancelling = reg.cancelling
      /\ reg.inv[r].gate # p => RequestKept(g, daemon, sock, r)
  BY AttemptOver
<1>2. /\ Quiet
      /\ \/ g.inv[r].gate = p /\ reg' = presentationFailed(g, r)
         \/ g.inv[r].gate # p /\ reg' = g
  BY DEF presentationTimeout
<1> HIDE DEF g
<1>3. CASE reg' = presentationFailed(g, r)
  BY <1>1, <1>2, <1>3, PresentationFailedKept, QuietMoves
<1>4. CASE g.inv[r].gate # p /\ reg' = g
  BY <1>1, <1>2, <1>4, QuietMoves
<1> QED
  BY <1>2, <1>3, <1>4

\* The receipt of a presentation: late ones of other gates change nothing.
LEMMA PresentationResultStep ==
    ASSUME HostInv, NEW r \in Req, NEW p \in Gate, NEW accepted \in BOOLEAN,
           acceptGatePresentationResult(r, p, accepted)
    PROVE  HostInv'
<1> DEFINE g == [reg EXCEPT !.presenting = @ \ {<<r, p>>}]
<1>1. /\ Sound(g) /\ OthersKept(reg, g, r) /\ g.inv = reg.inv
      /\ g.result = reg.result /\ g.cancelling = reg.cancelling
      /\ g.count = reg.count /\ g.presenting = reg.presenting \ {<<r, p>>}
      /\ reg.inv[r].gate # p => RequestKept(g, daemon, sock, r)
  BY AttemptOver
<1>2. /\ Quiet
      /\ \/ g.inv[r].gate # p /\ reg' = g
         \/ g.inv[r].gate = p /\ reg' = [g EXCEPT !.inv[r].stage = "accepted"]
         \/ g.inv[r].gate = p /\ reg' = presentationFailed(g, r)
  BY DEF acceptGatePresentationResult
<1>3. /\ reg.inv[r] \in Pending /\ reg \in Registry
      /\ reg.inv \in [Req -> Pending] /\ RequestKept(reg, daemon, sock, r)
  BY EntryTyped
<1> HIDE DEF g
<1>4. CASE reg' = presentationFailed(g, r)
  BY <1>1, <1>2, <1>4, PresentationFailedKept, QuietMoves
<1>5. CASE g.inv[r].gate # p /\ reg' = g
  BY <1>1, <1>2, <1>5, QuietMoves
<1>6. CASE g.inv[r].gate = p /\ reg' = [g EXCEPT !.inv[r].stage = "accepted"]
  <2> DEFINE x == [reg.inv[r] EXCEPT !.stage = "accepted"]
  <2>1. /\ x \in Pending /\ x.live = reg.inv[r].live /\ x.stage = "accepted"
        /\ x.socket = reg.inv[r].socket /\ x.gate = reg.inv[r].gate
        /\ x.cancellation = reg.inv[r].cancellation
        /\ x.timers = reg.inv[r].timers
        /\ x.gatePending = reg.inv[r].gatePending
    BY <1>3 DEF Pending
  <2>2. g \in Registry
    BY <1>1 DEF Sound
  <2>3. reg' = [g EXCEPT !.inv = [@ EXCEPT ![r] = x]]
    BY <1>1, <1>6, <2>2 DEF Registry
  <2> HIDE DEF x
  <2>4. /\ reg' \in Registry /\ reg'.inv = [reg.inv EXCEPT ![r] = x]
        /\ reg'.result = reg.result /\ reg'.count = reg.count
        /\ reg'.presenting = reg.presenting \ {<<r, p>>}
        /\ reg'.cancelling = reg.cancelling
    BY <1>1, <2>1, <2>2, <2>3 DEF Registry
  <2>5. x.gate # 0
    BY <1>1, <1>6, <2>1 DEF Gate
  <2>6. Sound(reg') /\ OthersKept(reg, reg', r) /\ reg'.inv[r] = x
    BY <2>1, <2>4, <2>5, EntryChanges
  <2>7. reg.inv[r].live
    BY <1>1, <1>6, <2>1, <2>5, EndedTimers
  <2>8. RequestKept(reg', daemon, sock, r)
    BY <1>3, <2>1, <2>4, <2>6, <2>7 DEF RequestKept, Kept
  <2> QED
    BY <1>2, <2>6, <2>8, QuietMoves
<1> QED
  BY <1>2, <1>4, <1>5, <1>6

\* A new gate suspends the idle timer and replaces the gate before it.
LEMMA GateRequestStep ==
    ASSUME HostInv, NEW r \in Req, NEW p \in Gate, gateRequest(r, p)
    PROVE  HostInv'
<1> DEFINE a == abandonGate(reg, r)
           x == [a.inv[r] EXCEPT !.gatePending = TRUE, !.gate = p,
                   !.abandoned = FALSE, !.stage = "awaiting_handle",
                   !.tries = 0, !.timers = @ \ {"idle"}]
<1>1. Quiet /\ reg.inv[r].live /\ reg.inv[r].cancellation = "none"
  BY DEF gateRequest
<1>2. reg' = [a EXCEPT !.inv[r] = x]
  BY DEF gateRequest
<1>3. /\ reg.inv[r] \in Pending /\ reg \in Registry /\ Sound(reg)
      /\ RequestKept(reg, daemon, sock, r)
  BY EntryTyped
<1>4. /\ Sound(a) /\ OthersKept(reg, a, r) /\ a.result = reg.result
      /\ a.presenting = reg.presenting /\ a.cancelling = reg.cancelling
      /\ \/ a.inv[r] = reg.inv[r]
         \/ a.inv[r] = [reg.inv[r] EXCEPT !.abandoned = TRUE]
  BY <1>3, AbandonEffect
<1> HIDE DEF a
<1>5. /\ a \in Registry /\ a.inv[r] \in Pending /\ a.inv \in [Req -> Pending]
  BY <1>4, RegistryFields DEF Sound
<1>6. /\ a.inv[r].live /\ a.inv[r].socket = reg.inv[r].socket
      /\ a.inv[r].cancellation = "none"
      /\ a.inv[r].timers = reg.inv[r].timers
  BY <1>1, <1>3, <1>4 DEF Pending
<1>7. x \in Pending
  <2>1. 0 \in 0 .. MaxAnswer
    BY HostInvokeAssumption
  <2> QED
    BY <1>5, <2>1 DEF Pending
<1>8. /\ x.live = a.inv[r].live /\ x.socket = a.inv[r].socket
      /\ x.cancellation = "none" /\ x.gatePending = TRUE /\ x.gate = p
      /\ x.stage = "awaiting_handle"
      /\ x.timers = reg.inv[r].timers \ {"idle"}
  BY <1>5, <1>6 DEF Pending
<1>9. reg' = [a EXCEPT !.inv = [@ EXCEPT ![r] = x]]
  BY <1>5, <1>2 DEF Registry
<1> HIDE DEF x
<1>10. /\ reg' \in Registry /\ reg'.inv = [a.inv EXCEPT ![r] = x]
      /\ reg'.result = reg.result /\ reg'.count = a.count
      /\ reg'.presenting = reg.presenting /\ reg'.cancelling = reg.cancelling
  BY <1>4, <1>5, <1>7, <1>9 DEF Registry
<1>11. x.gate # 0
  BY <1>8 DEF Gate
<1>12. Sound(reg')
  BY <1>4, <1>8, <1>10, <1>11, SlotKept
<1>13. OthersKept(a, reg', r) /\ reg'.inv[r] = x
  BY <1>4, <1>5, <1>10 DEF OthersKept, Shown
<1>14. OthersKept(reg, reg', r)
  BY <1>4, <1>13, OthersTransitive
<1>15. RequestKept(reg', daemon, sock, r)
  <2>1. Kept(reg.inv[r], reg.result[r], r \in reg.cancelling, Shown(reg, r),
             daemon[r], sock[reg.inv[r].socket])
    BY <1>3 DEF RequestKept
  <2>2. /\ x.live /\ x.socket = reg.inv[r].socket
        /\ reg'.result[r] = reg.result[r]
        /\ r \in reg'.cancelling <=> r \in reg.cancelling
    BY <1>6, <1>8, <1>10
  <2>3. Kept(x, reg'.result[r], r \in reg'.cancelling, Shown(reg', r),
             daemon[r], sock[x.socket])
    BY <1>1, <1>8, <2>1, <2>2 DEF Kept
  <2> QED
    BY <1>13, <2>3 DEF RequestKept
<1> QED
  BY <1>1, <1>12, <1>14, <1>15, QuietMoves

\* An answer is under way: it is counted and changes nothing else.
LEMMA AnswerGateStep ==
    ASSUME HostInv, NEW r \in Req, NEW p \in Gate, answerGate(r, p)
    PROVE  HostInv'
<1> DEFINE n == reg.inv[r].tries + 1
           x == [reg.inv[r] EXCEPT !.tries = n]
           A == reg.answering \cup {<<r, p, n>>}
<1>1. /\ Quiet /\ reg.inv[r].tries < MaxAnswer /\ reg.inv[r].live
      /\ reg' = [reg EXCEPT !.answering = A, !.inv[r].tries = n]
  BY DEF answerGate
<1>2. /\ reg.inv[r] \in Pending /\ reg \in Registry /\ Sound(reg)
      /\ reg.inv \in [Req -> Pending] /\ RequestKept(reg, daemon, sock, r)
  BY EntryTyped
<1>3. n \in 1 .. MaxAnswer /\ n \in 0 .. MaxAnswer
  BY <1>1, <1>2, HostInvokeAssumption DEF Pending
<1>4. A \in SUBSET (Req \X Gate \X (1 .. MaxAnswer))
  BY <1>2, <1>3, RegistryFields
<1> HIDE DEF n, A
<1>5. /\ x \in Pending /\ x.live = reg.inv[r].live
      /\ x.socket = reg.inv[r].socket /\ x.gate = reg.inv[r].gate
      /\ x.cancellation = reg.inv[r].cancellation
      /\ x.timers = reg.inv[r].timers /\ x.stage = reg.inv[r].stage
      /\ x.gatePending = reg.inv[r].gatePending
  BY <1>2, <1>3 DEF Pending
<1>6. reg' = [reg EXCEPT !.answering = A, !.inv = [@ EXCEPT ![r] = x]]
  BY <1>1, <1>2 DEF Registry
<1> HIDE DEF x
<1>7. /\ reg' \in Registry /\ reg'.inv = [reg.inv EXCEPT ![r] = x]
      /\ reg'.result = reg.result /\ reg'.count = reg.count
      /\ reg'.presenting = reg.presenting /\ reg'.cancelling = reg.cancelling
  BY <1>2, <1>4, <1>5, <1>6 DEF Registry
<1>8. x.stage # "none" => x.gate # 0
  BY <1>2, <1>5 DEF Sound
<1>9. Sound(reg') /\ OthersKept(reg, reg', r) /\ reg'.inv[r] = x
  BY <1>5, <1>7, <1>8, EntryChanges
<1>10. RequestKept(reg', daemon, sock, r)
  BY <1>1, <1>2, <1>5, <1>7, <1>9 DEF RequestKept, Kept, Shown
<1> QED
  BY <1>1, <1>9, <1>10, QuietMoves

\* An event of the run re-arms the idle timer, unless a gate waits.
LEMMA StreamEventStep ==
    ASSUME HostInv, NEW r \in Req, streamEvent(r)
    PROVE  HostInv'
<1> DEFINE T == reg.inv[r].timers \cup {"idle"}
           h == [reg EXCEPT !.inv[r].timers = T]
<1>1. /\ Quiet /\ reg.inv[r].live /\ reg.inv[r].cancellation = "none"
      /\ \/ reg.inv[r].gatePending /\ reg' = reg
         \/ ~ reg.inv[r].gatePending /\ reg' = h
  BY DEF streamEvent, armIdleTimer
<1>2. /\ reg.inv[r] \in Pending /\ Sound(reg) /\ OthersKept(reg, reg, r)
      /\ RequestKept(reg, daemon, sock, r)
  BY EntryTyped
<1>3. CASE reg' = reg
  BY <1>1, <1>2, <1>3, QuietMoves
<1>4. CASE ~ reg.inv[r].gatePending /\ reg' = h
  <2>1. T \in SUBSET {"idle", "hard", "receipt", "terminal"}
    BY <1>2 DEF Pending
  <2> HIDE DEF T
  <2>2. /\ Sound(h) /\ OthersKept(reg, h, r) /\ h.result = reg.result
        /\ h.cancelling = reg.cancelling /\ h.presenting = reg.presenting
        /\ h.inv[r] = [reg.inv[r] EXCEPT !.timers = T]
    BY <2>1, TimersChange
  <2> HIDE DEF h
  <2>3. /\ h.inv[r].live /\ h.inv[r].socket = reg.inv[r].socket
        /\ h.inv[r].cancellation = "none" /\ h.inv[r].timers = T
        /\ h.inv[r].gatePending = reg.inv[r].gatePending
        /\ h.inv[r].stage = reg.inv[r].stage
        /\ h.inv[r].gate = reg.inv[r].gate
    BY <1>1, <1>2, <2>2 DEF Pending
  <2>4. Shown(h, r) = Shown(reg, r)
    BY <2>2 DEF Shown
  <2>5. RequestKept(h, daemon, sock, r)
    <3>1. Kept(reg.inv[r], reg.result[r], r \in reg.cancelling, Shown(reg, r),
               daemon[r], sock[reg.inv[r].socket])
      BY <1>2 DEF RequestKept
    <3>2. Kept(h.inv[r], reg.result[r], r \in reg.cancelling, Shown(reg, r),
               daemon[r], sock[reg.inv[r].socket])
      BY <1>1, <1>4, <2>3, <3>1 DEF Kept, T
    <3> QED
      BY <2>2, <2>3, <2>4, <3>2 DEF RequestKept
  <2> QED
    BY <1>1, <1>4, <2>2, <2>5, QuietMoves
<1> QED
  BY <1>1, <1>3, <1>4

\* The receipt of an answer: only the accepted answer of the gate on show ends
\* the wait for a human and lets idleness count again.
LEMMA GateAnswerResultStep ==
    ASSUME HostInv, NEW r \in Req, NEW p \in Gate, NEW k \in 1 .. MaxAnswer,
           NEW accepted \in BOOLEAN,
           acceptGateAnswerResult(r, p, k, accepted)
    PROVE  HostInv'
<1> DEFINE A == reg.answering \ {<<r, p, k>>}
           f == [reg EXCEPT !.answering = A]
           w == reg.inv[r].gatePending /\ reg.inv[r].gate # p
           g == [f EXCEPT !.inv[r].gatePending = w]
<1>1. /\ reg.inv[r] \in Pending /\ reg \in Registry /\ Sound(reg)
      /\ reg.inv \in [Req -> Pending] /\ RequestKept(reg, daemon, sock, r)
      /\ A \in SUBSET (Req \X Gate \X (1 .. MaxAnswer))
  BY EntryTyped, RegistryFields
<1>2. /\ f \in Registry /\ f.inv = reg.inv /\ f.result = reg.result
      /\ f.count = reg.count /\ f.presenting = reg.presenting
      /\ f.cancelling = reg.cancelling
  BY <1>1 DEF Registry
<1>3. Quiet /\ settleGateAnswer(reg, <<r, p, k>>) = f
  BY DEF acceptGateAnswerResult, settleGateAnswer
<1>4. \/ reg' = f
      \/ g.inv[r].live /\ reg' = armIdleTimer(g, r)
      \/ ~ g.inv[r].live /\ reg' = g
  <2>1. g = [f EXCEPT !.inv[r].gatePending = @ /\ reg.inv[r].gate # p]
    BY <1>2
  <2> HIDE DEF g, f
  <2> QED
    BY <1>3, <2>1 DEF acceptGateAnswerResult
<1> HIDE DEF A, f
<1>5. CASE reg' = f
  BY <1>2, <1>3, <1>5, SideStep
<1> DEFINE x == [reg.inv[r] EXCEPT !.gatePending = w]
<1>6. /\ x \in Pending /\ x.live = reg.inv[r].live /\ x.gatePending = w
      /\ x.socket = reg.inv[r].socket /\ x.gate = reg.inv[r].gate
      /\ x.cancellation = reg.inv[r].cancellation
      /\ x.timers = reg.inv[r].timers /\ x.stage = reg.inv[r].stage
  BY <1>1 DEF Pending
<1>7. g = [f EXCEPT !.inv = [@ EXCEPT ![r] = x]]
  BY <1>1, <1>2 DEF Registry
<1> HIDE DEF w, x, g
<1>8. /\ g \in Registry /\ g.inv = [reg.inv EXCEPT ![r] = x]
      /\ g.result = reg.result /\ g.count = reg.count
      /\ g.presenting = reg.presenting /\ g.cancelling = reg.cancelling
  BY <1>2, <1>6, <1>7 DEF Registry
<1>9. g.inv \in [Req -> Pending] /\ g.inv[r] = x
  BY <1>1, <1>6, <1>8
<1>10. x.stage # "none" => x.gate # 0
  BY <1>1, <1>6 DEF Sound
<1>11. Shown(g, r) = Shown(reg, r)
  BY <1>8 DEF Shown
<1>12. CASE ~ g.inv[r].live /\ reg' = g
  <2>1. reg.inv[r].gatePending = FALSE
    BY <1>6, <1>9, <1>12, EndedTimers
  <2>2. x = reg.inv[r]
    BY <1>1, <2>1 DEF x, w, Pending
  <2>3. reg'.inv = reg.inv
    BY <1>1, <1>8, <1>12, <2>2
  <2> QED
    BY <1>3, <1>8, <1>12, <2>3, SideStep
<1>13. CASE g.inv[r].live /\ reg' = armIdleTimer(g, r)
  <2>1. Kept(reg.inv[r], reg.result[r], r \in reg.cancelling, Shown(reg, r),
             daemon[r], sock[reg.inv[r].socket])
    BY <1>1 DEF RequestKept
  <2>2. CASE x.gatePending
    <3>1. reg' = g
      BY <1>9, <1>13, <2>2 DEF armIdleTimer
    <3>2. Sound(reg') /\ OthersKept(reg, reg', r)
      BY <1>6, <1>8, <1>10, <3>1, EntryChanges
    <3>3. Kept(x, reg.result[r], r \in reg.cancelling, Shown(reg, r),
               daemon[r], sock[x.socket])
      BY <1>6, <1>9, <1>13, <2>1, <2>2 DEF Kept, w
    <3>4. RequestKept(reg', daemon, sock, r)
      BY <1>8, <1>9, <1>11, <3>1, <3>3 DEF RequestKept
    <3> QED
      BY <1>3, <3>2, <3>4, QuietMoves
  <2>3. CASE ~ x.gatePending
    <3> DEFINE T == x.timers \cup {"idle"}
               y == [x EXCEPT !.timers = T]
    <3>1. reg' = [g EXCEPT !.inv[r].timers = T]
      BY <1>9, <1>13, <2>3 DEF armIdleTimer
    <3>2. T \in SUBSET {"idle", "hard", "receipt", "terminal"}
      BY <1>6 DEF Pending
    <3> HIDE DEF T
    <3>3. /\ y \in Pending /\ y.live = x.live /\ y.socket = x.socket
          /\ y.stage = x.stage /\ y.gate = x.gate /\ y.timers = T
          /\ y.cancellation = x.cancellation /\ y.gatePending = x.gatePending
      BY <1>6, <3>2 DEF Pending
    <3>4. reg' = [g EXCEPT !.inv = [@ EXCEPT ![r] = y]]
      BY <1>8, <1>9, <3>1 DEF Registry
    <3> HIDE DEF y
    <3>5. /\ reg' \in Registry /\ reg'.inv = [g.inv EXCEPT ![r] = y]
          /\ reg'.result = reg.result /\ reg'.count = reg.count
          /\ reg'.presenting = reg.presenting
          /\ reg'.cancelling = reg.cancelling
      BY <1>8, <3>3, <3>4 DEF Registry
    <3>6. reg'.inv = [reg.inv EXCEPT ![r] = y]
      BY <1>1, <1>8, <3>5
    <3>7. /\ y.live = reg.inv[r].live /\ y.socket = reg.inv[r].socket
          /\ y.stage # "none" => y.gate # 0
      BY <1>6, <1>10, <3>3
    <3>8. Sound(reg') /\ OthersKept(reg, reg', r) /\ reg'.inv[r] = y
      BY <3>5, <3>6, <3>7, EntryChanges
    <3>9. Kept(y, reg.result[r], r \in reg.cancelling, Shown(reg, r),
               daemon[r], sock[y.socket])
      BY <1>6, <1>9, <1>13, <2>1, <2>3, <3>3 DEF Kept, T
    <3>10. Shown(reg', r) = Shown(reg, r)
      BY <3>5 DEF Shown
    <3>11. RequestKept(reg', daemon, sock, r)
      BY <3>5, <3>8, <3>9, <3>10 DEF RequestKept
    <3> QED
      BY <1>3, <3>8, <3>11, QuietMoves
  <2> QED
    BY <2>2, <2>3
<1> QED
  BY <1>4, <1>5, <1>12, <1>13

\* The daemon says what became of a cancellation: a receipt that the run never
\* started keeps the request until its terminal, any other ends the wait.
LEMMA CancelResultStep ==
    ASSUME HostInv, NEW r \in Req, NEW outcome \in Outcome,
           acceptCancelResult(r, outcome)
    PROVE  HostInv'
<1> DEFINE T == reg.inv[r].timers \ {"receipt"}
           C == reg.cancelling \ {r}
           h == [reg EXCEPT !.cancelling = C, !.inv[r].timers = T]
           y == [reg.inv[r] EXCEPT !.timers = T]
<1>1. /\ r \in reg.cancelling /\ daemon[r] = "owned"
      /\ UNCHANGED <<sock, current, known, beat, refused, shut>>
      /\ daemon' = [daemon EXCEPT ![r] = IF outcome = "cancelled_before_start"
                                         THEN "revoked" ELSE @]
  BY DEF acceptCancelResult
<1>2. \/ /\ outcome = "cancelled_before_start"
         /\ reg' = [h EXCEPT !.inv[r].cancellation = outcome,
                             !.inv[r].timers = @ \cup {"terminal"}]
      \/ /\ outcome # "cancelled_before_start"
         /\ reg' = retireCancellationTracker(settle(h, r, "unconfirmed"), r)
  BY DEF acceptCancelResult
<1>3. /\ reg.inv[r] \in Pending /\ reg \in Registry /\ Sound(reg)
      /\ reg.inv \in [Req -> Pending] /\ RequestKept(reg, daemon, sock, r)
  BY EntryTyped
<1>4. refused = {} /\ daemon \in [Req -> {"none", "owned", "revoked", "over"}]
  BY DEF HostInv, TypeOK
<1>5. reg.inv[r].live
  BY <1>1, EndedTimers
<1>6. /\ reg.inv[r].cancellation # "none" /\ reg.result[r] # "none"
      /\ sock[reg.inv[r].socket] # "none"
  BY <1>1, <1>3, <1>5 DEF RequestKept, Kept
<1>7. C \in SUBSET Req /\ T \in SUBSET {"idle", "hard", "receipt", "terminal"}
  BY <1>3, RegistryFields DEF Pending
<1> HIDE DEF C, T
<1>8. /\ y \in Pending /\ y.live = reg.inv[r].live /\ y.timers = T
      /\ y.socket = reg.inv[r].socket /\ y.gate = reg.inv[r].gate
      /\ y.cancellation = reg.inv[r].cancellation /\ y.stage = reg.inv[r].stage
  BY <1>3, <1>7 DEF Pending
<1>9. h = [reg EXCEPT !.cancelling = C, !.inv = [@ EXCEPT ![r] = y]]
  BY <1>3 DEF Registry
<1> HIDE DEF y, h
<1>10. /\ h \in Registry /\ h.inv = [reg.inv EXCEPT ![r] = y] /\ h.inv[r] = y
       /\ h.result = reg.result /\ h.count = reg.count
       /\ h.presenting = reg.presenting /\ h.cancelling = C
  <2>1. /\ h \in Registry /\ h.inv = [reg.inv EXCEPT ![r] = y]
        /\ h.result = reg.result /\ h.count = reg.count
        /\ h.presenting = reg.presenting /\ h.cancelling = C
    BY <1>3, <1>7, <1>8, <1>9 DEF Registry
  <2> QED
    BY <1>3, <2>1
<1>11. y.stage # "none" => y.gate # 0
  BY <1>3, <1>8 DEF Sound
<1>12. Sound(h)
  BY <1>3, <1>8, <1>10, <1>11, SlotKept
<1>13. OthersKept(reg, h, r)
  BY <1>3, <1>10 DEF OthersKept, Shown, C
<1>14. CASE /\ outcome = "cancelled_before_start"
            /\ reg' = [h EXCEPT !.inv[r].cancellation = outcome,
                                !.inv[r].timers = @ \cup {"terminal"}]
  <2> DEFINE x == [y EXCEPT !.cancellation = "cancelled_before_start",
                            !.timers = @ \cup {"terminal"}]
  <2>1. /\ x \in Pending /\ x.live = y.live /\ x.socket = y.socket
        /\ x.stage = y.stage /\ x.gate = y.gate
        /\ x.cancellation = "cancelled_before_start"
    BY <1>8 DEF Pending
  <2>2. reg' = [h EXCEPT !.inv = [@ EXCEPT ![r] = x]]
    BY <1>10, <1>14 DEF Registry
  <2> HIDE DEF x
  <2>3. /\ reg' \in Registry /\ reg'.inv = [h.inv EXCEPT ![r] = x]
        /\ reg'.result = h.result /\ reg'.count = h.count
        /\ reg'.presenting = h.presenting /\ reg'.cancelling = h.cancelling
    BY <1>10, <2>1, <2>2 DEF Registry
  <2>4. Sound(reg')
    <3>1. /\ x.live = h.inv[r].live /\ x.socket = h.inv[r].socket
          /\ x.stage # "none" => x.gate # 0
      BY <1>10, <1>11, <2>1
    <3> QED
      BY <1>12, <2>3, <3>1, SlotKept
  <2>5. OthersKept(h, reg', r) /\ reg'.inv[r] = x
    BY <1>10, <2>3, RegistryFields DEF OthersKept, Shown
  <2>6. OthersKept(reg, reg', r)
    BY <1>13, <2>5, OthersTransitive
  <2>7. /\ daemon'[r] = "revoked"
        /\ daemon' \in [Req -> {"none", "owned", "revoked", "over"}]
        /\ \A q \in Req \ {r} : daemon'[q] = daemon[q]
    BY <1>1, <1>4, <1>14
  <2>8. RequestKept(reg', daemon', sock, r)
    <3>1. /\ x.live /\ x.cancellation = "cancelled_before_start"
          /\ x.socket = reg.inv[r].socket /\ reg'.result[r] # "none"
      BY <1>5, <1>6, <1>8, <1>10, <2>1, <2>3
    <3> QED
      BY <1>6, <2>5, <2>7, <3>1 DEF RequestKept, Kept
  <2> QED
    BY <1>1, <1>4, <2>4, <2>6, <2>7, <2>8, RequestMoves
<1>15. CASE /\ outcome # "cancelled_before_start"
            /\ reg' = retireCancellationTracker(settle(h, r, "unconfirmed"), r)
  <2>1. daemon' = daemon
    BY <1>1, <1>4, <1>15
  <2>2. /\ h.inv[r].live /\ h.inv[r].socket = reg.inv[r].socket
        /\ h.inv[r].cancellation = reg.inv[r].cancellation
        /\ h.result[r] # "none"
    BY <1>5, <1>6, <1>8, <1>10
  <2>3. Sound(reg') /\ OthersKept(reg, reg', r) /\ RequestKept(reg', daemon, sock, r)
    BY <1>5, <1>6, <1>12, <1>13, <1>15, <2>2, TrackerRetired
  <2> QED
    BY <1>1, <1>4, <2>1, <2>3, QuietMoves DEF Quiet
<1> QED
  BY <1>2, <1>14, <1>15

\* The terminal of a request ends it.  It never contradicts a receipt that the
\* run never started: that daemon owes "cancelled".
LEMMA TerminalStep ==
    ASSUME HostInv, NEW r \in Req, NEW d \in {"completed", "failed", "cancelled"},
           invokeTerminal(r, d)
    PROVE  HostInv'
<1> DEFINE how == IF d = "completed" THEN "completed" ELSE "disposition"
           f == settle(reg, r, how)
           a == abandonGate(f, r)
           g == deletePending(a, r)
           e == IF reg.inv[r].live THEN g ELSE reg
<1>1. /\ reg.inv[r] \in Pending /\ reg \in Registry /\ Sound(reg)
      /\ OthersKept(reg, reg, r) /\ RequestKept(reg, daemon, sock, r)
  BY EntryTyped
<1>2. ~ (reg.inv[r].live /\ reg.inv[r].cancellation = "cancelled_before_start"
         /\ d # "cancelled")
  BY <1>1 DEF invokeTerminal, RequestKept, Kept
<1>3. /\ daemon' = [daemon EXCEPT ![r] = "over"]
      /\ reg' = [e EXCEPT !.tombstones = @ \ {r}]
      /\ UNCHANGED <<sock, refused, current, known, beat, shut>>
  BY <1>2 DEF invokeTerminal
<1>4. refused = {} /\ daemon \in [Req -> {"none", "owned", "revoked", "over"}]
  BY DEF HostInv, TypeOK
<1>5. /\ Sound(e) /\ OthersKept(reg, e, r) /\ ~ e.inv[r].live
      /\ e.inv[r] = Ended(e.inv[r]) /\ r \notin e.cancelling
  <2>1. CASE ~ reg.inv[r].live
    BY <1>1, <2>1 DEF RequestKept, Kept
  <2>2. CASE reg.inv[r].live
    <3>1. how \in {"completed", "disposition", "disconnected", "unconfirmed"}
      OBVIOUS
    <3> HIDE DEF how
    <3>2. /\ Sound(f) /\ OthersKept(reg, f, r)
          /\ f.inv[r] = IF reg.result[r] # "waiting" THEN reg.inv[r]
                        ELSE [reg.inv[r] EXCEPT !.timers = @ \ {"idle", "hard"}]
      BY <1>1, <3>1, SettleEffect
    <3>3. f.inv[r].live /\ f.inv[r] \in Pending
      BY <1>1, <2>2, <3>2 DEF Pending
    <3> HIDE DEF f
    <3>4. /\ Sound(a) /\ OthersKept(f, a, r)
          /\ \/ a.inv[r] = f.inv[r]
             \/ a.inv[r] = [f.inv[r] EXCEPT !.abandoned = TRUE]
      BY <3>2, AbandonEffect
    <3>5. a.inv[r].live
      BY <3>3, <3>4 DEF Pending
    <3> HIDE DEF a
    <3>6. /\ Sound(g) /\ OthersKept(a, g, r) /\ ~ g.inv[r].live
          /\ g.inv[r] = Ended(g.inv[r]) /\ r \notin g.cancelling
      BY <3>4, <3>5, DeleteEffect
    <3> HIDE DEF g
    <3>7. OthersKept(reg, g, r)
      BY <3>2, <3>4, <3>6, OthersTransitive
    <3> QED
      BY <2>2, <3>6, <3>7
  <2> QED
    BY <2>1, <2>2
<1> HIDE DEF e
<1>6. e \in Registry
  BY <1>5 DEF Sound
<1>7. /\ reg' \in Registry /\ reg'.inv = e.inv /\ reg'.result = e.result
      /\ reg'.count = e.count /\ reg'.presenting = e.presenting
      /\ reg'.cancelling = e.cancelling
  BY <1>3, <1>6 DEF Registry
<1>8. Sound(reg') /\ OthersKept(e, reg', r)
  BY <1>5, <1>7, SideMaps
<1>9. OthersKept(reg, reg', r)
  BY <1>5, <1>8, OthersTransitive
<1>10. RequestKept(reg', daemon', sock, r)
  BY <1>5, <1>7 DEF RequestKept, Kept
<1>11. /\ daemon' \in [Req -> {"none", "owned", "revoked", "over"}]
       /\ \A q \in Req \ {r} : daemon'[q] = daemon[q]
  BY <1>3, <1>4
<1> QED
  BY <1>3, <1>4, <1>8, <1>9, <1>10, <1>11, RequestMoves

\* A new request takes a slot on the connection in use.
LEMMA InvokeStep ==
    ASSUME HostInv, NEW r \in Req, invoke(r)
    PROVE  HostInv'
<1> DEFINE s == current
           x == [NoPending EXCEPT !.live = TRUE, !.socket = s,
                                  !.timers = {"hard", "idle"}]
           c == [reg.count EXCEPT ![s] = @ + 1]
<1>1. /\ s # 0 /\ reg.result[r] = "none"
      /\ reg' = [reg EXCEPT !.inv[r] = x, !.result[r] = "waiting",
                            !.count[s] = @ + 1]
      /\ daemon' = [daemon EXCEPT ![r] = IF sock[s] = "open" THEN "owned" ELSE "over"]
      /\ UNCHANGED <<sock, current, known, beat, refused, shut>>
  BY DEF invoke
<1>2. /\ reg.inv[r] \in Pending /\ reg \in Registry /\ Sound(reg)
      /\ reg.inv \in [Req -> Pending] /\ RequestKept(reg, daemon, sock, r)
  BY EntryTyped
<1>3. /\ refused = {} /\ daemon \in [Req -> {"none", "owned", "revoked", "over"}]
      /\ s \in Sock /\ sock[s] # "none"
  BY <1>1, HostInvokeAssumption DEF HostInv, TypeOK, Sock
<1>4. ~ reg.inv[r].live
  BY <1>1, <1>2 DEF RequestKept, Kept
<1>5. /\ x \in Pending /\ x.live = TRUE /\ x.socket = s /\ x.stage = "none"
      /\ x.timers = {"hard", "idle"} /\ x.cancellation = "none"
      /\ x.gatePending = FALSE
  <2>1. NoPending \in Pending
    BY HostInvokeAssumption DEF NoPending, Pending
  <2> QED
    BY <1>3, <2>1 DEF NoPending, Pending
<1>6. reg' = [reg EXCEPT !.inv = [@ EXCEPT ![r] = x],
                         !.result = [@ EXCEPT ![r] = "waiting"], !.count = c]
  BY <1>1, <1>2 DEF Registry
<1> HIDE DEF x, c
<1>7. /\ reg'.inv = [reg.inv EXCEPT ![r] = x] /\ reg'.count = c
      /\ reg'.result = [reg.result EXCEPT ![r] = "waiting"]
      /\ reg'.presenting = reg.presenting /\ reg'.cancelling = reg.cancelling
  BY <1>2, <1>6 DEF Registry
<1>8. /\ reg'.count \in [Sock -> 0 .. Cardinality(Req)]
      /\ \A t \in Sock : reg'.count[t] = Cardinality(LiveOn(reg', t))
      /\ \A q \in Req : reg'.inv[q].live => reg'.inv[q].socket \in Sock
  <2>1. PICK t \in Sock : t = s
    BY <1>3
  <2>2. reg'.count = [reg.count EXCEPT ![t] = @ + 1]
    BY <1>7, <2>1 DEF c
  <2>3. /\ Sound(reg) /\ ~ reg.inv[r].live /\ x.live /\ x.socket = t
        /\ reg'.inv = [reg.inv EXCEPT ![r] = x]
    BY <1>2, <1>4, <1>5, <1>7, <2>1
  <2> HIDE DEF s
  <2> QED
    BY ONLY <2>2, <2>3, r \in Req, SlotTaken
<1>9. reg' \in Registry
  BY <1>2, <1>5, <1>6, <1>7, <1>8 DEF Registry, Result
<1>10. Sound(reg')
  <2>1. \A q \in Req : reg'.inv[q].stage # "none" => reg'.inv[q].gate # 0
    BY <1>2, <1>5, <1>7 DEF Sound
  <2> QED
    BY <1>8, <1>9, <2>1 DEF Sound
<1>11. /\ OthersKept(reg, reg', r) /\ reg'.inv[r] = x
       /\ reg'.result[r] = "waiting"
  BY <1>2, <1>7, RegistryFields DEF OthersKept, Shown
<1>12. r \notin reg'.cancelling
  BY <1>4, <1>7, EndedTimers
<1>13. /\ daemon' \in [Req -> {"none", "owned", "revoked", "over"}]
       /\ \A q \in Req \ {r} : daemon'[q] = daemon[q]
       /\ daemon'[r] = IF sock[s] = "open" THEN "owned" ELSE "over"
  BY <1>1, <1>3
<1>14. RequestKept(reg', daemon', sock, r)
  BY <1>3, <1>5, <1>11, <1>12, <1>13 DEF RequestKept, Kept
<1> QED
  BY <1>1, <1>3, <1>10, <1>11, <1>13, <1>14, RequestMoves

-----------------------------------------------------------------------------
(* Steps of a websocket.                                                   *)

\* What every request sees of websocket s being lost between g and h: its own
\* requests are ended, the others are as they were.
SocketLost(g, h, s) ==
    \A q \in Req :
        \/ /\ ~ h.inv[q].live /\ h.inv[q] = Ended(h.inv[q])
           /\ q \notin h.cancelling
        \/ /\ h.inv[q] = g.inv[q] /\ h.result[q] = g.result[q]
           /\ q \in h.cancelling <=> q \in g.cancelling
           /\ Shown(h, q) = Shown(g, q)
           /\ g.inv[q].live => g.inv[q].socket # s

\* No websocket is opened, or forgotten, under a request; s may be.
OnlyCloses(s) ==
    \A t \in Sock \ {s} : sock[t] # "none" =>
        sock'[t] # "none" /\ (sock'[t] = "open" => sock[t] = "open")

\* failPendingForSocket returns exactly the slots its websocket has.
LEMMA FailEffect ==
    ASSUME HostInv, NEW s \in Sock
    PROVE  LET h == failPendingForSocket(reg, s) IN
           Sound(h) /\ SocketLost(reg, h, s)
<1> DEFINE h == failPendingForSocket(reg, s)
           mine == {r \in Req : reg.inv[r].socket = s}
           lost == {r \in mine : reg.inv[r].live}
           R == [r \in Req |-> IF r \in lost /\ reg.result[r] = "waiting"
                               THEN "disconnected" ELSE reg.result[r]]
           I == [r \in Req |-> IF r \in lost THEN Ended(reg.inv[r])
                               ELSE reg.inv[r]]
           C == [reg.count EXCEPT ![s] = @ - Cardinality(lost)]
           A == {a \in reg.answering : a[1] \notin mine}
           P == {a \in reg.presenting : a[1] \notin mine}
           B == {a \in reg.abandoning : a[1] \notin mine}
<1>1. reg \in Registry /\ Sound(reg)
  BY DEF HostInv, Sound
<1>2. h = [reg EXCEPT !.result = R, !.inv = I, !.count = C,
             !.tombstones = @ \ mine, !.answering = A, !.presenting = P,
             !.abandoning = B, !.cancelling = @ \ mine]
  BY <1>1 DEF failPendingForSocket, Registry
<1>3. /\ reg.inv \in [Req -> Pending] /\ reg.result \in [Req -> Result]
      /\ reg.count \in [Sock -> 0 .. Cardinality(Req)]
  BY <1>1, RegistryFields
<1>4. lost = LiveOn(reg, s)
  BY DEF LiveOn
<1>5. I \in [Req -> Pending]
  BY <1>3, EndedEntry
<1>6. R \in [Req -> Result]
  BY <1>3 DEF Result
<1>7. /\ A \subseteq Req \X Gate \X (1 .. MaxAnswer)
      /\ P \subseteq Req \X Gate /\ B \subseteq Req \X Gate
  BY <1>1, RegistryFields
<1>8. reg.count[s] = Cardinality(LiveOn(reg, s)) /\ Cardinality(LiveOn(reg, s)) \in Nat
  BY <1>1, LiveCounted DEF Sound
<1>9. /\ C \in [Sock -> 0 .. Cardinality(Req)] /\ C[s] = 0
      /\ \A t \in Sock \ {s} : C[t] = reg.count[t]
  <2> HIDE DEF lost
  <2>1. reg.count[s] - Cardinality(lost) = 0 /\ Cardinality(Req) \in Nat
    BY <1>4, <1>8, LiveCounted
  <2> QED
    BY <1>3, <2>1
<1>10. \A q \in Req : /\ q \in lost => I[q] = Ended(reg.inv[q])
                      /\ q \notin lost => I[q] = reg.inv[q] /\ R[q] = reg.result[q]
  OBVIOUS
<1>11. \A q \in Req : q \in mine <=> reg.inv[q].socket = s
  OBVIOUS
<1>12. \A q \in Req : q \in lost <=> q \in mine /\ reg.inv[q].live
  OBVIOUS
<1>13. \A q \in Req \ mine : \A k \in Gate :
          <<q, k>> \in P <=> <<q, k>> \in reg.presenting
  OBVIOUS
<1> HIDE DEF h, mine, lost, R, I, C, A, P, B
<1>14. /\ h \in Registry /\ h.inv = I /\ h.result = R /\ h.count = C
       /\ h.presenting = P /\ h.cancelling = reg.cancelling \ mine
  BY <1>1, <1>2, <1>5, <1>6, <1>7, <1>9 DEF Registry
<1>15. \A q \in Req : q \in lost =>
          ~ I[q].live /\ I[q] = Ended(I[q]) /\ I[q].stage = "none"
  <2> SUFFICES ASSUME NEW q \in Req, q \in lost
               PROVE  ~ I[q].live /\ I[q] = Ended(I[q]) /\ I[q].stage = "none"
    OBVIOUS
  <2>1. I[q] = Ended(reg.inv[q]) /\ reg.inv[q] \in Pending
    BY <1>3, <1>10
  <2>2. /\ Ended(reg.inv[q]).live = FALSE /\ Ended(reg.inv[q]).stage = "none"
        /\ Ended(Ended(reg.inv[q])) = Ended(reg.inv[q])
    BY <2>1, EndedEntry
  <2> QED
    BY <2>1, <2>2
<1>16. Sound(h)
  <2>1. \A q \in Req : I[q].live => I[q].socket \in Sock
    BY <1>1, <1>10, <1>15 DEF Sound
  <2>2. \A q \in Req : I[q].stage # "none" => I[q].gate # 0
    BY <1>1, <1>10, <1>15 DEF Sound
  <2>3. LiveOn(h, s) = {}
    BY <1>10, <1>11, <1>12, <1>14, <1>15 DEF LiveOn
  <2>4. \A t \in Sock \ {s} : LiveOn(h, t) = LiveOn(reg, t)
    BY <1>10, <1>11, <1>12, <1>14, <1>15 DEF LiveOn
  <2>5. \A t \in Sock : C[t] = Cardinality(LiveOn(h, t))
    BY <1>1, <1>9, <2>3, <2>4, FS_EmptySet DEF Sound
  <2> QED
    BY <1>14, <2>1, <2>2, <2>5 DEF Sound
<1>17. SocketLost(reg, h, s)
  <2> SUFFICES ASSUME NEW q \in Req
               PROVE  \/ /\ ~ h.inv[q].live /\ h.inv[q] = Ended(h.inv[q])
                         /\ q \notin h.cancelling
                      \/ /\ h.inv[q] = reg.inv[q] /\ h.result[q] = reg.result[q]
                         /\ q \in h.cancelling <=> q \in reg.cancelling
                         /\ Shown(h, q) = Shown(reg, q)
                         /\ reg.inv[q].live => reg.inv[q].socket # s
    BY DEF SocketLost
  <2>1. CASE q \in lost
    BY <1>12, <1>14, <1>15, <2>1
  <2>2. CASE q \notin lost /\ ~ reg.inv[q].live
    <3>1. reg.inv[q] = Ended(reg.inv[q]) /\ q \notin reg.cancelling
      BY <2>2 DEF HostInv, RequestKept, Kept
    <3> QED
      BY <1>10, <1>14, <2>2, <3>1
  <2>3. CASE q \notin lost /\ reg.inv[q].live
    <3>1. q \notin mine /\ reg.inv[q].socket # s
      BY <1>11, <1>12, <2>3
    <3>2. Shown(h, q) = Shown(reg, q)
      BY <1>13, <1>14, <3>1 DEF Shown
    <3> QED
      BY <1>10, <1>14, <2>3, <3>1, <3>2
  <2> QED
    BY <2>1, <2>2, <2>3
<1> QED
  BY <1>16, <1>17 DEF h

\* Whatever happens to websockets, the requests stay accounted.
LEMMA SocketMoves ==
    ASSUME HostInv, NEW s, Sound(reg'), SocketLost(reg, reg', s), OnlyCloses(s),
           UNCHANGED <<daemon, refused>>,
           sock' \in [Sock -> {"none", "open", "closing", "closed"}],
           current' \in 0 .. MaxSock,
           current' # 0 => sock'[current'] # "none",
           known' \subseteq Sock, beat' \subseteq Sock, shut' \in BOOLEAN
    PROVE  HostInv'
<1>1. TypeOK'
  BY DEF HostInv, TypeOK, Sound
<1>2. \A q \in Req : RequestKept(reg', daemon, sock', q)
  <2> SUFFICES ASSUME NEW q \in Req PROVE RequestKept(reg', daemon, sock', q)
    OBVIOUS
  <2>1. RequestKept(reg, daemon, sock, q)
    BY DEF HostInv
  <2>2. CASE /\ ~ reg'.inv[q].live /\ reg'.inv[q] = Ended(reg'.inv[q])
             /\ q \notin reg'.cancelling
    BY <2>2 DEF RequestKept, Kept
  <2>3. CASE /\ reg'.inv[q] = reg.inv[q] /\ reg'.result[q] = reg.result[q]
             /\ q \in reg'.cancelling <=> q \in reg.cancelling
             /\ Shown(reg', q) = Shown(reg, q)
             /\ reg.inv[q].live => reg.inv[q].socket # s
    <3>1. CASE ~ reg.inv[q].live
      BY <2>1, <2>3, <3>1 DEF RequestKept, Kept
    <3>2. CASE reg.inv[q].live
      <4> DEFINE t == reg.inv[q].socket
      <4>1. t \in Sock \ {s}
        BY <2>3, <3>2 DEF HostInv, Sound
      <4>2. sock[t] # "none"
        BY <2>1, <3>2 DEF RequestKept, Kept
      <4>3. sock'[t] # "none" /\ (sock'[t] = "open" => sock[t] = "open")
        BY <4>1, <4>2 DEF OnlyCloses
      <4>4. Kept(reg.inv[q], reg.result[q], q \in reg.cancelling, Shown(reg, q),
                 daemon[q], sock[t])
        BY <2>1 DEF RequestKept
      <4>5. Kept(reg.inv[q], reg.result[q], q \in reg.cancelling, Shown(reg, q),
                 daemon[q], sock'[t])
        BY <4>3, <4>4 DEF Kept
      <4> QED
        BY <2>3, <4>5 DEF RequestKept
    <3> QED
      BY <3>1, <3>2
  <2> QED
    BY <2>2, <2>3 DEF SocketLost
<1>3. refused' = {} /\ daemon' = daemon
  BY DEF HostInv
<1> QED
  BY <1>1, <1>2, <1>3 DEF HostInv

\* A step that leaves the requests alone loses no websocket.
LEMMA NoneLost ==
    ASSUME HostInv, reg' = reg
    PROVE  Sound(reg') /\ SocketLost(reg, reg', 0)
BY DEF HostInv, Sound, SocketLost, Sock

\* A registration opens a websocket nobody used and drops the one before it.
LEMMA RegisterStep ==
    ASSUME HostInv, NEW s \in Sock, register(s)
    PROVE  HostInv'
<1>1. TypeOK /\ (current # 0 => current \in Sock /\ sock[current] # "none")
  BY HostInvokeAssumption DEF HostInv, TypeOK, Sock
<1>2. /\ sock[s] = "none" /\ current' = s /\ UNCHANGED <<daemon, refused, shut>>
      /\ sock' = [t \in Sock |-> IF t = s THEN "open"
                                 ELSE IF t = current THEN "closed" ELSE sock[t]]
  BY DEF register
<1>3. /\ sock' \in [Sock -> {"none", "open", "closing", "closed"}]
      /\ current' \in 0 .. MaxSock /\ sock'[current'] # "none"
      /\ known' \subseteq Sock /\ beat' \subseteq Sock /\ shut' \in BOOLEAN
  <2>1. sock' \in [Sock -> {"none", "open", "closing", "closed"}]
    BY <1>1, <1>2 DEF TypeOK
  <2>2. current' \in 0 .. MaxSock /\ sock'[current'] # "none"
    BY <1>2, HostInvokeAssumption DEF Sock
  <2>3. known' \subseteq Sock /\ beat' \subseteq Sock /\ shut' \in BOOLEAN
    BY <1>1, <1>2 DEF TypeOK, register
  <2> QED
    BY <2>1, <2>2, <2>3
<1>4. OnlyCloses(current)
  BY <1>2 DEF OnlyCloses
<1>5. Sound(reg') /\ SocketLost(reg, reg', current)
  <2>1. CASE current = 0
    <3>1. reg' = reg
      BY <2>1 DEF register
    <3> QED
      BY <2>1, <3>1, NoneLost
  <2>2. CASE current # 0
    <3>1. reg' = failPendingForSocket(reg, current)
      BY <2>2 DEF register
    <3>2. PICK t \in Sock : t = current
      BY <1>1, <2>2
    <3> QED
      BY <3>1, <3>2, FailEffect
  <2> QED
    BY <2>1, <2>2
<1> QED
  BY <1>2, <1>3, <1>4, <1>5, SocketMoves

\* The close frame of the daemon.
LEMMA CloseFrameStep ==
    ASSUME HostInv, NEW s \in Sock, closeFrame(s)
    PROVE  HostInv'
<1>1. TypeOK /\ (current # 0 => sock[current] # "none")
  BY DEF HostInv
<1>2. /\ sock[s] = "open" /\ sock' = [sock EXCEPT ![s] = "closing"]
      /\ UNCHANGED <<current, known, beat, reg, daemon, refused, shut>>
  BY DEF closeFrame
<1>3. Sound(reg') /\ SocketLost(reg, reg', 0)
  BY <1>2, NoneLost
<1>4. OnlyCloses(0)
  BY <1>1, <1>2 DEF OnlyCloses, TypeOK
<1>5. /\ sock' \in [Sock -> {"none", "open", "closing", "closed"}]
      /\ current' # 0 => sock'[current'] # "none"
  BY <1>1, <1>2, HostInvokeAssumption DEF TypeOK, Sock
<1>6. /\ current' \in 0 .. MaxSock /\ known' \subseteq Sock
      /\ beat' \subseteq Sock /\ shut' \in BOOLEAN
  BY <1>1, <1>2 DEF TypeOK
<1> QED
  BY <1>2, <1>3, <1>4, <1>5, <1>6, SocketMoves

\* A websocket is gone: the close event, a heartbeat without an answer, or a
\* sweep that finds it closed.
LEMMA DropStep ==
    ASSUME HostInv, NEW s \in Sock, dropConnection(s),
           UNCHANGED <<daemon, refused, shut>>,
           \/ /\ sock' = [sock EXCEPT ![s] = "closed"]
              /\ current' = IF current = s THEN 0 ELSE current
           \/ sock' = sock /\ current' = 0
    PROVE  HostInv'
<1>1. TypeOK /\ (current # 0 => sock[current] # "none")
  BY DEF HostInv
<1>2. reg' = failPendingForSocket(reg, s)
  BY DEF dropConnection
<1>3. Sound(reg') /\ SocketLost(reg, reg', s)
  BY <1>2, FailEffect
<1>4. OnlyCloses(s)
  BY <1>1 DEF OnlyCloses, TypeOK
<1>5. sock' \in [Sock -> {"none", "open", "closing", "closed"}]
  BY <1>1 DEF TypeOK
<1>6. current' \in 0 .. MaxSock /\ (current' # 0 => sock'[current'] # "none")
  BY <1>1, HostInvokeAssumption DEF TypeOK, Sock
<1>7. known' \subseteq Sock /\ beat' \subseteq Sock /\ shut' \in BOOLEAN
  BY <1>1 DEF TypeOK, dropConnection
<1> QED
  BY <1>3, <1>4, <1>5, <1>6, <1>7, SocketMoves

\* Only the heartbeat changes.
LEMMA BeatStep ==
    ASSUME HostInv, beat' \subseteq Sock,
           UNCHANGED <<sock, current, known, reg, daemon, refused, shut>>
    PROVE  HostInv'
<1>1. Sound(reg') /\ SocketLost(reg, reg', 0)
  BY NoneLost
<1>2. OnlyCloses(0)
  BY DEF OnlyCloses
<1> QED
  BY <1>1, <1>2, SocketMoves DEF HostInv, TypeOK

\* HostRegistry.close().
LEMMA CloseStep ==
    ASSUME HostInv, close
    PROVE  HostInv'
<1> DEFINE g == IF current = 0 THEN reg ELSE failPendingForSocket(reg, current)
<1>1. TypeOK /\ (current # 0 => current \in Sock)
  BY HostInvokeAssumption DEF HostInv, TypeOK, Sock
<1>2. /\ shut' = TRUE /\ current' = 0 /\ UNCHANGED <<daemon, refused>>
      /\ sock' = [s \in Sock |-> IF sock[s] = "open" THEN "closing" ELSE sock[s]]
      /\ reg' = [g EXCEPT !.answering = {}]
      /\ known' = known \ {current} /\ beat' = {}
  BY DEF close
<1>3. Sound(g) /\ SocketLost(reg, g, current)
  <2>1. CASE current = 0
    <3>1. g = reg
      BY <2>1
    <3> QED
      BY <2>1, <3>1 DEF HostInv, Sound, SocketLost, Sock
  <2>2. CASE current # 0
    <3>1. PICK t \in Sock : t = current
      BY <1>1, <2>2
    <3>2. g = failPendingForSocket(reg, t)
      BY <2>2, <3>1
    <3> QED
      BY <3>1, <3>2, FailEffect
  <2> QED
    BY <2>1, <2>2
<1> HIDE DEF g
<1>4. g \in Registry
  BY <1>3 DEF Sound
<1>5. /\ reg' \in Registry /\ reg'.inv = g.inv /\ reg'.result = g.result
      /\ reg'.count = g.count /\ reg'.presenting = g.presenting
      /\ reg'.cancelling = g.cancelling
  BY <1>2, <1>4 DEF Registry
<1>6. Sound(reg')
  BY <1>3, <1>5, SideMaps
<1>7. SocketLost(reg, reg', current)
  BY <1>3, <1>5 DEF SocketLost, Shown
<1>8. OnlyCloses(current)
  BY <1>2 DEF OnlyCloses
<1>9. /\ sock' \in [Sock -> {"none", "open", "closing", "closed"}]
      /\ current' \in 0 .. MaxSock /\ shut' \in BOOLEAN
      /\ known' \subseteq Sock /\ beat' \subseteq Sock
  BY <1>1, <1>2, HostInvokeAssumption DEF TypeOK
<1> QED
  BY <1>2, <1>6, <1>7, <1>8, <1>9, SocketMoves

-----------------------------------------------------------------------------
(* The theorems.                                                           *)

\* Nothing is pending at first.
LEMMA HostInvInit == Init => HostInv
<1> SUFFICES ASSUME Init PROVE HostInv
  OBVIOUS
<1>1. NoPending \in Pending /\ ~ NoPending.live /\ NoPending.stage = "none"
  BY HostInvokeAssumption DEF NoPending, Pending
<1>2. Ended(NoPending) = NoPending
  BY <1>1 DEF Ended, NoPending, Pending
<1>3. \A r \in Req : reg.inv[r] = NoPending
  BY DEF Init
<1>4. reg \in Registry
  <2>1. 0 \in 0 .. Cardinality(Req)
    BY LiveCounted
  <2> QED
    BY <1>1, <2>1 DEF Init, Registry, Result
<1>5. \A s : LiveOn(reg, s) = {}
  BY <1>1, <1>3 DEF LiveOn
<1>6. Sound(reg)
  <2>1. \A s \in Sock : reg.count[s] = Cardinality(LiveOn(reg, s))
    BY <1>5, FS_EmptySet DEF Init
  <2> QED
    BY <1>1, <1>3, <1>4, <2>1 DEF Sound
<1>7. \A r \in Req : RequestKept(reg, daemon, sock, r)
  <2>1. reg.cancelling = {}
    BY DEF Init
  <2> QED
    BY <1>1, <1>2, <1>3, <2>1 DEF RequestKept, Kept
<1>8. TypeOK
  <2>1. 0 \in 0 .. MaxSock
    BY HostInvokeAssumption
  <2> QED
    BY <1>4, <2>1 DEF Init, TypeOK
<1> QED
  BY <1>6, <1>7, <1>8 DEF HostInv, Init

\* Every step keeps the invariant.
LEMMA HostInvStep == HostInv /\ [Next]_vars => HostInv'
<1> SUFFICES ASSUME HostInv, [Next]_vars PROVE HostInv'
  OBVIOUS
<1>1. CASE UNCHANGED vars
  <2>1. beat' \subseteq Sock
    BY <1>1 DEF vars, HostInv, TypeOK
  <2> QED
    BY <1>1, <2>1, BeatStep DEF vars
<1>2. ASSUME NEW s \in Sock,
             \/ register(s) \/ closeFrame(s) \/ closeEvent(s) \/ sendHeartbeats(s)
             \/ acceptPong(s) \/ expireHeartbeat(s)
      PROVE  HostInv'
  <2>1. beat \subseteq Sock
    BY DEF HostInv, TypeOK
  <2>2. CASE register(s)
    BY <2>2, RegisterStep
  <2>3. CASE closeFrame(s)
    BY <2>3, CloseFrameStep
  <2>4. CASE closeEvent(s)
    BY <2>4, DropStep DEF closeEvent
  <2>5. CASE sendHeartbeats(s)
    BY <2>1, <2>5, DropStep, BeatStep DEF sendHeartbeats
  <2>6. CASE acceptPong(s)
    BY <2>1, <2>6, BeatStep DEF acceptPong
  <2>7. CASE expireHeartbeat(s)
    BY <2>7, DropStep DEF expireHeartbeat
  <2> QED
    BY <1>2, <2>2, <2>3, <2>4, <2>5, <2>6, <2>7
<1>3. CASE close
  BY <1>3, CloseStep
<1>4. ASSUME NEW r \in Req,
             \/ invoke(r) \/ cancelInvoke(r) \/ idleFires(r) \/ hardFires(r)
             \/ receiptFires(r) \/ tombstoneExpires(r) \/ presentGate(r)
             \/ handleFails(r) \/ streamEvent(r) \/ Terminal(r)
             \/ \E o \in Outcome : acceptCancelResult(r, o)
      PROVE  HostInv'
  BY <1>4, InvokeStep, CancelInvokeStep, WaitTimerStep, ReceiptTimerStep, ForgetStep,
     PresentGateStep, HandleFailsStep, StreamEventStep, TerminalStep, CancelResultStep
     DEF Terminal
<1>5. ASSUME NEW r \in Req, NEW p \in Gate,
             \/ presentationTimeout(r, p) \/ abandonTimeout(r, p) \/ answerGate(r, p)
             \/ gateRequest(r, p) \/ acceptGateAbandonResult(r, p)
             \/ \E b \in BOOLEAN :
                  \/ acceptGatePresentationResult(r, p, b)
                  \/ \E k \in 1 .. MaxAnswer : acceptGateAnswerResult(r, p, k, b)
             \/ \E k \in 1 .. MaxAnswer : answerTimeout(<<r, p, k>>)
      PROVE  HostInv'
  BY <1>5, PresentationTimeoutStep, ForgetStep, AnswerGateStep, GateRequestStep,
     PresentationResultStep, GateAnswerResultStep
<1> QED
  BY <1>1, <1>2, <1>3, <1>4, <1>5 DEF Next

\* The registry keeps its invariant for every number of websockets, requests,
\* gates, answers and every limit.
THEOREM HostInvariance == Spec => []HostInv
BY HostInvInit, HostInvStep, PTL DEF Spec

\* What the invariant says of a reader's properties.
LEMMA HostInvImplies == HostInv => RequestsAccounted /\ HonestDaemonKept
<1> SUFFICES ASSUME HostInv PROVE RequestsAccounted /\ HonestDaemonKept
  OBVIOUS
<1>1. TypeOK /\ Sound(reg) /\ refused = {}
  BY DEF HostInv
<1>2. CountExact
  BY <1>1 DEF Sound, CountExact, LiveOn
<1>3. \A r \in Req :
         Kept(reg.inv[r], reg.result[r], r \in reg.cancelling, Shown(reg, r),
              daemon[r], sock[reg.inv[r].socket])
  BY DEF HostInv, RequestKept
<1>4. SlotOwed
  BY <1>3 DEF SlotOwed, Kept
<1>5. IdleUnlessGated
  BY <1>3 DEF IdleUnlessGated, Kept
<1>6. PresentationDriven
  BY <1>3 DEF PresentationDriven, Kept, Shown
<1> QED
  BY <1>1, <1>2, <1>4, <1>5, <1>6 DEF RequestsAccounted, HonestDaemonKept

\* Slots are exact and every pending request has the timers that end it,
\* whatever frames, timeouts and lost connections come between.
THEOREM RequestsStayAccounted == Spec => []RequestsAccounted
BY HostInvariance, HostInvImplies, PTL

\* A daemon that keeps its word is never disconnected for a violation.
THEOREM HonestDaemonsStay == Spec => []HonestDaemonKept
BY HostInvariance, HostInvImplies, PTL
=============================================================================
