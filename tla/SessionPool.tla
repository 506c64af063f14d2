----------------------------- MODULE SessionPool -----------------------------
(***************************************************************************)
(* The daemon's pool of embedded SDK sessions, at most one per canonical   *)
(* working directory (daemon/src/session-pool.js, class SessionPool).      *)
(*                                                                         *)
(* The pool is single threaded; a step is one call, one promise settlement *)
(* or one timer, run up to the next await that is not yet settled.  The    *)
(* coroutine of one ensureSession per directory is the record in           *)
(* transitions; the object #retire makes for a session is kept with the    *)
(* session, because a session is retired at most once.  Validation of the  *)
(* directory and of identities happens before any state is read and is     *)
(* left out, and so is lastUsed: the reaper may find any session idle.     *)
(***************************************************************************)
EXTENDS Naturals, FiniteSets

CONSTANTS
    WorkDir,        \* canonical working directories
    Identity,       \* managed identities (receipt keys)
    DirOf,          \* [Identity -> WorkDir]: a binding has one directory
    Session,        \* SDK session objects
    Hold,           \* containment holds: callbacks that release activity leases
    MaxSessions,    \* options.maxSessions
    None            \* undefined

SdkState == {"unused", "creating", "live", "disposing", "disposed", "failed"}

Bounded == {"pending", "fulfilled", "rejected", "timed_out"}

\* retiring: awaiting the bounded disposal of the session to be replaced
\* creating: awaiting the bounded factory call
\* closing:  awaiting the bounded disposal of a session made after shutdown
\* cleanup:  cleanupPending, until the replaced session is settled
\* late:     cleanupPending, until the factory call that timed out settles
\* lateRetiring: cleanupPending, until the late session's disposal settles
Phase == {"retiring", "creating", "closing", "cleanup", "late", "lateRetiring"}

SdkSession == [st : SdkState, dir : WorkDir \cup {None}, id : Identity \cup {None},
               ended : BOOLEAN, bounded : Bounded, holds : SUBSET Hold]

Entry == [id : Identity \cup {None}, session : Session \cup {None}]

Transition == [id : Identity \cup {None}, phase : Phase, session : Session]

Receipt == [pc : {"transition", "scan", "bounded", "settling", "failed"},
            session : Session \cup {None}, holds : SUBSET Hold]

ASSUME PoolAssumption ==
    /\ DirOf \in [Identity -> WorkDir]
    /\ MaxSessions \in Nat \ {0}
    /\ None \notin Identity \cup WorkDir \cup Session \cup Entry \cup Transition
                  \cup Receipt
    /\ Session \cap Identity = {}
    /\ IsFiniteSet(WorkDir)

VARIABLES
    sdk,                 \* [Session -> its SDK state and its retirement object]
    sessions,            \* this.sessions: [id, session], session = None while creating
    retirements,         \* this.retirements: the session being retired
    creationHolds,       \* this.creationHolds: the session being created
    transitions,         \* this.sessionTransitions and the coroutine behind it
    receiptRetirements,  \* this.receiptRetirements
    owner,               \* ghost: whom the pool keeps a hold for
    closed               \* this.closed

vars == <<sdk, sessions, retirements, creationHolds, transitions,
          receiptRetirements, owner, closed>>

TypeOK ==
    /\ sdk \in [Session -> SdkSession]
    /\ sessions \in [WorkDir -> Entry \cup {None}]
    /\ retirements \in [WorkDir -> Session \cup {None}]
    /\ creationHolds \in [WorkDir -> Session \cup {None}]
    /\ transitions \in [WorkDir -> Transition \cup {None}]
    /\ receiptRetirements \in [Identity -> Receipt \cup {None}]
    /\ owner \in [Hold -> Session \cup Identity \cup {None}]
    /\ closed \in BOOLEAN

Init ==
    /\ sdk = [s \in Session |-> [st |-> "unused", dir |-> None, id |-> None,
                                 ended |-> FALSE, bounded |-> "pending",
                                 holds |-> {}]]
    /\ sessions = [d \in WorkDir |-> None]
    /\ retirements = [d \in WorkDir |-> None]
    /\ creationHolds = [d \in WorkDir |-> None]
    /\ transitions = [d \in WorkDir |-> None]
    /\ receiptRetirements = [i \in Identity |-> None]
    /\ owner = [h \in Hold |-> None]
    /\ closed = FALSE

Alive(s) == sdk[s].st \in {"creating", "live", "disposing", "failed"}

Settled(s) == sdk[s].st \in {"disposed", "failed"}

\* Mutant: pending retirements and late creations are not counted.
MutantAdmitted == {d \in WorkDir : sessions[d] # None}

Admitted == {d \in WorkDir : \/ sessions[d] # None
                             \/ retirements[d] # None
                             \/ creationHolds[d] # None}

\* A session object nothing in the pool refers to any more.
Fresh(s) ==
    /\ sdk[s].st \in {"unused", "disposed"}
    /\ \A d \in WorkDir : transitions[d] # None => transitions[d].session # s
    /\ \A i \in Identity : receiptRetirements[i] # None => receiptRetirements[i].session # s

-----------------------------------------------------------------------------
(* Pieces the operations share. *)

\* #retire for the sessions in S, with H added to the holds of each.
retireEffect(S, H) ==
    /\ sdk' = [s \in Session |->
          IF s \in S THEN [sdk[s] EXCEPT !.st = "disposing", !.bounded = "pending",
                                         !.holds = H]
                     ELSE sdk[s]]
    /\ retirements' = [d \in WorkDir |->
          IF \E s \in S : sdk[s].dir = d
          THEN CHOOSE s \in S : sdk[s].dir = d ELSE retirements[d]]

\* The entry a failing ensureSession put into sessions, unless shutdown cleared it.
dropEntry(d) ==
    sessions' = [sessions EXCEPT ![d] =
        IF @ # None /\ @.session = None THEN None ELSE @]

\* #createSessionBounded up to its await.
startCreate(d, id, s) ==
    /\ Fresh(s)
    /\ sdk' = [sdk EXCEPT ![s] = [st |-> "creating", dir |-> d, id |-> id,
                                  ended |-> FALSE, bounded |-> "pending",
                                  holds |-> {}]]
    /\ creationHolds' = [creationHolds EXCEPT ![d] = s]
    /\ transitions' = [transitions EXCEPT ![d] =
          [id |-> id, phase |-> "creating", session |-> s]]

Releasing(H) == [h \in Hold |-> IF h \in H THEN None ELSE owner[h]]

Giving(H, to) == [h \in Hold |-> IF h \in H THEN to ELSE owner[h]]

\* Callbacks a caller may hand over.
Spare == {h \in Hold : owner[h] = None}

\* The transition of d is cleared; a receipt retirement that awaits it goes on,
\* or fails with the cleanup it awaited.
endTransition(d, cleanupFailed) ==
    /\ transitions' = [transitions EXCEPT ![d] = None]
    /\ receiptRetirements' = [i \in Identity |->
          IF /\ receiptRetirements[i] # None
             /\ receiptRetirements[i].pc = "transition"
             /\ transitions[d].id = i
          THEN [receiptRetirements[i] EXCEPT !.pc = IF cleanupFailed THEN "failed" ELSE "scan"]
          ELSE receiptRetirements[i]]

-----------------------------------------------------------------------------
(* ensureSession and the coroutine it starts. *)

\* The checks before #ensureCanonicalSession.  With a transition in progress the
\* caller joins it or is refused; a session that fits is returned as it is.
mayEnsure(d, id) ==
    /\ ~closed
    /\ id # None => DirOf[id] = d /\ receiptRetirements[id] = None
    /\ retirements[d] = None
    /\ transitions[d] = None

ensureFirst(d, id, s) ==
    /\ mayEnsure(d, id)
    /\ sessions[d] = None
    /\ Cardinality(Admitted) < MaxSessions
    /\ sessions' = [sessions EXCEPT ![d] = [id |-> id, session |-> None]]
    /\ startCreate(d, id, s)
    /\ UNCHANGED <<retirements, receiptRetirements, owner, closed>>

ensureReplacement(d, id) ==
    /\ mayEnsure(d, id)
    /\ sessions[d] # None
    /\ sessions[d].session # None
    /\ sessions[d].id # id \/ sdk[sessions[d].session].ended
    /\ retireEffect({sessions[d].session}, {})
    /\ transitions' = [transitions EXCEPT ![d] =
          [id |-> id, phase |-> "retiring", session |-> sessions[d].session]]
    /\ sessions' = [sessions EXCEPT ![d] = [id |-> id, session |-> None]]
    /\ UNCHANGED <<creationHolds, receiptRetirements, owner, closed>>

InPhase(d, phase) == transitions[d] # None /\ transitions[d].phase = phase

\* Mutant: a disposal that timed out counts as done.
MutantReplacementTimedOut(d, s) ==
    /\ InPhase(d, "retiring")
    /\ sdk[transitions[d].session].bounded \in {"fulfilled", "timed_out"}
    /\ startCreate(d, transitions[d].id, s)
    /\ UNCHANGED <<sessions, retirements, receiptRetirements, owner, closed>>

\* #retireForReplacement returns: the new session is created, also when the pool
\* was shut down meanwhile.
replacementRetired(d, s) ==
    /\ InPhase(d, "retiring")
    /\ sdk[transitions[d].session].bounded = "fulfilled"
    /\ startCreate(d, transitions[d].id, s)
    /\ UNCHANGED <<sessions, retirements, receiptRetirements, owner, closed>>

\* #retireForReplacement throws.
replacementFailed(d) ==
    /\ InPhase(d, "retiring")
    /\ dropEntry(d)
    /\ \/ /\ sdk[transitions[d].session].bounded = "rejected"
          /\ endTransition(d, FALSE)
       \/ /\ sdk[transitions[d].session].bounded = "timed_out"
          /\ transitions' = [transitions EXCEPT ![d].phase = "cleanup"]
          /\ UNCHANGED receiptRetirements
    /\ UNCHANGED <<sdk, retirements, creationHolds, owner, closed>>

cleanupSettled(d) ==
    /\ InPhase(d, "cleanup")
    /\ Settled(transitions[d].session)
    /\ endTransition(d, sdk[transitions[d].session].st = "failed")
    /\ UNCHANGED <<sdk, sessions, retirements, creationHolds, owner, closed>>

\* The factory call settles in time.
created(d) ==
    LET s == transitions[d].session IN
    /\ InPhase(d, "creating")
    /\ ~closed
    /\ sdk' = [sdk EXCEPT ![s].st = "live"]
    /\ creationHolds' = [creationHolds EXCEPT ![d] = None]
    /\ sessions' = [sessions EXCEPT ![d].session = s]
    /\ endTransition(d, FALSE)
    /\ UNCHANGED <<retirements, owner, closed>>

\* Mutant: the session delivered after shutdown is forgotten.
MutantCreatedAfterShutdown(d) ==
    /\ InPhase(d, "creating")
    /\ closed
    /\ sdk' = [sdk EXCEPT ![transitions[d].session].st = "live"]
    /\ creationHolds' = [creationHolds EXCEPT ![d] = None]
    /\ endTransition(d, FALSE)
    /\ UNCHANGED <<sessions, retirements, owner, closed>>

createdAfterShutdown(d) ==
    LET s == transitions[d].session IN
    /\ InPhase(d, "creating")
    /\ closed
    /\ retireEffect({s}, {})
    /\ creationHolds' = [creationHolds EXCEPT ![d] = None]
    /\ transitions' = [transitions EXCEPT ![d].phase = "closing"]
    /\ UNCHANGED <<sessions, receiptRetirements, owner, closed>>

closingDone(d) ==
    /\ InPhase(d, "closing")
    /\ sdk[transitions[d].session].bounded # "pending"
    /\ dropEntry(d)
    /\ endTransition(d, FALSE)
    /\ UNCHANGED <<sdk, retirements, creationHolds, owner, closed>>

\* Mutant: the entry of the failed creation stays.
MutantCreateFailed(d) ==
    /\ InPhase(d, "creating") \/ InPhase(d, "late")
    /\ sdk' = [sdk EXCEPT ![transitions[d].session].st = "unused"]
    /\ creationHolds' = [creationHolds EXCEPT ![d] = None]
    /\ endTransition(d, FALSE)
    /\ UNCHANGED <<sessions, retirements, owner, closed>>

\* The factory rejects, in time or late.
createFailed(d) ==
    /\ InPhase(d, "creating") \/ InPhase(d, "late")
    /\ sdk' = [sdk EXCEPT ![transitions[d].session].st = "unused"]
    /\ creationHolds' = [creationHolds EXCEPT ![d] = None]
    /\ dropEntry(d)
    /\ endTransition(d, FALSE)
    /\ UNCHANGED <<retirements, owner, closed>>

\* Mutant: the pending factory call is forgotten.
MutantCreateTimedOutForgets(d) ==
    /\ InPhase(d, "creating")
    /\ dropEntry(d)
    /\ transitions' = [transitions EXCEPT ![d] =
          [id |-> @.id, phase |-> "late", session |-> None]]
    /\ UNCHANGED <<sdk, retirements, creationHolds, receiptRetirements, owner, closed>>

\* Mutant: shutdown disarms the creation timeout.
MutantCreateTimedOutDisarmed(d) ==
    /\ InPhase(d, "creating")
    /\ ~closed
    /\ dropEntry(d)
    /\ transitions' = [transitions EXCEPT ![d].phase = "late"]
    /\ UNCHANGED <<sdk, retirements, creationHolds, receiptRetirements, owner, closed>>

createTimedOut(d) ==
    /\ InPhase(d, "creating")
    /\ dropEntry(d)
    /\ transitions' = [transitions EXCEPT ![d].phase = "late"]
    /\ UNCHANGED <<sdk, retirements, creationHolds, receiptRetirements, owner, closed>>

\* Mutant: the late session is nobody's.
MutantCreatedLate(d) ==
    /\ InPhase(d, "late")
    /\ sdk' = [sdk EXCEPT ![transitions[d].session].st = "live"]
    /\ creationHolds' = [creationHolds EXCEPT ![d] = None]
    /\ endTransition(d, FALSE)
    /\ UNCHANGED <<sessions, retirements, owner, closed>>

\* The factory delivers after its timeout: the session is retired at once.
createdLate(d) ==
    /\ InPhase(d, "late")
    /\ retireEffect({transitions[d].session}, {})
    /\ transitions' = [transitions EXCEPT ![d].phase = "lateRetiring"]
    /\ UNCHANGED <<sessions, creationHolds, receiptRetirements, owner, closed>>

\* Mutant: the transition is cleared only after a disposal that succeeds.
MutantLateSettled(d) ==
    /\ InPhase(d, "lateRetiring")
    /\ sdk[transitions[d].session].st = "disposed"
    /\ creationHolds' = [creationHolds EXCEPT ![d] = None]
    /\ endTransition(d, FALSE)
    /\ UNCHANGED <<sdk, sessions, retirements, owner, closed>>

\* A failed disposal fails the cleanup of a managed session only.
lateSettled(d) ==
    LET s == transitions[d].session IN
    /\ InPhase(d, "lateRetiring")
    /\ Settled(s)
    /\ creationHolds' = [creationHolds EXCEPT ![d] = None]
    /\ endTransition(d, sdk[s].st = "failed" /\ transitions[d].id # None)
    /\ UNCHANGED <<sdk, sessions, retirements, owner, closed>>

-----------------------------------------------------------------------------
(* Disposal of a retired session. *)

disposed(s) ==
    /\ sdk[s].st = "disposing"
    /\ sdk' = [sdk EXCEPT ![s].st = "disposed", ![s].holds = {},
                          ![s].bounded = IF @ = "pending" THEN "fulfilled" ELSE @]
    /\ retirements' = [d \in WorkDir |-> IF retirements[d] = s THEN None ELSE retirements[d]]
    /\ owner' = Releasing(sdk[s].holds)
    /\ UNCHANGED <<sessions, creationHolds, transitions, receiptRetirements, closed>>

\* Mutant: the holds are released however the disposal ends.
MutantDisposeFailed(s) ==
    /\ sdk[s].st = "disposing"
    /\ sdk' = [sdk EXCEPT ![s].st = "failed", ![s].holds = {},
                          ![s].bounded = IF @ = "pending" THEN "rejected" ELSE @]
    /\ owner' = Releasing(sdk[s].holds)
    /\ UNCHANGED <<sessions, retirements, creationHolds, transitions,
                   receiptRetirements, closed>>

disposeFailed(s) ==
    /\ sdk[s].st = "disposing"
    /\ sdk' = [sdk EXCEPT ![s].st = "failed",
                          ![s].bounded = IF @ = "pending" THEN "rejected" ELSE @]
    /\ UNCHANGED <<sessions, retirements, creationHolds, transitions,
                   receiptRetirements, owner, closed>>

disposeTimedOut(s) ==
    /\ sdk[s].st = "disposing"
    /\ sdk[s].bounded = "pending"
    /\ sdk' = [sdk EXCEPT ![s].bounded = "timed_out"]
    /\ UNCHANGED <<sessions, retirements, creationHolds, transitions,
                   receiptRetirements, owner, closed>>

-----------------------------------------------------------------------------
(* Callers that retire sessions. *)

\* #reapIdle, finding the sessions of the directories in D idle.
reapIdle(D) ==
    /\ ~closed
    /\ D # {}
    /\ \A d \in D : sessions[d] # None /\ sessions[d].session # None
    /\ retireEffect({sessions[d].session : d \in D}, {})
    /\ sessions' = [d \in WorkDir |-> IF d \in D THEN None ELSE sessions[d]]
    /\ UNCHANGED <<creationHolds, transitions, receiptRetirements, owner, closed>>

\* Adding holds to a retirement releases them at once when it is over.
addRetirementHolds(s, H, to) ==
    IF sdk[s].st = "disposed"
    THEN UNCHANGED <<sdk, owner>>
    ELSE /\ sdk' = [sdk EXCEPT ![s].holds = @ \cup H]
         /\ owner' = Giving(H, to)

\* retireSession.  For a session already disposed of, the holds are released at
\* once and nothing changes.
retireSession(s, H) ==
    LET retiring == \E d \in WorkDir : retirements[d] = s IN
    /\ H \subseteq Spare
    /\ UNCHANGED <<creationHolds, transitions, receiptRetirements, closed>>
    /\ \/ /\ retiring
          /\ addRetirementHolds(s, H, s)
          /\ UNCHANGED <<sessions, retirements>>
       \/ /\ ~retiring
          /\ \E d \in WorkDir :
                /\ sessions[d] # None
                /\ sessions[d].session = s
                /\ sessions' = [sessions EXCEPT ![d] = None]
          /\ retireEffect({s}, H)
          /\ owner' = Giving(H, s)

\* Mutant: the holds are cleared before they are handed to the retirement.
MutantScan(i, H) ==
    LET retiring == {s \in Session : sdk[s].id = i /\ \E d \in WorkDir : retirements[d] = s}
        matching == {d \in WorkDir : sessions[d] # None /\ sessions[d].id = i}
        awaits(s) == [receiptRetirements EXCEPT ![i] =
                         [pc |-> "bounded", session |-> s, holds |-> {}]]
    IN  \/ \E s \in retiring :
              /\ receiptRetirements' = awaits(s)
              /\ owner' = Giving(H, i)
              /\ UNCHANGED <<sdk, sessions, retirements>>
        \/ \E d \in matching :
              /\ retiring = {}
              /\ sessions[d].session # None
              /\ retireEffect({sessions[d].session}, {})
              /\ receiptRetirements' = awaits(sessions[d].session)
              /\ owner' = Giving(H, i)
              /\ sessions' = [sessions EXCEPT ![d] = None]
        \/ /\ retiring = {} /\ matching = {}
           /\ receiptRetirements' = [receiptRetirements EXCEPT ![i] = None]
           /\ owner' = Releasing(H)
           /\ UNCHANGED <<sdk, sessions, retirements>>

\* #retireManagedReceipt after the transition of its identity is over, with the
\* holds H: it joins the retirement of the identity's session, or retires that
\* session, or finds nothing to wait for.
scan(i, H) ==
    LET retiring == {s \in Session : sdk[s].id = i /\ \E d \in WorkDir : retirements[d] = s}
        matching == {d \in WorkDir : sessions[d] # None /\ sessions[d].id = i}
        awaits(s) == [receiptRetirements EXCEPT ![i] =
                         [pc |-> "bounded", session |-> s, holds |-> {}]]
    IN  \/ \E s \in retiring :
              /\ sdk' = [sdk EXCEPT ![s].holds = @ \cup H]
              /\ receiptRetirements' = awaits(s)
              /\ owner' = Giving(H, i)
              /\ UNCHANGED <<sessions, retirements>>
        \/ \E d \in matching :
              /\ retiring = {}
              /\ sessions[d].session # None
              /\ retireEffect({sessions[d].session}, H)
              /\ receiptRetirements' = awaits(sessions[d].session)
              /\ owner' = Giving(H, i)
              /\ sessions' = [sessions EXCEPT ![d] = None]
        \/ /\ retiring = {} /\ matching = {}
           /\ receiptRetirements' = [receiptRetirements EXCEPT ![i] = None]
           /\ owner' = Releasing(H)
           /\ UNCHANGED <<sdk, sessions, retirements>>

retireManagedReceipt(i, H) ==
    /\ ~closed
    /\ H \subseteq Spare
    /\ receiptRetirements[i] = None
    /\ UNCHANGED <<creationHolds, transitions, closed>>
    /\ IF \E d \in WorkDir : transitions[d] # None /\ transitions[d].id = i
       THEN /\ receiptRetirements' = [receiptRetirements EXCEPT ![i] =
                  [pc |-> "transition", session |-> None, holds |-> H]]
            /\ owner' = Giving(H, i)
            /\ UNCHANGED <<sdk, sessions, retirements>>
       ELSE scan(i, H)

\* A further call while the first is not over only hands its holds to it.
retireManagedReceiptAgain(i, H) ==
    /\ ~closed
    /\ H \subseteq Spare
    /\ receiptRetirements[i] # None
    /\ UNCHANGED <<sessions, retirements, creationHolds, transitions, closed>>
    /\ IF receiptRetirements[i].session # None
       THEN /\ addRetirementHolds(receiptRetirements[i].session, H, i)
            /\ UNCHANGED receiptRetirements
       ELSE /\ receiptRetirements' = [receiptRetirements EXCEPT ![i].holds = @ \cup H]
            /\ owner' = Giving(H, i)
            /\ UNCHANGED sdk

receiptResumed(i) ==
    /\ receiptRetirements[i] # None
    /\ receiptRetirements[i].pc = "scan"
    /\ scan(i, receiptRetirements[i].holds)
    /\ UNCHANGED <<creationHolds, transitions, closed>>

\* Mutant: only a settlement that succeeds is noticed after the timeout.
MutantReceiptAnswered(i) ==
    LET r == receiptRetirements[i]
        x == sdk[r.session]
    IN  /\ r # None
        /\ \/ /\ r.pc = "bounded" /\ x.bounded = "timed_out"
              /\ receiptRetirements' = [receiptRetirements EXCEPT ![i].pc = "settling"]
           \/ /\ \/ r.pc = "bounded" /\ x.bounded \in {"fulfilled", "rejected"}
                 \/ r.pc = "settling" /\ x.st = "disposed"
              /\ receiptRetirements' = [receiptRetirements EXCEPT ![i] =
                    IF x.st = "disposed" THEN None ELSE [@ EXCEPT !.pc = "failed"]]
        /\ UNCHANGED <<sdk, sessions, retirements, creationHolds, transitions, owner, closed>>

\* The bounded disposal it awaits is over, or the settlement after a timeout.
receiptAnswered(i) ==
    LET r == receiptRetirements[i]
        x == sdk[r.session]
    IN  /\ r # None
        /\ \/ /\ r.pc = "bounded" /\ x.bounded = "timed_out"
              /\ receiptRetirements' = [receiptRetirements EXCEPT ![i].pc = "settling"]
           \/ /\ \/ r.pc = "bounded" /\ x.bounded \in {"fulfilled", "rejected"}
                 \/ r.pc = "settling" /\ Settled(r.session)
              /\ receiptRetirements' = [receiptRetirements EXCEPT ![i] =
                    IF x.st = "disposed" THEN None ELSE [@ EXCEPT !.pc = "failed"]]
        /\ UNCHANGED <<sdk, sessions, retirements, creationHolds, transitions, owner, closed>>

shutdown ==
    LET open == {d \in WorkDir : sessions[d] # None /\ sessions[d].session # None} IN
    /\ ~closed
    /\ closed' = TRUE
    /\ retireEffect({sessions[d].session : d \in open}, {})
    /\ sessions' = [d \in WorkDir |-> None]
    /\ UNCHANGED <<creationHolds, transitions, receiptRetirements, owner>>

\* The SDK session ends by itself (session.closed).
sessionEnds(s) ==
    /\ sdk[s].st = "live"
    /\ ~sdk[s].ended
    /\ sdk' = [sdk EXCEPT ![s].ended = TRUE]
    /\ UNCHANGED <<sessions, retirements, creationHolds, transitions,
                   receiptRetirements, owner, closed>>

-----------------------------------------------------------------------------
Call ==
    \/ \E d \in WorkDir, id \in Identity \cup {None}, s \in Session : ensureFirst(d, id, s)
    \/ \E d \in WorkDir, id \in Identity \cup {None} : ensureReplacement(d, id)
    \/ \E D \in SUBSET WorkDir : reapIdle(D)
    \/ \E s \in Session, H \in SUBSET Hold : retireSession(s, H)
    \/ \E i \in Identity, H \in SUBSET Hold : retireManagedReceipt(i, H)
    \/ \E i \in Identity, H \in SUBSET Hold : retireManagedReceiptAgain(i, H)
    \/ shutdown

\* Steps of the event loop: continuations and timers.
Continue(d) ==
    \/ \E s \in Session : replacementRetired(d, s)
    \/ replacementFailed(d)
    \/ cleanupSettled(d)
    \/ closingDone(d)
    \/ lateSettled(d)

FactorySettles(d) == created(d) \/ createdAfterShutdown(d) \/ createdLate(d) \/ createFailed(d)

DisposeSettles(s) == disposed(s) \/ disposeFailed(s)

ReceiptContinues(i) == receiptResumed(i) \/ receiptAnswered(i)

Next ==
    \/ Call
    \/ \E d \in WorkDir : Continue(d) \/ FactorySettles(d) \/ createTimedOut(d)
    \/ \E s \in Session : DisposeSettles(s) \/ disposeTimedOut(s) \/ sessionEnds(s)
    \/ \E i \in Identity : ReceiptContinues(i)

Spec == Init /\ [][Next]_vars

-----------------------------------------------------------------------------
(* Properties *)

\* At most one SDK session of a directory exists at any time: being created,
\* live, being disposed of, or stuck after a failed disposal.  Replacement, late
\* creations, the reaper, containment and shutdown all compete for the slot.
OneSessionPerWorkDir ==
    \A s, t \in Session :
        Alive(s) /\ Alive(t) /\ sdk[s].dir = sdk[t].dir => s = t

\* No session escapes the pool: whatever the order of timeouts, late factory
\* results and shutdown, each one is in the Map its state calls for.
EverySessionTracked ==
    \A s \in Session :
        /\ sdk[s].st = "creating" => creationHolds[sdk[s].dir] = s
        /\ sdk[s].st = "live" => /\ sessions[sdk[s].dir] # None
                                 /\ sessions[sdk[s].dir].session = s
        /\ sdk[s].st \in {"disposing", "failed"} => retirements[sdk[s].dir] = s

\* #retire never meets the retirement of another session ("SDK session
\* retirement identity mismatch"): while a directory has one, it has no session
\* and its coroutine cannot deliver one.
RetireNeverConflicts ==
    \A d \in WorkDir : retirements[d] # None =>
        /\ sessions[d] # None => sessions[d].session = None
        /\ ~InPhase(d, "creating") /\ ~InPhase(d, "late")

\* An entry without a session has the coroutine that will fill or remove it, for
\* the same identity: nobody finds a creation to await outside a transition.
CreationHasTransition ==
    \A d \in WorkDir : sessions[d] # None /\ sessions[d].session = None =>
        /\ InPhase(d, "retiring") \/ InPhase(d, "creating")
        /\ transitions[d].id = sessions[d].id

\* Sessions being created, also past their timeout, live sessions and those whose
\* disposal is pending or failed together stay within maxSessions.
AdmissionBound == Cardinality({s \in Session : Alive(s)}) <= MaxSessions

\* A hold the pool accepted is kept in exactly one place until it is released.
HoldsKept ==
    \A h \in Hold :
        LET places == {s \in Session : h \in sdk[s].holds} \cup
                      {i \in Identity : /\ receiptRetirements[i] # None
                                        /\ h \in receiptRetirements[i].holds}
        IN  Cardinality(places) = IF owner[h] = None THEN 0 ELSE 1

\* A hold is released only when the session it contains was positively disposed
\* of, or, for a receipt, when no session of that identity is left in any state:
\* the activity lease behind it never reopens a workspace under a live session.
HoldOutlivesSession ==
    [][\A h \in Hold : owner[h] # None /\ owner'[h] = None =>
          \A s \in Session : s = owner[h] \/ sdk[s].id = owner[h] => ~Alive(s)']_vars

\* Timers and continuations run; the SDK may hang for ever.
LoopFairness ==
    /\ \A d \in WorkDir : WF_vars(Continue(d)) /\ WF_vars(createTimedOut(d))
    /\ \A s \in Session : WF_vars(disposeTimedOut(s))
    /\ \A i \in Identity : WF_vars(ReceiptContinues(i))

\* The factory and dispose() settle at last: what some properties assume.
SdkFairness ==
    /\ \A d \in WorkDir : WF_vars(FactorySettles(d))
    /\ \A s \in Session : WF_vars(DisposeSettles(s))

LoopSpec == Spec /\ LoopFairness

\* ensureSession answers its callers even if the factory and dispose() hang:
\* the coroutine finishes or turns into a pending cleanup.
EnsureAnswers ==
    \A d \in WorkDir :
        (\E p \in {"retiring", "creating", "closing"} : InPhase(d, p))
            ~> ~(\E p \in {"retiring", "creating", "closing"} : InPhase(d, p))

\* If the SDK settles its calls, no transition blocks its directory for ever ...
TransitionsEnd ==
    SdkFairness => \A d \in WorkDir : (transitions[d] # None ~> transitions[d] = None)

\* ... every receipt retirement ends, done or failed ...
ReceiptsEnd ==
    SdkFairness => \A i \in Identity :
        (receiptRetirements[i] # None ~>
            (receiptRetirements[i] = None \/ receiptRetirements[i].pc = "failed"))

\* ... and a pool that was shut down gets rid of every session it can: also of
\* those that were being created or replaced when shutdown() ran.
ShutdownDrains ==
    SdkFairness =>
        (closed ~> \A s \in Session : sdk[s].st \in {"unused", "disposed", "failed"})

\* The pool is consistent between any two turns of the event loop: the facts
\* above about #entries, #creationHolds, #retirements, #transitions and the
\* holds, which replacement, timeouts, late factory results, the reaper,
\* containment and shutdown() all write.
PoolConsistent ==
    /\ TypeOK /\ OneSessionPerWorkDir /\ EverySessionTracked /\ RetireNeverConflicts
    /\ CreationHasTransition /\ AdmissionBound /\ HoldsKept

\* Nothing the pool begins is left hanging: callers are answered in any case, and
\* transitions, retirements and the shutdown end if the SDK settles its calls.
PoolEnds == EnsureAnswers /\ TransitionsEnd /\ ReceiptsEnd /\ ShutdownDrains
=============================================================================
