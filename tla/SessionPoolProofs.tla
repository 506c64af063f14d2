-------------------------- MODULE SessionPoolProofs --------------------------
(***************************************************************************)
(* Proofs about module SessionPool, for any directories, identities,       *)
(* sessions, holds and any maxSessions.  The Maps of the pool are tied     *)
(* together directory by directory: what a directory's entries say of the  *)
(* sessions they name, and what a session's state says of the entries of   *)
(* its directory.                                                          *)
(***************************************************************************)
EXTENDS SessionPool, FiniteSetTheorems, TLAPS

-----------------------------------------------------------------------------
(* The inductive invariant.                                                *)

\* Directory d: the entry e of sessions, the retirement r, the creation hold c
\* and the transition t, given the SDK sessions x and whether the pool is closed.
DirKept(x, e, r, c, t, cl, d) ==
    /\ e # None => ~cl /\ (e.id # None => DirOf[e.id] = d)
    /\ e # None /\ e.session # None =>
          /\ t = None /\ r = None /\ c = None
          /\ x[e.session].st = "live" /\ x[e.session].dir = d
          /\ x[e.session].id = e.id
    /\ e # None /\ e.session = None =>
          t # None /\ t.phase \in {"retiring", "creating"} /\ t.id = e.id
    /\ r # None => x[r].st \in {"disposing", "failed"} /\ x[r].dir = d
    /\ c # None => /\ t # None /\ t.session = c
                   /\ t.phase \in {"creating", "late", "lateRetiring"}
    /\ t # None =>
          /\ t.id # None => DirOf[t.id] = d
          /\ x[t.session].dir = d
          /\ t.phase \in {"creating", "late"} =>
                c = t.session /\ r = None /\ x[t.session].st = "creating"
                /\ x[t.session].id = t.id
          /\ t.phase \notin {"creating", "late"} =>
                r \in {None, t.session}
                /\ x[t.session].st \in {"disposing", "failed", "disposed"}
          /\ t.phase \in {"retiring", "creating"} /\ ~cl => e # None

\* Session s: the Map its state calls for.
SessionKept(x, E, R, C, s) ==
    /\ x[s].st # "unused" /\ x[s].st # "disposed" =>
          x[s].dir \in WorkDir /\ (x[s].id # None => DirOf[x[s].id] = x[s].dir)
    /\ x[s].st = "creating" => C[x[s].dir] = s
    /\ x[s].st = "live" => E[x[s].dir] # None /\ E[x[s].dir].session = s
    /\ x[s].st \in {"disposing", "failed"} => R[x[s].dir] = s
    /\ x[s].st \notin {"disposing", "failed"} => x[s].holds = {}
    /\ x[s].bounded = "fulfilled" => x[s].st = "disposed"

\* The retirement q of receipt i, given the transitions T.
ReceiptKept(x, T, q, i) ==
    q # None =>
      /\ q.session # None => /\ q.holds = {} /\ x[q.session].id = i
                             /\ x[q.session].st \in {"disposing", "failed", "disposed"}
      /\ q.pc \in {"bounded", "settling"} <=> q.session # None /\ q.pc # "failed"
      /\ q.pc # "transition" => \A d \in WorkDir : T[d] # None => T[d].id # i

\* Hold h has one keeper, and belongs to the session it contains or to its identity.
HoldKept(x, q, o, h) ==
    /\ \A s \in Session : h \in x[s].holds => o # None /\ (o = s \/ o = x[s].id)
    /\ \A i \in Identity : q[i] # None /\ h \in q[i].holds => o = i
    /\ \A s, t \in Session : h \in x[s].holds /\ h \in x[t].holds => s = t
    /\ \A s \in Session, i \in Identity :
          q[i] # None /\ h \in q[i].holds => h \notin x[s].holds
    /\ o # None => \/ \E s \in Session : h \in x[s].holds
                   \/ \E i \in Identity : q[i] # None /\ h \in q[i].holds

\* The directories that hold a place, also while their session is replaced.
Held == Admitted \cup {d \in WorkDir : InPhase(d, "retiring")}

Structure ==
    /\ \A d \in WorkDir : DirKept(sdk, sessions[d], retirements[d], creationHolds[d],
                                  transitions[d], closed, d)
    /\ \A s \in Session : SessionKept(sdk, sessions, retirements, creationHolds, s)
    /\ \A i \in Identity : ReceiptKept(sdk, transitions, receiptRetirements[i], i)

Holds == \A h \in Hold : HoldKept(sdk, receiptRetirements, owner[h], h)

PoolInv == TypeOK /\ Structure /\ Holds /\ Cardinality(Held) <= MaxSessions

-----------------------------------------------------------------------------
(* Types, and who refers to whom.                                          *)

\* What is known of a directory.
LEMMA DirTyped ==
    ASSUME PoolInv, NEW d \in WorkDir
    PROVE  /\ sessions[d] \in Entry \cup {None}
           /\ retirements[d] \in Session \cup {None}
           /\ creationHolds[d] \in Session \cup {None}
           /\ transitions[d] \in Transition \cup {None}
           /\ DirKept(sdk, sessions[d], retirements[d], creationHolds[d],
                      transitions[d], closed, d)
           /\ sessions[d] # None => sessions[d].id \in Identity \cup {None}
                                    /\ sessions[d].session \in Session \cup {None}
           /\ transitions[d] # None => transitions[d].id \in Identity \cup {None}
                                       /\ transitions[d].session \in Session
                                       /\ transitions[d].phase \in Phase
<1>1. /\ sessions[d] \in Entry \cup {None}
      /\ retirements[d] \in Session \cup {None}
      /\ creationHolds[d] \in Session \cup {None}
      /\ transitions[d] \in Transition \cup {None}
  BY DEF PoolInv, TypeOK
<1>2. DirKept(sdk, sessions[d], retirements[d], creationHolds[d],
              transitions[d], closed, d)
  BY DEF PoolInv, Structure
<1> QED
  BY <1>1, <1>2 DEF Entry, Transition

\* What is known of a session.
LEMMA SessionTyped ==
    ASSUME PoolInv, NEW s \in Session
    PROVE  /\ sdk \in [Session -> SdkSession] /\ sdk[s] \in SdkSession
           /\ sdk[s].st \in SdkState /\ sdk[s].holds \subseteq Hold
           /\ SessionKept(sdk, sessions, retirements, creationHolds, s)
           /\ s # None
<1>1. sdk \in [Session -> SdkSession] /\ sdk[s] \in SdkSession
  BY DEF PoolInv, TypeOK
<1>2. SessionKept(sdk, sessions, retirements, creationHolds, s)
  BY DEF PoolInv, Structure
<1> QED
  BY <1>1, <1>2, PoolAssumption DEF SdkSession

\* No session but s is under way in d.
Alone(s, d) ==
    \A t \in Session \ {s} : sdk[t].st \notin {"unused", "disposed"} => sdk[t].dir # d

\* No other directory refers to s.
Apart(s, d) ==
    \A e \in WorkDir \ {d} :
        /\ sessions[e] # None => sessions[e].session # s
        /\ retirements[e] # s /\ creationHolds[e] # s
        /\ transitions[e] # None => transitions[e].session # s

\* Where the entries of a directory put the sessions under way in it.
LEMMA InDirectory ==
    ASSUME PoolInv, NEW t \in Session, sdk[t].st \notin {"unused", "disposed"}
    PROVE  /\ sdk[t].dir \in WorkDir
           /\ \/ creationHolds[sdk[t].dir] = t /\ sdk[t].st = "creating"
              \/ /\ sessions[sdk[t].dir] # None
                 /\ sessions[sdk[t].dir].session = t /\ sdk[t].st = "live"
              \/ /\ retirements[sdk[t].dir] = t
                 /\ sdk[t].st \in {"disposing", "failed"}
BY SessionTyped DEF SessionKept, SdkState

\* A directory has one session under way.
LEMMA AliveAlone ==
    ASSUME PoolInv, NEW s \in Session, NEW d \in WorkDir,
           sdk[s].st \notin {"unused", "disposed"}, sdk[s].dir = d
    PROVE  Alone(s, d)
<1> SUFFICES ASSUME NEW t \in Session, sdk[t].st \notin {"unused", "disposed"},
                    sdk[t].dir = d
             PROVE  t = s
  BY DEF Alone
<1>1. /\ \/ creationHolds[d] = s /\ sdk[s].st = "creating"
         \/ /\ sessions[d] # None
            /\ sessions[d].session = s /\ sdk[s].st = "live"
         \/ retirements[d] = s /\ sdk[s].st \in {"disposing", "failed"}
      /\ \/ creationHolds[d] = t /\ sdk[t].st = "creating"
         \/ /\ sessions[d] # None
            /\ sessions[d].session = t /\ sdk[t].st = "live"
         \/ retirements[d] = t /\ sdk[t].st \in {"disposing", "failed"}
  BY InDirectory
<1>2. DirKept(sdk, sessions[d], retirements[d], creationHolds[d], transitions[d],
              closed, d)
  BY DirTyped
<1>3. s # None /\ t # None
  BY PoolAssumption
<1> QED
  BY <1>1, <1>2, <1>3 DEF DirKept

\* The session of a transition is the only one under way.
LEMMA TransitionAlone ==
    ASSUME PoolInv, NEW d \in WorkDir, transitions[d] # None
    PROVE  Alone(transitions[d].session, d)
<1> DEFINE s == transitions[d].session
<1> SUFFICES ASSUME NEW t \in Session, sdk[t].st \notin {"unused", "disposed"},
                    sdk[t].dir = d
             PROVE  t = s
  BY DEF Alone
<1>1. \/ creationHolds[d] = t /\ sdk[t].st = "creating"
      \/ /\ sessions[d] # None
         /\ sessions[d].session = t /\ sdk[t].st = "live"
      \/ retirements[d] = t /\ sdk[t].st \in {"disposing", "failed"}
  BY InDirectory
<1>2. DirKept(sdk, sessions[d], retirements[d], creationHolds[d], transitions[d],
              closed, d)
  BY DirTyped
<1>3. t # None
  BY PoolAssumption
<1> QED
  BY <1>1, <1>2, <1>3 DEF DirKept

\* A directory without entries has none under way.
LEMMA NoneAlive ==
    ASSUME PoolInv, NEW d \in WorkDir, NEW s, retirements[d] = None,
           creationHolds[d] = None,
           sessions[d] # None => sessions[d].session = None
    PROVE  Alone(s, d)
<1> SUFFICES ASSUME NEW t \in Session, sdk[t].st \notin {"unused", "disposed"},
                    sdk[t].dir = d
             PROVE  FALSE
  BY DEF Alone
<1>1. \/ creationHolds[d] = t \/ retirements[d] = t
      \/ sessions[d] # None /\ sessions[d].session = t
  BY InDirectory
<1> QED
  BY <1>1, PoolAssumption

\* A directory refers to its own sessions.
LEMMA OwnApart ==
    ASSUME PoolInv, NEW s \in Session, NEW d \in WorkDir, sdk[s].dir = d
    PROVE  Apart(s, d)
<1> SUFFICES ASSUME NEW e \in WorkDir \ {d}
             PROVE  /\ sessions[e] # None => sessions[e].session # s
                    /\ retirements[e] # s /\ creationHolds[e] # s
                    /\ transitions[e] # None => transitions[e].session # s
  BY DEF Apart
<1>1. DirKept(sdk, sessions[e], retirements[e], creationHolds[e], transitions[e],
              closed, e)
  BY DirTyped
<1>2. s # None
  BY PoolAssumption
<1> QED
  BY <1>1, <1>2 DEF DirKept

\* Nobody refers to a session object that is reused.
LEMMA FreshApart ==
    ASSUME PoolInv, NEW s \in Session, NEW d \in WorkDir, Fresh(s)
    PROVE  /\ Apart(s, d)
           /\ \A i \in Identity : receiptRetirements[i] # None =>
                                     receiptRetirements[i].session # s
<1> SUFFICES ASSUME NEW e \in WorkDir \ {d}
             PROVE  /\ sessions[e] # None => sessions[e].session # s
                    /\ retirements[e] # s /\ creationHolds[e] # s
                    /\ transitions[e] # None => transitions[e].session # s
  BY DEF Apart, Fresh
<1>1. DirKept(sdk, sessions[e], retirements[e], creationHolds[e], transitions[e],
              closed, e)
  BY DirTyped
<1>2. /\ s # None /\ sdk[s].st \in {"unused", "disposed"}
      /\ transitions[e] # None => transitions[e].session # s
  BY PoolAssumption DEF Fresh
<1> QED
  BY <1>1, <1>2 DEF DirKept

-----------------------------------------------------------------------------
(* Steps of one directory and one session.                                 *)

OnlyAt(d) ==
    \A e \in WorkDir \ {d} :
        /\ sessions'[e] = sessions[e] /\ retirements'[e] = retirements[e]
        /\ creationHolds'[e] = creationHolds[e] /\ transitions'[e] = transitions[e]

OnlyOf(s) == \A t \in Session \ {s} : sdk'[t] = sdk[t]

\* Everything else stays consistent.
LEMMA LocalStructure ==
    ASSUME PoolInv, NEW d \in WorkDir, NEW s \in Session,
           OnlyAt(d), OnlyOf(s), Alone(s, d), Apart(s, d), closed' = closed,
           DirKept(sdk', sessions'[d], retirements'[d], creationHolds'[d],
                   transitions'[d], closed', d),
           SessionKept(sdk', sessions', retirements', creationHolds', s)
    PROVE  /\ \A e \in WorkDir :
                 DirKept(sdk', sessions'[e], retirements'[e], creationHolds'[e],
                         transitions'[e], closed', e)
           /\ \A t \in Session :
                 SessionKept(sdk', sessions', retirements', creationHolds', t)
<1>1. ASSUME NEW e \in WorkDir \ {d}
      PROVE  DirKept(sdk', sessions'[e], retirements'[e], creationHolds'[e],
                     transitions'[e], closed', e)
  <2>1. /\ sessions'[e] = sessions[e] /\ retirements'[e] = retirements[e]
        /\ creationHolds'[e] = creationHolds[e] /\ transitions'[e] = transitions[e]
    BY DEF OnlyAt
  <2>2. /\ DirKept(sdk, sessions[e], retirements[e], creationHolds[e],
                   transitions[e], closed, e)
        /\ sessions[e] # None => sessions[e].session \in Session \cup {None}
        /\ retirements[e] \in Session \cup {None}
        /\ transitions[e] # None => transitions[e].session \in Session
    BY DirTyped
  <2>3. /\ sessions[e] # None => sessions[e].session # s
        /\ retirements[e] # s
        /\ transitions[e] # None => transitions[e].session # s
    BY DEF Apart
  <2>4. /\ sessions[e] # None /\ sessions[e].session # None =>
              sdk'[sessions[e].session] = sdk[sessions[e].session]
        /\ retirements[e] # None => sdk'[retirements[e]] = sdk[retirements[e]]
        /\ transitions[e] # None =>
              sdk'[transitions[e].session] = sdk[transitions[e].session]
    BY <2>2, <2>3 DEF OnlyOf
  <2>5. DirKept(sdk', sessions[e], retirements[e], creationHolds[e],
                transitions[e], closed, e)
    BY <2>2, <2>4 DEF DirKept
  <2> QED
    BY <2>1, <2>5
<1>2. ASSUME NEW t \in Session \ {s}
      PROVE  SessionKept(sdk', sessions', retirements', creationHolds', t)
  <2>1. sdk'[t] = sdk[t] /\ sdk[t].st \in SdkState
        /\ SessionKept(sdk, sessions, retirements, creationHolds, t)
    BY SessionTyped DEF OnlyOf
  <2>2. CASE sdk[t].st \in {"unused", "disposed"}
    BY <2>1, <2>2 DEF SessionKept
  <2>3. CASE sdk[t].st \notin {"unused", "disposed"}
    <3>1. sdk[t].dir \in WorkDir \ {d}
      BY <2>1, <2>3 DEF SessionKept, Alone
    <3>2. /\ sessions'[sdk[t].dir] = sessions[sdk[t].dir]
          /\ retirements'[sdk[t].dir] = retirements[sdk[t].dir]
          /\ creationHolds'[sdk[t].dir] = creationHolds[sdk[t].dir]
      BY <3>1 DEF OnlyAt
    <3> QED
      BY <2>1, <3>2 DEF SessionKept
  <2> QED
    BY <2>2, <2>3
<1> QED
  BY <1>1, <1>2

\* Receipts follow the session they name.
Followed(s) ==
    (\E i \in Identity : receiptRetirements[i] # None
                         /\ receiptRetirements[i].session = s) =>
        sdk'[s].id = sdk[s].id /\ sdk'[s].st \in {"disposing", "failed", "disposed"}

\* A transition is begun for an identity that is not being retired.
NotRetired(d) ==
    transitions'[d] # None =>
        \/ transitions[d] # None /\ transitions'[d].id = transitions[d].id
        \/ transitions'[d].id = None
        \/ receiptRetirements[transitions'[d].id] = None

\* What is known of the retirement of a receipt.
LEMMA ReceiptTyped ==
    ASSUME PoolInv, NEW i \in Identity
    PROVE  /\ receiptRetirements \in [Identity -> Receipt \cup {None}]
           /\ receiptRetirements[i] \in Receipt \cup {None}
           /\ receiptRetirements[i] # None =>
                 /\ receiptRetirements[i] \in Receipt
                 /\ receiptRetirements[i].session \in Session \cup {None}
                 /\ receiptRetirements[i].holds \subseteq Hold
           /\ ReceiptKept(sdk, transitions, receiptRetirements[i], i)
<1>1. /\ receiptRetirements \in [Identity -> Receipt \cup {None}]
      /\ receiptRetirements[i] \in Receipt \cup {None}
  BY DEF PoolInv, TypeOK
<1>2. ReceiptKept(sdk, transitions, receiptRetirements[i], i)
  BY DEF PoolInv, Structure
<1> QED
  BY <1>1, <1>2 DEF Receipt

\* A receipt that stays as it is.
LEMMA ReceiptFollows ==
    ASSUME PoolInv, NEW d \in WorkDir, NEW s \in Session, OnlyAt(d), OnlyOf(s),
           Followed(s), NotRetired(d), NEW i \in Identity
    PROVE  ReceiptKept(sdk', transitions', receiptRetirements[i], i)
<1> DEFINE q == receiptRetirements[i]
<1>1. /\ ReceiptKept(sdk, transitions, q, i)
      /\ q # None => q.session \in Session \cup {None}
  BY ReceiptTyped
<1>2. CASE q = None
  BY <1>2 DEF ReceiptKept
<1>3. CASE q # None
  <2>1. q.session # None => /\ q.holds = {} /\ sdk'[q.session].id = i
               /\ sdk'[q.session].st \in {"disposing", "failed", "disposed"}
    BY <1>1, <1>3 DEF ReceiptKept, Followed, OnlyOf
  <2>2. q.pc # "transition" =>
           \A e \in WorkDir : transitions'[e] # None => transitions'[e].id # i
    <3> SUFFICES ASSUME q.pc # "transition", NEW e \in WorkDir,
                        transitions'[e] # None
                 PROVE  transitions'[e].id # i
      OBVIOUS
    <3>1. \A f \in WorkDir : transitions[f] # None => transitions[f].id # i
      BY <1>1, <1>3 DEF ReceiptKept
    <3>2. CASE e # d
      BY <3>1, <3>2 DEF OnlyAt
    <3>3. CASE e = d
      BY <1>3, <3>1, <3>3, PoolAssumption DEF NotRetired
    <3> QED
      BY <3>2, <3>3
  <2> QED
    BY <1>1, <2>1, <2>2 DEF ReceiptKept
<1> QED
  BY <1>2, <1>3

\* The transition they await ends.
LEMMA ReceiptsResume ==
    ASSUME PoolInv, NEW d \in WorkDir, NEW s \in Session, OnlyAt(d), OnlyOf(s),
           Followed(s), transitions[d] # None, NEW b, endTransition(d, b)
    PROVE  /\ \A i \in Identity :
                 ReceiptKept(sdk', transitions', receiptRetirements'[i], i)
           /\ receiptRetirements' \in [Identity -> Receipt \cup {None}]
           /\ \A i \in Identity :
                 /\ receiptRetirements'[i] # None <=> receiptRetirements[i] # None
                 /\ receiptRetirements[i] # None =>
                       receiptRetirements'[i].holds = receiptRetirements[i].holds
<1>1. transitions'[d] = None
  BY DEF endTransition, PoolInv, TypeOK
<1>2. ASSUME NEW i \in Identity
      PROVE  /\ ReceiptKept(sdk', transitions', receiptRetirements'[i], i)
             /\ receiptRetirements'[i] \in Receipt \cup {None}
             /\ receiptRetirements'[i] # None <=> receiptRetirements[i] # None
             /\ receiptRetirements[i] # None =>
                   receiptRetirements'[i].holds = receiptRetirements[i].holds
  <2> DEFINE q == receiptRetirements[i]
             p == receiptRetirements'[i]
             r == [q EXCEPT !.pc = IF b THEN "failed" ELSE "scan"]
  <2>1. /\ ReceiptKept(sdk, transitions, q, i)
        /\ q \in Receipt \cup {None}
        /\ q # None => q \in Receipt /\ q.session \in Session \cup {None}
    BY ReceiptTyped
  <2>2. p = IF q # None /\ q.pc = "transition" /\ transitions[d].id = i
            THEN r ELSE q
    BY DEF endTransition
  <2>3. \A e \in WorkDir \ {d} : transitions'[e] = transitions[e]
    BY DEF OnlyAt
  <2>4. CASE q = None
    BY <2>2, <2>4 DEF ReceiptKept
  <2>5. CASE q # None /\ q.pc = "transition" /\ transitions[d].id = i
    <3>1. q.session = None
      BY <2>1, <2>5 DEF ReceiptKept
    <3>2. /\ r \in Receipt /\ r.session = q.session /\ r.holds = q.holds
          /\ r.pc \in {"failed", "scan"}
      BY <2>1, <2>5 DEF Receipt
    <3>3. p = r
      BY <2>2, <2>5
    <3> HIDE DEF r
    <3>4. \A e \in WorkDir : transitions'[e] # None => transitions'[e].id # i
      <4>1. DirOf[i] = d
        BY <2>5, DirTyped, PoolAssumption DEF DirKept
      <4>2. ASSUME NEW e \in WorkDir, e # d, transitions[e] # None,
                   transitions[e].id = i
            PROVE  FALSE
        BY <4>1, <4>2, DirTyped, PoolAssumption DEF DirKept
      <4> QED
        BY <1>1, <2>3, <4>2
    <3>5. r # None
      BY <3>2, PoolAssumption
    <3> QED
      BY <2>5, <3>1, <3>2, <3>3, <3>4, <3>5 DEF ReceiptKept
  <2>6. CASE q # None /\ ~ (q.pc = "transition" /\ transitions[d].id = i)
    <3>1. p = q
      BY <2>2, <2>6
    <3>2. q.session # None => /\ q.holds = {} /\ sdk'[q.session].id = i
               /\ sdk'[q.session].st \in {"disposing", "failed", "disposed"}
      BY <2>1, <2>6 DEF ReceiptKept, Followed, OnlyOf
    <3>3. q.pc # "transition" =>
             \A e \in WorkDir : transitions'[e] # None => transitions'[e].id # i
      BY <1>1, <2>1, <2>3, <2>6 DEF ReceiptKept
    <3> QED
      BY <2>1, <2>6, <3>1, <3>2, <3>3 DEF ReceiptKept
  <2> QED
    BY <2>4, <2>5, <2>6
<1>3. receiptRetirements' \in [Identity -> Receipt \cup {None}]
  BY <1>2 DEF endTransition
<1> QED
  BY <1>2, <1>3

\* No hold changes hands.
LEMMA HoldsQuiet ==
    ASSUME PoolInv, NEW s \in Session, OnlyOf(s), owner' = owner,
           sdk'[s].holds = sdk[s].holds,
           sdk'[s].id = sdk[s].id \/ sdk[s].holds = {},
           \A i \in Identity :
              /\ receiptRetirements'[i] # None <=> receiptRetirements[i] # None
              /\ receiptRetirements[i] # None =>
                    receiptRetirements'[i].holds = receiptRetirements[i].holds
    PROVE  Holds'
<1> SUFFICES ASSUME NEW h \in Hold
             PROVE  HoldKept(sdk', receiptRetirements', owner[h], h)
  BY DEF Holds
<1>1. HoldKept(sdk, receiptRetirements, owner[h], h)
  BY DEF PoolInv, Holds
<1>2. \A t \in Session : /\ h \in sdk'[t].holds <=> h \in sdk[t].holds
                         /\ h \in sdk[t].holds => sdk'[t].id = sdk[t].id
  BY DEF OnlyOf
<1>3. \A i \in Identity :
         receiptRetirements'[i] # None /\ h \in receiptRetirements'[i].holds <=>
         receiptRetirements[i] # None /\ h \in receiptRetirements[i].holds
  OBVIOUS
<1> QED
  BY <1>1, <1>2, <1>3 DEF HoldKept

\* The place of a directory, as its entries show it.
HasPlace(e, r, c, t) ==
    e # None \/ r # None \/ c # None \/ (t # None /\ t.phase = "retiring")

\* The places are held by the directories whose entries show it.
LEMMA HeldPlaces ==
    Held = {d \in WorkDir : HasPlace(sessions[d], retirements[d], creationHolds[d],
                                     transitions[d])}
BY DEF Held, Admitted, InPhase, HasPlace

\* No directory gets a place.
LEMMA HeldShrinks ==
    ASSUME PoolInv, Held' \subseteq Held
    PROVE  Cardinality(Held') <= MaxSessions
<1>1. IsFiniteSet(Held)
  BY PoolAssumption, FS_Subset DEF Held, Admitted
<1>2. /\ Cardinality(Held') <= Cardinality(Held) /\ IsFiniteSet(Held')
      /\ Cardinality(Held) \in Nat /\ Cardinality(Held') \in Nat
  BY <1>1, FS_Subset, FS_CardinalityType
<1> QED
  BY <1>2, PoolAssumption DEF PoolInv

\* The Maps stay consistent in a step of one directory and one session.
LEMMA MapsKept ==
    ASSUME PoolInv, NEW d \in WorkDir, NEW s \in Session, closed' = closed,
           OnlyAt(d), OnlyOf(s), Alone(s, d), Apart(s, d),
           DirKept(sdk', sessions'[d], retirements'[d], creationHolds'[d],
                   transitions'[d], closed, d),
           SessionKept(sdk', sessions', retirements', creationHolds', s),
           \A i \in Identity :
              ReceiptKept(sdk', transitions', receiptRetirements'[i], i),
           \/ Cardinality(Held') <= MaxSessions
           \/ HasPlace(sessions'[d], retirements'[d], creationHolds'[d],
                       transitions'[d]) =>
              HasPlace(sessions[d], retirements[d], creationHolds[d], transitions[d])
    PROVE  Structure' /\ Cardinality(Held') <= MaxSessions
<1>1. /\ \A e \in WorkDir :
            DirKept(sdk', sessions'[e], retirements'[e], creationHolds'[e],
                    transitions'[e], closed', e)
      /\ \A t \in Session :
            SessionKept(sdk', sessions', retirements', creationHolds', t)
  BY LocalStructure
<1>2. Structure'
  BY <1>1 DEF Structure
<1>3. CASE Cardinality(Held') <= MaxSessions
  BY <1>2, <1>3
<1>4. CASE HasPlace(sessions'[d], retirements'[d], creationHolds'[d],
                    transitions'[d]) =>
           HasPlace(sessions[d], retirements[d], creationHolds[d], transitions[d])
  <2>1. Held' = {e \in WorkDir : HasPlace(sessions'[e], retirements'[e],
                                          creationHolds'[e], transitions'[e])}
    BY DEF Held, Admitted, InPhase, HasPlace
  <2>2. Held' \subseteq Held
    BY <1>4, <2>1, HeldPlaces DEF OnlyAt
  <2> QED
    BY <1>2, <2>2, HeldShrinks
<1> QED
  BY <1>3, <1>4

\* A step of one directory and one session that moves no hold.
LEMMA LocalStep ==
    ASSUME PoolInv, NEW d \in WorkDir, NEW s \in Session,
           sdk' \in [Session -> SdkSession],
           sessions' \in [WorkDir -> Entry \cup {None}],
           retirements' \in [WorkDir -> Session \cup {None}],
           creationHolds' \in [WorkDir -> Session \cup {None}],
           transitions' \in [WorkDir -> Transition \cup {None}],
           UNCHANGED <<owner, closed>>,
           OnlyAt(d), OnlyOf(s), Alone(s, d), Apart(s, d),
           DirKept(sdk', sessions'[d], retirements'[d], creationHolds'[d],
                   transitions'[d], closed, d),
           SessionKept(sdk', sessions', retirements', creationHolds', s),
           Followed(s),
           \/ receiptRetirements' = receiptRetirements /\ NotRetired(d)
           \/ transitions[d] # None /\ \E b \in BOOLEAN : endTransition(d, b),
           sdk'[s].holds = sdk[s].holds,
           sdk'[s].id = sdk[s].id \/ sdk[s].holds = {},
           \/ Cardinality(Held') <= MaxSessions
           \/ HasPlace(sessions'[d], retirements'[d], creationHolds'[d],
                       transitions'[d]) =>
              HasPlace(sessions[d], retirements[d], creationHolds[d], transitions[d])
    PROVE  PoolInv'
<1>1. /\ \A i \in Identity :
            ReceiptKept(sdk', transitions', receiptRetirements'[i], i)
      /\ receiptRetirements' \in [Identity -> Receipt \cup {None}]
      /\ \A i \in Identity :
            /\ receiptRetirements'[i] # None <=> receiptRetirements[i] # None
            /\ receiptRetirements[i] # None =>
                  receiptRetirements'[i].holds = receiptRetirements[i].holds
  <2>1. CASE receiptRetirements' = receiptRetirements /\ NotRetired(d)
    BY <2>1, ReceiptFollows DEF PoolInv, TypeOK
  <2>2. CASE transitions[d] # None /\ \E b \in BOOLEAN : endTransition(d, b)
    BY <2>2, ReceiptsResume
  <2> QED
    BY <2>1, <2>2
<1>2. Holds'
  BY <1>1, HoldsQuiet
<1>3. TypeOK'
  BY <1>1 DEF PoolInv, TypeOK
<1>4. Structure' /\ Cardinality(Held') <= MaxSessions
  BY <1>1, MapsKept
<1> QED
  BY <1>2, <1>3, <1>4 DEF PoolInv

-----------------------------------------------------------------------------
(* Creating a session.                                                     *)

\* #createSessionBounded starts in a directory that has no session under way.
LEMMA CreateStarts ==
    ASSUME PoolInv, NEW d \in WorkDir, NEW id \in Identity \cup {None},
           NEW s \in Session, startCreate(d, id, s),
           retirements[d] = None, creationHolds[d] = None,
           id # None => DirOf[id] = d,
           sessions' = [sessions EXCEPT ![d] = sessions'[d]],
           sessions'[d] \in Entry \cup {None},
           sessions'[d] # None => ~ closed /\ sessions'[d].session = None
                                  /\ sessions'[d].id = id,
           ~ closed => sessions'[d] # None,
           sessions[d] # None => sessions[d].session = None,
           \/ transitions[d] # None /\ transitions[d].id = id
           \/ id = None \/ receiptRetirements[id] = None,
           UNCHANGED <<retirements, receiptRetirements, owner, closed>>,
           \/ Cardinality(Held') <= MaxSessions
           \/ HasPlace(sessions[d], retirements[d], creationHolds[d], transitions[d])
    PROVE  PoolInv'
<1> DEFINE x == [st |-> "creating", dir |-> d, id |-> id, ended |-> FALSE,
                 bounded |-> "pending", holds |-> {}]
           t == [id |-> id, phase |-> "creating", session |-> s]
<1>1. /\ Fresh(s) /\ sdk' = [sdk EXCEPT ![s] = x]
      /\ creationHolds' = [creationHolds EXCEPT ![d] = s]
      /\ transitions' = [transitions EXCEPT ![d] = t]
  BY DEF startCreate
<1>2. /\ x \in SdkSession /\ t \in Transition
      /\ x.st = "creating" /\ x.dir = d /\ x.id = id /\ x.bounded = "pending"
      /\ x.holds = {} /\ t.id = id /\ t.phase = "creating" /\ t.session = s
  BY DEF SdkSession, Transition, SdkState, Bounded, Phase
<1>3. t # None /\ s # None
  BY <1>2, PoolAssumption
<1> HIDE DEF x, t
<1>4. /\ sdk \in [Session -> SdkSession] /\ sessions \in [WorkDir -> Entry \cup {None}]
      /\ retirements \in [WorkDir -> Session \cup {None}]
      /\ creationHolds \in [WorkDir -> Session \cup {None}]
      /\ transitions \in [WorkDir -> Transition \cup {None}]
  BY DEF PoolInv, TypeOK
<1>5. /\ sdk' \in [Session -> SdkSession] /\ sdk'[s] = x /\ OnlyOf(s)
      /\ creationHolds'[d] = s /\ transitions'[d] = t
      /\ creationHolds' \in [WorkDir -> Session \cup {None}]
      /\ transitions' \in [WorkDir -> Transition \cup {None}]
      /\ sessions' \in [WorkDir -> Entry \cup {None}] /\ OnlyAt(d)
  BY <1>1, <1>2, <1>4 DEF OnlyOf, OnlyAt
<1>6. Alone(s, d) /\ Apart(s, d)
  BY <1>1, NoneAlive, FreshApart
<1>7. DirKept(sdk', sessions'[d], retirements'[d], creationHolds'[d],
              transitions'[d], closed, d)
  BY <1>2, <1>3, <1>5 DEF DirKept
<1>8. SessionKept(sdk', sessions', retirements', creationHolds', s)
  BY <1>2, <1>5 DEF SessionKept
<1>9. Followed(s) /\ NotRetired(d)
  BY <1>1, <1>2, <1>5, FreshApart DEF Followed, NotRetired
<1>10. sdk[s].holds = {} /\ sdk'[s].holds = {}
  BY <1>1, <1>2, <1>5, SessionTyped DEF Fresh, SessionKept
<1> QED
  BY <1>4, <1>5, <1>6, <1>7, <1>8, <1>9, <1>10, LocalStep

\* ensureSession for a directory without a session.
LEMMA EnsureFirstStep ==
    ASSUME PoolInv, NEW d \in WorkDir, NEW id \in Identity \cup {None},
           NEW s \in Session, ensureFirst(d, id, s)
    PROVE  PoolInv'
<1> DEFINE v == [id |-> id, session |-> None]
<1>1. /\ ~ closed /\ retirements[d] = None /\ transitions[d] = None
      /\ sessions[d] = None /\ Cardinality(Admitted) < MaxSessions
      /\ id # None => DirOf[id] = d /\ receiptRetirements[id] = None
      /\ sessions' = [sessions EXCEPT ![d] = v] /\ startCreate(d, id, s)
      /\ UNCHANGED <<retirements, receiptRetirements, owner, closed>>
  BY DEF ensureFirst, mayEnsure
<1>2. v \in Entry /\ v.session = None /\ v.id = id
  BY DEF Entry
<1>3. v # None
  BY <1>2, PoolAssumption
<1> HIDE DEF v
<1>4. creationHolds[d] = None
  BY <1>1, DirTyped DEF DirKept
<1>5. sessions'[d] = v
  BY <1>1 DEF PoolInv, TypeOK
<1>6. Cardinality(Held') <= MaxSessions
  <2>1. Held = Admitted
    <3>1. ASSUME NEW e \in WorkDir, InPhase(e, "retiring") PROVE sessions[e] # None
      BY <1>1, <3>1, DirTyped DEF DirKept, InPhase
    <3> QED
      BY <3>1 DEF Held, Admitted
  <2>2. Held' \subseteq Admitted \cup {d}
    <3>1. \A e \in WorkDir \ {d} :
             /\ sessions'[e] = sessions[e] /\ retirements'[e] = retirements[e]
             /\ creationHolds'[e] = creationHolds[e]
             /\ transitions'[e] = transitions[e]
      BY <1>1 DEF startCreate, PoolInv, TypeOK
    <3>2. \A e \in Held' \ {d} : e \in Held
      BY <3>1 DEF Held, Admitted, InPhase
    <3> QED
      BY <2>1, <3>2
  <2>3. IsFiniteSet(Admitted)
    BY PoolAssumption, FS_Subset DEF Admitted
  <2>4. /\ IsFiniteSet(Admitted \cup {d})
        /\ Cardinality(Admitted \cup {d}) <= Cardinality(Admitted) + 1
        /\ Cardinality(Admitted) \in Nat
    <3>1. Cardinality(Admitted) \in Nat
      BY <2>3, FS_CardinalityType
    <3>2. /\ IsFiniteSet(Admitted \cup {d})
          /\ \/ Cardinality(Admitted \cup {d}) = Cardinality(Admitted)
             \/ Cardinality(Admitted \cup {d}) = Cardinality(Admitted) + 1
      BY <2>3, FS_AddElement
    <3> QED
      BY <3>1, <3>2
  <2>5. /\ Cardinality(Held') <= Cardinality(Admitted \cup {d})
        /\ Cardinality(Held') \in Nat /\ Cardinality(Admitted \cup {d}) \in Nat
    BY <2>2, <2>4, FS_Subset, FS_CardinalityType
  <2> QED
    BY <1>1, <2>4, <2>5, PoolAssumption
<1> QED
  BY <1>1, <1>2, <1>3, <1>4, <1>5, <1>6, CreateStarts

\* The replaced session is disposed of: its successor is created.
LEMMA ReplacementRetiredStep ==
    ASSUME PoolInv, NEW d \in WorkDir, NEW s \in Session, replacementRetired(d, s)
    PROVE  PoolInv'
<1> DEFINE t == transitions[d]
<1>1. /\ t # None /\ t.phase = "retiring" /\ sdk[t.session].bounded = "fulfilled"
      /\ startCreate(d, t.id, s)
      /\ UNCHANGED <<sessions, retirements, receiptRetirements, owner, closed>>
  BY DEF replacementRetired, InPhase
<1>2. /\ t.id \in Identity \cup {None} /\ t.session \in Session
      /\ DirKept(sdk, sessions[d], retirements[d], creationHolds[d], t, closed, d)
      /\ sessions[d] \in Entry \cup {None}
      /\ retirements[d] \in Session \cup {None}
  BY <1>1, DirTyped
<1>3. sdk[t.session].st = "disposed"
  BY <1>1, <1>2, SessionTyped DEF SessionKept
<1>4. /\ retirements[d] = None /\ creationHolds[d] = None
      /\ sessions[d] # None => /\ ~ closed /\ sessions[d].session = None
                               /\ sessions[d].id = t.id
      /\ ~ closed => sessions[d] # None
      /\ t.id # None => DirOf[t.id] = d
  BY <1>1, <1>2, <1>3 DEF DirKept
<1>5. HasPlace(sessions[d], retirements[d], creationHolds[d], transitions[d])
  BY <1>1 DEF HasPlace
<1>6. sessions' = [sessions EXCEPT ![d] = sessions'[d]]
  BY <1>1 DEF PoolInv, TypeOK
<1> QED
  BY <1>1, <1>2, <1>4, <1>5, <1>6, CreateStarts

\* Whatever became of it, the coroutine of d takes its entry back.
LEMMA EntryDropped ==
    ASSUME PoolInv, NEW d \in WorkDir, transitions[d] # None, dropEntry(d)
    PROVE  /\ sessions' = [sessions EXCEPT ![d] = None] /\ sessions'[d] = None
           /\ sessions' \in [WorkDir -> Entry \cup {None}]
<1>1. sessions[d] # None => sessions[d].session = None
  BY DirTyped DEF DirKept
<1>2. sessions \in [WorkDir -> Entry \cup {None}]
  BY DEF PoolInv, TypeOK
<1> QED
  BY <1>1, <1>2 DEF dropEntry

\* The transition of d is cleared.
LEMMA TransitionEnded ==
    ASSUME PoolInv, NEW d \in WorkDir, NEW b, endTransition(d, b)
    PROVE  /\ transitions' = [transitions EXCEPT ![d] = None]
           /\ transitions'[d] = None
           /\ transitions' \in [WorkDir -> Transition \cup {None}]
BY DEF endTransition, PoolInv, TypeOK

\* The transition of d moves to another phase.
LEMMA TransitionMoves ==
    ASSUME PoolInv, NEW d \in WorkDir, transitions[d] # None, NEW p \in Phase,
           transitions' = [transitions EXCEPT ![d].phase = p]
    PROVE  /\ transitions' \in [WorkDir -> Transition \cup {None}]
           /\ transitions'[d] # None /\ transitions'[d].phase = p
           /\ transitions'[d].id = transitions[d].id
           /\ transitions'[d].session = transitions[d].session
           /\ \A e \in WorkDir \ {d} : transitions'[e] = transitions[e]
<1> DEFINE t == [transitions[d] EXCEPT !.phase = p]
<1>1. transitions \in [WorkDir -> Transition \cup {None}]
  BY DEF PoolInv, TypeOK
<1>2. transitions[d] \in Transition
  BY <1>1
<1>3. /\ t \in Transition /\ t.phase = p /\ t.id = transitions[d].id
      /\ t.session = transitions[d].session
  BY <1>2 DEF Transition
<1>4. transitions' = [transitions EXCEPT ![d] = t]
  BY <1>1
<1> HIDE DEF t
<1> QED
  BY <1>1, <1>3, <1>4, PoolAssumption

\* The coroutine of d goes on or ends, and no session changes.
LEMMA CoroutineStep ==
    ASSUME PoolInv, NEW d \in WorkDir, transitions[d] # None,
           UNCHANGED <<sdk, retirements, owner, closed>>,
           transitions' \in [WorkDir -> Transition \cup {None}],
           \A e \in WorkDir \ {d} : transitions'[e] = transitions[e],
           \/ /\ transitions'[d] # None /\ transitions'[d].id = transitions[d].id
              /\ receiptRetirements' = receiptRetirements
           \/ \E b \in BOOLEAN : endTransition(d, b),
           \/ sessions' = sessions
           \/ sessions' = [sessions EXCEPT ![d] = None],
           \/ creationHolds' = creationHolds
           \/ creationHolds' = [creationHolds EXCEPT ![d] = None],
           transitions'[d] = None \/ transitions'[d].phase # "retiring",
           DirKept(sdk, sessions'[d], retirements[d], creationHolds'[d],
                   transitions'[d], closed, d),
           sdk[transitions[d].session].st = "creating" => creationHolds' = creationHolds
    PROVE  PoolInv'
<1> DEFINE s == transitions[d].session
<1>1. /\ sdk \in [Session -> SdkSession] /\ sessions \in [WorkDir -> Entry \cup {None}]
      /\ retirements \in [WorkDir -> Session \cup {None}]
      /\ creationHolds \in [WorkDir -> Session \cup {None}]
  BY DEF PoolInv, TypeOK
<1>2. /\ sessions' \in [WorkDir -> Entry \cup {None}]
      /\ creationHolds' \in [WorkDir -> Session \cup {None}] /\ OnlyAt(d)
  BY <1>1 DEF OnlyAt
<1>3. /\ s \in Session /\ sdk[s].dir = d /\ sdk[s].st # "live"
      /\ sdk[s].st \in {"creating", "disposing", "failed", "disposed"}
  BY DirTyped DEF DirKept
<1>4. Alone(s, d) /\ Apart(s, d)
  BY <1>3, TransitionAlone, OwnApart
<1>5. SessionKept(sdk', sessions', retirements', creationHolds', s)
  <2>1. SessionKept(sdk, sessions, retirements, creationHolds, s)
    BY <1>3, SessionTyped
  <2> QED
    BY <1>1, <1>3, <2>1 DEF SessionKept
<1>6. Followed(s)
  <2> SUFFICES ASSUME NEW i \in Identity, receiptRetirements[i] # None,
                      receiptRetirements[i].session = s
               PROVE  sdk[s].st \in {"disposing", "failed", "disposed"}
    BY DEF Followed
  <2> QED
    BY <1>3, ReceiptTyped, PoolAssumption DEF ReceiptKept
<1>7. \/ receiptRetirements' = receiptRetirements /\ NotRetired(d)
      \/ transitions[d] # None /\ \E b \in BOOLEAN : endTransition(d, b)
  BY DEF NotRetired
<1>8. HasPlace(sessions'[d], retirements'[d], creationHolds'[d], transitions'[d]) =>
      HasPlace(sessions[d], retirements[d], creationHolds[d], transitions[d])
  BY <1>1 DEF HasPlace
<1>9. OnlyOf(s) /\ sdk' \in [Session -> SdkSession]
  BY <1>1 DEF OnlyOf
<1>10. DirKept(sdk', sessions'[d], retirements'[d], creationHolds'[d],
               transitions'[d], closed, d)
  OBVIOUS
<1> HIDE DEF s
<1> QED
  BY <1>1, <1>2, <1>3, <1>4, <1>5, <1>6, <1>7, <1>8, <1>9, <1>10, LocalStep

\* What a transition in some phase says of its directory.
LEMMA PhaseFacts ==
    ASSUME PoolInv, NEW d \in WorkDir, transitions[d] # None
    PROVE  LET t == transitions[d]  s == t.session IN
           /\ s \in Session /\ s # None /\ sdk[s].dir = d
           /\ t.id # None => DirOf[t.id] = d
           /\ sessions[d] # None => ~ closed /\ sessions[d].session = None
                                    /\ t.phase \in {"retiring", "creating"}
                                    /\ sessions[d].id = t.id
           /\ t.phase \in {"retiring", "creating"} /\ ~ closed => sessions[d] # None
           /\ creationHolds[d] # None =>
                 creationHolds[d] = s /\ t.phase \in {"creating", "late", "lateRetiring"}
           /\ t.phase \in {"creating", "late"} =>
                 creationHolds[d] = s /\ retirements[d] = None
                 /\ sdk[s].st = "creating" /\ sdk[s].id = t.id
           /\ t.phase \notin {"creating", "late"} =>
                 retirements[d] \in {None, s}
                 /\ sdk[s].st \in {"disposing", "failed", "disposed"}
           /\ retirements[d] # None => sdk[s].st \in {"disposing", "failed"}
BY DirTyped, PoolAssumption DEF DirKept

\* #retireForReplacement throws.
LEMMA ReplacementFailedStep ==
    ASSUME PoolInv, NEW d \in WorkDir, replacementFailed(d)
    PROVE  PoolInv'
<1>1. /\ transitions[d] # None /\ transitions[d].phase = "retiring"
      /\ dropEntry(d) /\ UNCHANGED <<sdk, retirements, creationHolds, owner, closed>>
      /\ \/ endTransition(d, FALSE)
         \/ /\ transitions' = [transitions EXCEPT ![d].phase = "cleanup"]
            /\ UNCHANGED receiptRetirements
  BY DEF replacementFailed, InPhase
<1>2. sessions' = [sessions EXCEPT ![d] = None] /\ sessions'[d] = None
  BY <1>1, EntryDropped
<1>3. CASE endTransition(d, FALSE)
  <2>1. /\ transitions' = [transitions EXCEPT ![d] = None] /\ transitions'[d] = None
        /\ transitions' \in [WorkDir -> Transition \cup {None}]
    BY <1>3, TransitionEnded
  <2>2. DirKept(sdk, sessions'[d], retirements[d], creationHolds'[d],
                transitions'[d], closed, d)
    BY <1>1, <1>2, <2>1, PhaseFacts, DirTyped DEF DirKept
  <2>3. \A e \in WorkDir \ {d} : transitions'[e] = transitions[e]
    BY <2>1 DEF PoolInv, TypeOK
  <2> QED
    BY <1>1, <1>2, <1>3, <2>1, <2>2, <2>3, CoroutineStep
<1>4. CASE /\ transitions' = [transitions EXCEPT ![d].phase = "cleanup"]
           /\ UNCHANGED receiptRetirements
  <2>1. /\ transitions' \in [WorkDir -> Transition \cup {None}]
        /\ transitions'[d] # None /\ transitions'[d].phase = "cleanup"
        /\ transitions'[d].id = transitions[d].id
        /\ transitions'[d].session = transitions[d].session
        /\ \A e \in WorkDir \ {d} : transitions'[e] = transitions[e]
    BY <1>1, <1>4, TransitionMoves DEF Phase
  <2>2. DirKept(sdk, sessions'[d], retirements[d], creationHolds'[d],
                transitions'[d], closed, d)
    BY <1>1, <1>2, <2>1, PhaseFacts, DirTyped DEF DirKept
  <2> QED
    BY <1>1, <1>2, <1>4, <2>1, <2>2, CoroutineStep
<1> QED
  BY <1>1, <1>3, <1>4

\* A cleanup is over, a session made after shutdown was disposed of in time or
\* not, or a late session was settled.
LEMMA CoroutineEndsStep ==
    ASSUME PoolInv, NEW d \in WorkDir,
           cleanupSettled(d) \/ closingDone(d) \/ lateSettled(d)
    PROVE  PoolInv'
<1>1. /\ transitions[d] # None
      /\ transitions[d].phase \in {"cleanup", "closing", "lateRetiring"}
      /\ UNCHANGED <<sdk, retirements, owner, closed>>
      /\ \E b \in BOOLEAN : endTransition(d, b)
      /\ sessions' = sessions \/ dropEntry(d)
      /\ \/ /\ creationHolds' = creationHolds
            /\ transitions[d].phase # "lateRetiring"
         \/ creationHolds' = [creationHolds EXCEPT ![d] = None]
  BY DEF cleanupSettled, closingDone, lateSettled, InPhase
<1>2. sessions[d] = None
  BY <1>1, PhaseFacts
<1>3. /\ sessions' = sessions \/ sessions' = [sessions EXCEPT ![d] = None]
      /\ sessions'[d] = None
  BY <1>1, <1>2, EntryDropped
<1>4. /\ transitions' = [transitions EXCEPT ![d] = None] /\ transitions'[d] = None
      /\ transitions' \in [WorkDir -> Transition \cup {None}]
  BY <1>1, TransitionEnded
<1>5. \A e \in WorkDir \ {d} : transitions'[e] = transitions[e]
  BY <1>4 DEF PoolInv, TypeOK
<1>6. creationHolds'[d] = None
  BY <1>1, PhaseFacts DEF PoolInv, TypeOK
<1>7. DirKept(sdk, sessions'[d], retirements[d], creationHolds'[d],
              transitions'[d], closed, d)
  BY <1>3, <1>4, <1>6, DirTyped DEF DirKept
<1>8. sdk[transitions[d].session].st # "creating"
  BY <1>1, PhaseFacts
<1> QED
  BY <1>1, <1>3, <1>4, <1>5, <1>7, <1>8, CoroutineStep

\* The factory call times out.
LEMMA CreateTimedOutStep ==
    ASSUME PoolInv, NEW d \in WorkDir, createTimedOut(d)
    PROVE  PoolInv'
<1>1. /\ transitions[d] # None /\ transitions[d].phase = "creating"
      /\ dropEntry(d) /\ transitions' = [transitions EXCEPT ![d].phase = "late"]
      /\ UNCHANGED <<sdk, retirements, creationHolds, receiptRetirements, owner, closed>>
  BY DEF createTimedOut, InPhase
<1>2. sessions' = [sessions EXCEPT ![d] = None] /\ sessions'[d] = None
  BY <1>1, EntryDropped
<1>3. /\ transitions' \in [WorkDir -> Transition \cup {None}]
      /\ transitions'[d] # None /\ transitions'[d].phase = "late"
      /\ transitions'[d].id = transitions[d].id
      /\ transitions'[d].session = transitions[d].session
      /\ \A e \in WorkDir \ {d} : transitions'[e] = transitions[e]
  BY <1>1, TransitionMoves DEF Phase
<1>4. DirKept(sdk, sessions'[d], retirements[d], creationHolds'[d],
              transitions'[d], closed, d)
  BY <1>1, <1>2, <1>3, PhaseFacts, DirTyped DEF DirKept
<1> QED
  BY <1>1, <1>2, <1>3, <1>4, CoroutineStep

\* A session changes its state and keeps everything else.
LEMMA StateMoves ==
    ASSUME PoolInv, NEW s \in Session, NEW v \in SdkState,
           sdk' = [sdk EXCEPT ![s].st = v]
    PROVE  /\ sdk' \in [Session -> SdkSession] /\ OnlyOf(s)
           /\ sdk'[s].st = v /\ sdk'[s].dir = sdk[s].dir /\ sdk'[s].id = sdk[s].id
           /\ sdk'[s].holds = sdk[s].holds /\ sdk'[s].bounded = sdk[s].bounded
<1> DEFINE x == [sdk[s] EXCEPT !.st = v]
<1>1. sdk \in [Session -> SdkSession] /\ sdk[s] \in SdkSession
  BY SessionTyped
<1>2. /\ x \in SdkSession /\ x.st = v /\ x.dir = sdk[s].dir /\ x.id = sdk[s].id
      /\ x.holds = sdk[s].holds /\ x.bounded = sdk[s].bounded
  BY <1>1 DEF SdkSession
<1>3. sdk' = [sdk EXCEPT ![s] = x]
  BY <1>1
<1> HIDE DEF x
<1> QED
  BY <1>1, <1>2, <1>3 DEF OnlyOf

\* A receipt names retired sessions only.
LEMMA NotNamed ==
    ASSUME PoolInv, NEW s \in Session, sdk[s].st \in {"creating", "live", "unused"}
    PROVE  Followed(s)
<1> SUFFICES ASSUME NEW i \in Identity, receiptRetirements[i] # None,
                    receiptRetirements[i].session = s
             PROVE  FALSE
  BY DEF Followed
<1> QED
  BY ReceiptTyped, PoolAssumption DEF ReceiptKept

\* The factory delivers in time.
LEMMA CreatedStep ==
    ASSUME PoolInv, NEW d \in WorkDir, created(d)
    PROVE  PoolInv'
<1> DEFINE s == transitions[d].session
           v == [sessions[d] EXCEPT !.session = s]
<1>1. /\ transitions[d] # None /\ transitions[d].phase = "creating" /\ ~ closed
      /\ sdk' = [sdk EXCEPT ![s].st = "live"]
      /\ creationHolds' = [creationHolds EXCEPT ![d] = None]
      /\ sessions' = [sessions EXCEPT ![d].session = s]
      /\ endTransition(d, FALSE) /\ UNCHANGED <<retirements, owner, closed>>
  BY DEF created, InPhase
<1>2. /\ s \in Session /\ s # None /\ sdk[s].dir = d /\ sdk[s].st = "creating"
      /\ sdk[s].id = transitions[d].id
      /\ sessions[d] # None /\ sessions[d].id = transitions[d].id
      /\ retirements[d] = None
      /\ sessions[d].id # None => DirOf[sessions[d].id] = d
  BY <1>1, PhaseFacts
<1>3. /\ sessions \in [WorkDir -> Entry \cup {None}] /\ sessions[d] \in Entry
      /\ creationHolds \in [WorkDir -> Session \cup {None}]
      /\ retirements \in [WorkDir -> Session \cup {None}]
  BY <1>2 DEF PoolInv, TypeOK
<1>4. v \in Entry /\ v.session = s /\ v.id = sessions[d].id
  BY <1>2, <1>3 DEF Entry
<1>5. /\ sdk' \in [Session -> SdkSession] /\ OnlyOf(s)
      /\ sdk'[s].st = "live" /\ sdk'[s].dir = sdk[s].dir /\ sdk'[s].id = sdk[s].id
      /\ sdk'[s].holds = sdk[s].holds /\ sdk'[s].bounded = sdk[s].bounded
  BY <1>1, <1>2, StateMoves DEF SdkState
<1>6. /\ transitions' = [transitions EXCEPT ![d] = None] /\ transitions'[d] = None
      /\ transitions' \in [WorkDir -> Transition \cup {None}]
  BY <1>1, TransitionEnded
<1>7. /\ sessions' = [sessions EXCEPT ![d] = v] /\ v # None
  BY <1>1, <1>3, <1>4, PoolAssumption
<1>8. Alone(s, d) /\ Apart(s, d)
  BY <1>1, <1>2, TransitionAlone, OwnApart
<1>9. Followed(s)
  BY <1>2, NotNamed
<1>10. SessionKept(sdk, sessions, retirements, creationHolds, s)
  BY <1>2, SessionTyped
<1> HIDE DEF s, v
<1>11. /\ sessions'[d] = v /\ sessions' \in [WorkDir -> Entry \cup {None}]
       /\ creationHolds'[d] = None /\ OnlyAt(d)
       /\ creationHolds' \in [WorkDir -> Session \cup {None}]
       /\ retirements' \in [WorkDir -> Session \cup {None}]
  BY <1>1, <1>3, <1>4, <1>6, <1>7 DEF OnlyAt, PoolInv, TypeOK
<1>12. DirKept(sdk', sessions'[d], retirements'[d], creationHolds'[d],
               transitions'[d], closed, d)
  BY <1>1, <1>2, <1>4, <1>5, <1>6, <1>7, <1>11 DEF DirKept
<1>13. SessionKept(sdk', sessions', retirements', creationHolds', s)
  BY <1>2, <1>4, <1>5, <1>7, <1>10, <1>11 DEF SessionKept
<1>14. HasPlace(sessions[d], retirements[d], creationHolds[d], transitions[d])
  BY <1>2 DEF HasPlace
<1> QED
  BY <1>1, <1>2, <1>5, <1>6, <1>8, <1>9, <1>11, <1>12, <1>13, <1>14, LocalStep

\* The factory rejects, in time or late.
LEMMA CreateFailedStep ==
    ASSUME PoolInv, NEW d \in WorkDir, createFailed(d)
    PROVE  PoolInv'
<1> DEFINE s == transitions[d].session
<1>1. /\ transitions[d] # None /\ transitions[d].phase \in {"creating", "late"}
      /\ sdk' = [sdk EXCEPT ![s].st = "unused"]
      /\ creationHolds' = [creationHolds EXCEPT ![d] = None]
      /\ dropEntry(d) /\ endTransition(d, FALSE)
      /\ UNCHANGED <<retirements, owner, closed>>
  BY DEF createFailed, InPhase
<1>2. /\ s \in Session /\ s # None /\ sdk[s].dir = d /\ sdk[s].st = "creating"
      /\ creationHolds[d] = s
  BY <1>1, PhaseFacts
<1>3. /\ sdk' \in [Session -> SdkSession] /\ OnlyOf(s)
      /\ sdk'[s].st = "unused" /\ sdk'[s].dir = sdk[s].dir /\ sdk'[s].id = sdk[s].id
      /\ sdk'[s].holds = sdk[s].holds /\ sdk'[s].bounded = sdk[s].bounded
  BY <1>1, <1>2, StateMoves DEF SdkState
<1>4. /\ transitions' = [transitions EXCEPT ![d] = None] /\ transitions'[d] = None
      /\ transitions' \in [WorkDir -> Transition \cup {None}]
  BY <1>1, TransitionEnded
<1>5. /\ sessions' = [sessions EXCEPT ![d] = None] /\ sessions'[d] = None
      /\ sessions' \in [WorkDir -> Entry \cup {None}]
  BY <1>1, EntryDropped
<1>6. Alone(s, d) /\ Apart(s, d)
  BY <1>1, <1>2, TransitionAlone, OwnApart
<1>7. Followed(s)
  BY <1>2, NotNamed
<1>8. SessionKept(sdk, sessions, retirements, creationHolds, s)
  BY <1>2, SessionTyped
<1>9. retirements[d] = None
  BY <1>1, PhaseFacts
<1> HIDE DEF s
<1>10. /\ creationHolds'[d] = None /\ OnlyAt(d)
       /\ creationHolds' \in [WorkDir -> Session \cup {None}]
       /\ retirements' \in [WorkDir -> Session \cup {None}]
  BY <1>1, <1>4, <1>5 DEF OnlyAt, PoolInv, TypeOK
<1>11. DirKept(sdk', sessions'[d], retirements'[d], creationHolds'[d],
               transitions'[d], closed, d)
  BY <1>1, <1>4, <1>5, <1>9, <1>10 DEF DirKept
<1>12. SessionKept(sdk', sessions', retirements', creationHolds', s)
  BY <1>2, <1>3, <1>8 DEF SessionKept
<1>13. HasPlace(sessions[d], retirements[d], creationHolds[d], transitions[d])
  BY <1>2 DEF HasPlace
<1> QED
  BY <1>1, <1>2, <1>3, <1>4, <1>5, <1>6, <1>7, <1>10, <1>11, <1>12, <1>13, LocalStep

-----------------------------------------------------------------------------
(* Retiring a session.                                                     *)

\* #retire of one session with the holds H.
LEMMA RetireOne ==
    ASSUME PoolInv, NEW s \in Session, NEW d \in WorkDir, sdk[s].dir = d,
           NEW S, NEW H, retireEffect(S, H), S = {s}, H \subseteq Hold
    PROVE  /\ sdk' \in [Session -> SdkSession] /\ OnlyOf(s)
           /\ sdk'[s].st = "disposing" /\ sdk'[s].dir = d /\ sdk'[s].id = sdk[s].id
           /\ sdk'[s].holds = H /\ sdk'[s].bounded = "pending"
           /\ retirements' = [retirements EXCEPT ![d] = s] /\ retirements'[d] = s
           /\ retirements' \in [WorkDir -> Session \cup {None}]
<1> DEFINE x == [sdk[s] EXCEPT !.st = "disposing", !.bounded = "pending",
                               !.holds = H]
<1>1. /\ sdk \in [Session -> SdkSession] /\ sdk[s] \in SdkSession
      /\ retirements \in [WorkDir -> Session \cup {None}]
  BY SessionTyped DEF PoolInv, TypeOK
<1>2. /\ x \in SdkSession /\ x.st = "disposing" /\ x.dir = sdk[s].dir
      /\ x.id = sdk[s].id /\ x.holds = H /\ x.bounded = "pending"
  BY <1>1 DEF SdkSession, SdkState, Bounded
<1>3. sdk' = [t \in Session |-> IF t = s THEN x ELSE sdk[t]]
  BY DEF retireEffect
<1> HIDE DEF x
<1>4. sdk' \in [Session -> SdkSession] /\ OnlyOf(s) /\ sdk'[s] = x
  BY <1>1, <1>2, <1>3 DEF OnlyOf
<1>5. \A e \in WorkDir : /\ (\E t \in {s} : sdk[t].dir = e) <=> e = d
                         /\ e = d => (CHOOSE t \in {s} : sdk[t].dir = e) = s
  OBVIOUS
<1>6. retirements' = [e \in WorkDir |-> IF e = d THEN s ELSE retirements[e]]
  BY <1>5 DEF retireEffect
<1>7. /\ retirements' = [retirements EXCEPT ![d] = s] /\ retirements'[d] = s
      /\ retirements' \in [WorkDir -> Session \cup {None}]
  BY <1>1, <1>6
<1> QED
  BY <1>2, <1>4, <1>7

\* A session delivered after its timeout, or after shutdown, is retired at once.
LEMMA CreatedInVainStep ==
    ASSUME PoolInv, NEW d \in WorkDir, createdAfterShutdown(d) \/ createdLate(d)
    PROVE  PoolInv'
<1> DEFINE s == transitions[d].session
<1>1. /\ transitions[d] # None /\ retireEffect({s}, {})
      /\ UNCHANGED <<sessions, receiptRetirements, owner, closed>>
      /\ \/ /\ transitions[d].phase = "creating" /\ closed
            /\ transitions' = [transitions EXCEPT ![d].phase = "closing"]
            /\ creationHolds' = [creationHolds EXCEPT ![d] = None]
         \/ /\ transitions[d].phase = "late"
            /\ transitions' = [transitions EXCEPT ![d].phase = "lateRetiring"]
            /\ creationHolds' = creationHolds
  BY DEF createdAfterShutdown, createdLate, InPhase
<1>2. /\ s \in Session /\ s # None /\ sdk[s].dir = d /\ sdk[s].st = "creating"
      /\ creationHolds[d] = s /\ sessions[d] = None
      /\ transitions[d].id # None => DirOf[transitions[d].id] = d
  BY <1>1, PhaseFacts
<1>3. /\ sdk' \in [Session -> SdkSession] /\ OnlyOf(s)
      /\ sdk'[s].st = "disposing" /\ sdk'[s].dir = d /\ sdk'[s].id = sdk[s].id
      /\ sdk'[s].holds = {} /\ sdk'[s].bounded = "pending"
      /\ retirements' = [retirements EXCEPT ![d] = s] /\ retirements'[d] = s
      /\ retirements' \in [WorkDir -> Session \cup {None}]
  <2>1. {} \in SUBSET Hold /\ retireEffect({s}, {})
    BY <1>1
  <2> HIDE DEF s
  <2> QED
    BY <1>2, <2>1, RetireOne
<1>4. PICK p \in {"closing", "lateRetiring"} :
         /\ transitions' = [transitions EXCEPT ![d].phase = p]
         /\ \/ p = "closing" /\ creationHolds' = [creationHolds EXCEPT ![d] = None]
            \/ p = "lateRetiring" /\ creationHolds' = creationHolds
  BY <1>1
<1>5. /\ transitions' \in [WorkDir -> Transition \cup {None}]
      /\ transitions'[d] # None /\ transitions'[d].phase = p
      /\ transitions'[d].id = transitions[d].id
      /\ transitions'[d].session = transitions[d].session
      /\ \A e \in WorkDir \ {d} : transitions'[e] = transitions[e]
  BY <1>1, <1>4, TransitionMoves DEF Phase
<1>6. Alone(s, d) /\ Apart(s, d) /\ Followed(s)
  BY <1>1, <1>2, TransitionAlone, OwnApart, NotNamed
<1>7. SessionKept(sdk, sessions, retirements, creationHolds, s)
  BY <1>2, SessionTyped
<1>8. NotRetired(d)
  BY <1>1, <1>5 DEF NotRetired
<1>9. transitions'[d].session = s
  BY <1>5
<1> HIDE DEF s
<1>10. /\ \/ p = "closing" /\ creationHolds'[d] = None
          \/ p = "lateRetiring" /\ creationHolds'[d] = s
       /\ OnlyAt(d) /\ creationHolds' \in [WorkDir -> Session \cup {None}]
       /\ sessions' \in [WorkDir -> Entry \cup {None}]
  BY <1>1, <1>2, <1>3, <1>4, <1>5 DEF OnlyAt, PoolInv, TypeOK
<1>11. DirKept(sdk', sessions'[d], retirements'[d], creationHolds'[d],
               transitions'[d], closed, d)
  BY <1>1, <1>2, <1>3, <1>5, <1>9, <1>10 DEF DirKept
<1>12. SessionKept(sdk', sessions', retirements', creationHolds', s)
  BY <1>2, <1>3, <1>7 DEF SessionKept
<1>13. sdk[s].holds = {}
  BY <1>2, <1>7 DEF SessionKept
<1>14. HasPlace(sessions[d], retirements[d], creationHolds[d], transitions[d])
  BY <1>2 DEF HasPlace
<1> QED
  BY <1>1, <1>2, <1>3, <1>5, <1>6, <1>8, <1>10, <1>11, <1>12, <1>13, <1>14, LocalStep

\* What is known of a session an entry names.
LEMMA LiveFacts ==
    ASSUME PoolInv, NEW d \in WorkDir, sessions[d] # None, sessions[d].session # None
    PROVE  LET s == sessions[d].session IN
           /\ s \in Session /\ sdk[s].st = "live" /\ sdk[s].dir = d
           /\ sdk[s].id = sessions[d].id /\ sdk[s].holds = {}
           /\ transitions[d] = None /\ retirements[d] = None
           /\ creationHolds[d] = None /\ ~ closed
           /\ Alone(s, d) /\ Apart(s, d) /\ Followed(s)
<1> DEFINE s == sessions[d].session
<1>1. /\ s \in Session /\ sdk[s].st = "live" /\ sdk[s].dir = d
      /\ sdk[s].id = sessions[d].id
      /\ transitions[d] = None /\ retirements[d] = None
      /\ creationHolds[d] = None /\ ~ closed
  BY DirTyped DEF DirKept
<1>2. sdk[s].holds = {}
  BY <1>1, SessionTyped DEF SessionKept
<1> HIDE DEF s
<1>3. Alone(s, d) /\ Apart(s, d) /\ Followed(s)
  BY <1>1, AliveAlone, OwnApart, NotNamed
<1> QED
  BY <1>1, <1>2, <1>3 DEF s

\* ensureSession for another identity, or for a session that ended.
LEMMA EnsureReplacementStep ==
    ASSUME PoolInv, NEW d \in WorkDir, NEW id \in Identity \cup {None},
           ensureReplacement(d, id)
    PROVE  PoolInv'
<1> DEFINE s == sessions[d].session
           v == [id |-> id, session |-> None]
           t == [id |-> id, phase |-> "retiring", session |-> s]
<1>1. /\ sessions[d] # None /\ s # None /\ retireEffect({s}, {})
      /\ id # None => DirOf[id] = d /\ receiptRetirements[id] = None
      /\ transitions' = [transitions EXCEPT ![d] = t]
      /\ sessions' = [sessions EXCEPT ![d] = v]
      /\ UNCHANGED <<creationHolds, receiptRetirements, owner, closed>>
  BY DEF ensureReplacement, mayEnsure
<1>2. /\ s \in Session /\ sdk[s].st = "live" /\ sdk[s].dir = d
      /\ sdk[s].holds = {} /\ creationHolds[d] = None /\ ~ closed
      /\ Alone(s, d) /\ Apart(s, d) /\ Followed(s)
  BY <1>1, LiveFacts
<1>3. {} \in SUBSET Hold /\ retireEffect({s}, {})
  BY <1>1
<1> HIDE DEF s
<1>4. /\ sdk' \in [Session -> SdkSession] /\ OnlyOf(s)
      /\ sdk'[s].st = "disposing" /\ sdk'[s].dir = d /\ sdk'[s].id = sdk[s].id
      /\ sdk'[s].holds = {} /\ sdk'[s].bounded = "pending"
      /\ retirements' = [retirements EXCEPT ![d] = s] /\ retirements'[d] = s
      /\ retirements' \in [WorkDir -> Session \cup {None}]
  BY <1>2, <1>3, RetireOne
<1>5. /\ v \in Entry /\ v.id = id /\ v.session = None
      /\ t \in Transition /\ t.id = id /\ t.phase = "retiring" /\ t.session = s
  BY <1>2 DEF Entry, Transition, Phase
<1> HIDE DEF v, t
<1>6. v # None /\ t # None
  BY <1>5, PoolAssumption
<1>7. /\ sessions'[d] = v /\ transitions'[d] = t /\ OnlyAt(d)
      /\ sessions' \in [WorkDir -> Entry \cup {None}]
      /\ transitions' \in [WorkDir -> Transition \cup {None}]
      /\ creationHolds' \in [WorkDir -> Session \cup {None}]
  BY <1>1, <1>4, <1>5 DEF OnlyAt, PoolInv, TypeOK
<1>8. DirKept(sdk', sessions'[d], retirements'[d], creationHolds'[d],
              transitions'[d], closed, d)
  BY <1>1, <1>2, <1>4, <1>5, <1>6, <1>7 DEF DirKept
<1>9. SessionKept(sdk, sessions, retirements, creationHolds, s)
  BY <1>2, SessionTyped
<1>10. SessionKept(sdk', sessions', retirements', creationHolds', s)
  BY <1>2, <1>4, <1>9 DEF SessionKept
<1>11. NotRetired(d)
  BY <1>1, <1>5, <1>7 DEF NotRetired
<1>12. HasPlace(sessions[d], retirements[d], creationHolds[d], transitions[d])
  BY <1>1 DEF HasPlace
<1> QED
  BY <1>1, <1>2, <1>4, <1>7, <1>8, <1>10, <1>11, <1>12, LocalStep

\* Something happens to a session that leaves the Maps alone.
LEMMA SessionMoves ==
    ASSUME PoolInv, NEW s \in Session, sdk' \in [Session -> SdkSession], OnlyOf(s),
           sdk[s].st \notin {"unused", "disposed"},
           sdk'[s].dir = sdk[s].dir, sdk'[s].id = sdk[s].id,
           sdk'[s].holds = sdk[s].holds,
           \/ sdk'[s].st = sdk[s].st
           \/ {sdk'[s].st, sdk[s].st} \subseteq {"disposing", "failed"},
           sdk'[s].bounded # "fulfilled",
           UNCHANGED <<sessions, retirements, creationHolds, transitions,
                       receiptRetirements, owner, closed>>
    PROVE  PoolInv'
<1> DEFINE d == sdk[s].dir
<1>1. d \in WorkDir /\ SessionKept(sdk, sessions, retirements, creationHolds, s)
  BY InDirectory, SessionTyped
<1> HIDE DEF d
<1>2. Alone(s, d) /\ Apart(s, d)
  BY <1>1, AliveAlone, OwnApart DEF d
<1>3. SessionKept(sdk', sessions', retirements', creationHolds', s)
  BY <1>1 DEF SessionKept
<1>4. DirKept(sdk', sessions'[d], retirements'[d], creationHolds'[d],
              transitions'[d], closed, d)
  <2>1. /\ DirKept(sdk, sessions[d], retirements[d], creationHolds[d],
                   transitions[d], closed, d)
        /\ sessions[d] # None => sessions[d].session \in Session \cup {None}
        /\ retirements[d] \in Session \cup {None}
        /\ transitions[d] # None => transitions[d].session \in Session
    BY <1>1, DirTyped
  <2>2. \A t \in Session : /\ sdk'[t].dir = sdk[t].dir /\ sdk'[t].id = sdk[t].id
                           /\ \/ sdk'[t].st = sdk[t].st
                              \/ /\ sdk'[t].st \in {"disposing", "failed"}
                                 /\ sdk[t].st \in {"disposing", "failed"}
    BY DEF OnlyOf
  <2>3. DirKept(sdk', sessions[d], retirements[d], creationHolds[d],
                transitions[d], closed, d)
    BY <2>1, <2>2 DEF DirKept
  <2> QED
    BY <2>3
<1>5. Followed(s)
  <2> SUFFICES ASSUME NEW i \in Identity, receiptRetirements[i] # None,
                      receiptRetirements[i].session = s
               PROVE  sdk'[s].st \in {"disposing", "failed", "disposed"}
    BY DEF Followed
  <2>1. sdk[s].st \in {"disposing", "failed", "disposed"}
    BY ReceiptTyped, PoolAssumption DEF ReceiptKept
  <2> QED
    BY <2>1
<1>6. NotRetired(d) /\ OnlyAt(d)
  BY DEF NotRetired, OnlyAt
<1>7. /\ sessions' \in [WorkDir -> Entry \cup {None}]
      /\ retirements' \in [WorkDir -> Session \cup {None}]
      /\ creationHolds' \in [WorkDir -> Session \cup {None}]
      /\ transitions' \in [WorkDir -> Transition \cup {None}]
  BY DEF PoolInv, TypeOK
<1> QED
  BY <1>1, <1>2, <1>3, <1>4, <1>5, <1>6, <1>7, LocalStep

\* dispose() rejects or times out; the SDK session ends by itself.
LEMMA SessionStep ==
    ASSUME PoolInv, NEW s \in Session,
           disposeFailed(s) \/ disposeTimedOut(s) \/ sessionEnds(s)
    PROVE  PoolInv'
<1>1. /\ sdk \in [Session -> SdkSession] /\ sdk[s] \in SdkSession
      /\ SessionKept(sdk, sessions, retirements, creationHolds, s)
  BY SessionTyped
<1>2. PICK x \in SdkSession :
         /\ sdk' = [sdk EXCEPT ![s] = x] /\ sdk[s].st \in {"disposing", "live"}
         /\ x.dir = sdk[s].dir /\ x.id = sdk[s].id /\ x.holds = sdk[s].holds
         /\ \/ x.st = sdk[s].st
            \/ {x.st, sdk[s].st} \subseteq {"disposing", "failed"}
         /\ x.bounded # "fulfilled"
  <2>1. CASE disposeFailed(s)
    <3> DEFINE b == IF sdk[s].bounded = "pending" THEN "rejected" ELSE sdk[s].bounded
               x == [sdk[s] EXCEPT !.st = "failed", !.bounded = b]
    <3>1. sdk[s].st = "disposing" /\ sdk' = [sdk EXCEPT ![s] = x]
      BY <1>1, <2>1 DEF disposeFailed
    <3>2. b \in Bounded /\ b # "fulfilled"
      BY <1>1, <3>1 DEF Bounded, SdkSession, SessionKept
    <3> HIDE DEF b
    <3>3. /\ x \in SdkSession /\ x.dir = sdk[s].dir /\ x.id = sdk[s].id
          /\ x.holds = sdk[s].holds /\ x.st = "failed" /\ x.bounded = b
      BY <1>1, <3>2 DEF SdkSession, SdkState
    <3> QED
      BY <3>1, <3>2, <3>3
  <2>2. CASE disposeTimedOut(s)
    <3> DEFINE x == [sdk[s] EXCEPT !.bounded = "timed_out"]
    <3>1. sdk[s].st = "disposing" /\ sdk' = [sdk EXCEPT ![s] = x]
      BY <1>1, <2>2 DEF disposeTimedOut
    <3>2. /\ x \in SdkSession /\ x.dir = sdk[s].dir /\ x.id = sdk[s].id
          /\ x.holds = sdk[s].holds /\ x.st = sdk[s].st /\ x.bounded = "timed_out"
      BY <1>1 DEF SdkSession, Bounded
    <3> QED
      BY <3>1, <3>2
  <2>3. CASE sessionEnds(s)
    <3> DEFINE x == [sdk[s] EXCEPT !.ended = TRUE]
    <3>1. sdk[s].st = "live" /\ sdk' = [sdk EXCEPT ![s] = x]
      BY <1>1, <2>3 DEF sessionEnds
    <3>2. /\ x \in SdkSession /\ x.dir = sdk[s].dir /\ x.id = sdk[s].id
          /\ x.holds = sdk[s].holds /\ x.st = sdk[s].st /\ x.bounded = sdk[s].bounded
      BY <1>1 DEF SdkSession
    <3>3. sdk[s].bounded # "fulfilled"
      BY <1>1, <3>1 DEF SessionKept
    <3> QED
      BY <3>1, <3>2, <3>3
  <2> QED
    BY <2>1, <2>2, <2>3
<1>3. sdk' \in [Session -> SdkSession] /\ OnlyOf(s) /\ sdk'[s] = x
  BY <1>1, <1>2 DEF OnlyOf
<1>4. UNCHANGED <<sessions, retirements, creationHolds, transitions,
                  receiptRetirements, owner, closed>>
  BY DEF disposeFailed, disposeTimedOut, sessionEnds
<1>5. /\ sdk[s].st \notin {"unused", "disposed"}
      /\ sdk'[s].dir = sdk[s].dir /\ sdk'[s].id = sdk[s].id
      /\ sdk'[s].holds = sdk[s].holds /\ sdk'[s].bounded # "fulfilled"
      /\ \/ sdk'[s].st = sdk[s].st
         \/ {sdk'[s].st, sdk[s].st} \subseteq {"disposing", "failed"}
  BY <1>2, <1>3
<1> QED
  BY <1>3, <1>4, <1>5, SessionMoves

-----------------------------------------------------------------------------
(* Holds.                                                                  *)

Keeps(q, h) == q # None /\ h \in q.holds

\* Nothing happens to the holds that are not in H.
Untouched(H) ==
    \A h \in Hold \ H :
        /\ \A t \in Session : /\ h \in sdk'[t].holds <=> h \in sdk[t].holds
                              /\ h \in sdk[t].holds => sdk'[t].id = sdk[t].id
        /\ \A i \in Identity :
              Keeps(receiptRetirements'[i], h) <=> Keeps(receiptRetirements[i], h)

\* The holds in H change hands, the others do not.
LEMMA HoldsMoved ==
    ASSUME PoolInv, NEW H, NEW to, Untouched(H),
           owner' = [h \in Hold |-> IF h \in H THEN to ELSE owner[h]],
           \A h \in Hold \cap H : HoldKept(sdk', receiptRetirements', to, h)
    PROVE  Holds'
<1> SUFFICES ASSUME NEW h \in Hold
             PROVE  HoldKept(sdk', receiptRetirements', owner'[h], h)
  BY DEF Holds
<1>1. CASE h \in H
  BY <1>1
<1>2. CASE h \notin H
  <2>1. HoldKept(sdk, receiptRetirements, owner[h], h) /\ owner'[h] = owner[h]
    BY <1>2 DEF PoolInv, Holds
  <2>2. /\ \A t \in Session : /\ h \in sdk'[t].holds <=> h \in sdk[t].holds
                              /\ h \in sdk[t].holds => sdk'[t].id = sdk[t].id
        /\ \A i \in Identity :
              receiptRetirements'[i] # None /\ h \in receiptRetirements'[i].holds <=>
              receiptRetirements[i] # None /\ h \in receiptRetirements[i].holds
    BY <1>2 DEF Untouched, Keeps
  <2> QED
    BY <2>1, <2>2 DEF HoldKept
<1> QED
  BY <1>1, <1>2

\* Session s takes over the holds H, which are spare or were kept by a receipt.
LEMMA HoldsGiven ==
    ASSUME PoolInv, NEW s \in Session, OnlyOf(s), NEW H \in SUBSET Hold,
           sdk'[s].holds = sdk[s].holds \cup H, sdk'[s].id = sdk[s].id,
           NEW to \in Session \cup Identity, to = s \/ to = sdk[s].id,
           owner' = Giving(H, to),
           \A h \in H, t \in Session : h \notin sdk[t].holds,
           \A h \in H, i \in Identity : ~ Keeps(receiptRetirements'[i], h),
           \A h \in Hold \ H, i \in Identity :
              Keeps(receiptRetirements'[i], h) <=> Keeps(receiptRetirements[i], h)
    PROVE  Holds'
<1>1. Untouched(H)
  BY DEF Untouched, OnlyOf
<1>2. ASSUME NEW h \in Hold \cap H
      PROVE  HoldKept(sdk', receiptRetirements', to, h)
  <2>1. \A t \in Session : h \in sdk'[t].holds <=> t = s
    BY DEF OnlyOf
  <2>2. \A i \in Identity :
           ~ (receiptRetirements'[i] # None /\ h \in receiptRetirements'[i].holds)
    BY DEF Keeps
  <2>3. to # None
    BY PoolAssumption
  <2> QED
    BY <2>1, <2>2, <2>3 DEF HoldKept
<1> QED
  BY <1>1, <1>2, HoldsMoved DEF Giving

\* Holds are released: nobody keeps them any more.
LEMMA HoldsReleased ==
    ASSUME PoolInv, NEW H \in SUBSET Hold, Untouched(H), owner' = Releasing(H),
           \A h \in H, t \in Session : h \notin sdk'[t].holds,
           \A h \in H, i \in Identity : ~ Keeps(receiptRetirements'[i], h)
    PROVE  Holds'
<1>1. ASSUME NEW h \in Hold \cap H
      PROVE  HoldKept(sdk', receiptRetirements', None, h)
  BY DEF HoldKept, Keeps
<1> QED
  BY <1>1, HoldsMoved DEF Releasing

\* The receipt i keeps the spare holds H.
LEMMA HoldsTaken ==
    ASSUME PoolInv, NEW i \in Identity, NEW H \in SUBSET Spare, sdk' = sdk,
           owner' = Giving(H, i), receiptRetirements'[i] # None,
           receiptRetirements'[i].holds =
              H \cup (IF receiptRetirements[i] = None THEN {}
                      ELSE receiptRetirements[i].holds),
           \A j \in Identity \ {i} : receiptRetirements'[j] = receiptRetirements[j]
    PROVE  Holds'
<1>1. \A h \in Hold : HoldKept(sdk, receiptRetirements, owner[h], h)
  BY DEF PoolInv, Holds
<1>2. ASSUME NEW h \in H
      PROVE  /\ h \in Hold /\ \A t \in Session : h \notin sdk[t].holds
             /\ \A j \in Identity : ~ Keeps(receiptRetirements[j], h)
  BY <1>1, PoolAssumption DEF Spare, HoldKept, Keeps
<1>3. Untouched(H)
  BY DEF Untouched, Keeps
<1>4. ASSUME NEW h \in Hold \cap H
      PROVE  HoldKept(sdk', receiptRetirements', i, h)
  <2>1. \A t \in Session : h \notin sdk'[t].holds
    BY <1>2
  <2>2. \A j \in Identity :
           receiptRetirements'[j] # None /\ h \in receiptRetirements'[j].holds <=> j = i
    BY <1>2 DEF Keeps
  <2> QED
    BY <2>1, <2>2 DEF HoldKept
<1> QED
  BY <1>3, <1>4, HoldsMoved DEF Giving

\* Nobody of an identity, or of a session, is under way any more.
Gone(o) == \A t \in Session : t = o \/ sdk[t].id = o => ~ Alive(t)'

\* A session is positively disposed of: its holds are released, and whoever they
\* belong to is gone.
LEMMA DisposedStep ==
    ASSUME PoolInv, NEW s \in Session, disposed(s)
    PROVE  PoolInv' /\ \A h \in Hold : owner[h] # None /\ owner'[h] = None => Gone(owner[h])
<1> DEFINE d == sdk[s].dir
           H == sdk[s].holds
           b == IF sdk[s].bounded = "pending" THEN "fulfilled" ELSE sdk[s].bounded
           x == [sdk[s] EXCEPT !.st = "disposed", !.holds = {}, !.bounded = b]
<1>1. /\ sdk \in [Session -> SdkSession] /\ sdk[s] \in SdkSession
      /\ SessionKept(sdk, sessions, retirements, creationHolds, s) /\ s # None
  BY SessionTyped
<1>2. /\ sdk[s].st = "disposing" /\ sdk' = [sdk EXCEPT ![s] = x]
      /\ retirements' = [e \in WorkDir |-> IF retirements[e] = s THEN None
                                           ELSE retirements[e]]
      /\ owner' = Releasing(H)
      /\ UNCHANGED <<sessions, creationHolds, transitions, receiptRetirements, closed>>
  BY <1>1 DEF disposed
<1>3. b \in Bounded /\ H \in SUBSET Hold
  BY <1>1 DEF SdkSession, Bounded
<1> HIDE DEF b
<1>4. /\ x \in SdkSession /\ x.st = "disposed" /\ x.holds = {} /\ x.dir = d
      /\ x.id = sdk[s].id
  BY <1>1, <1>3 DEF SdkSession, SdkState
<1> HIDE DEF x
<1>5. sdk' \in [Session -> SdkSession] /\ OnlyOf(s) /\ sdk'[s] = x
  BY <1>1, <1>2, <1>4 DEF OnlyOf
<1>6. d \in WorkDir /\ retirements[d] = s
  BY <1>1, <1>2 DEF SessionKept
<1>7. Alone(s, d) /\ Apart(s, d)
  BY <1>2, <1>6, AliveAlone, OwnApart
<1>8. /\ OnlyAt(d) /\ retirements'[d] = None
      /\ retirements' \in [WorkDir -> Session \cup {None}]
  <2>1. \A e \in WorkDir \ {d} : retirements[e] # s
    BY <1>7 DEF Apart
  <2> HIDE DEF d
  <2> QED
    BY <1>2, <1>6, <2>1 DEF OnlyAt, PoolInv, TypeOK
<1>9. \A e \in WorkDir : DirKept(sdk, sessions[e], retirements[e], creationHolds[e],
                                 transitions[e], closed, e)
  BY DEF PoolInv, Structure
<1>10. DirKept(sdk', sessions'[d], retirements'[d], creationHolds'[d],
               transitions'[d], closed, d)
  <2>1. DirKept(sdk, sessions[d], retirements[d], creationHolds[d],
                transitions[d], closed, d)
    BY <1>6, <1>9
  <2>2. sessions[d] # None => sessions[d].session = None
    BY <1>1, <1>6, <2>1 DEF DirKept
  <2>3. transitions[d] # None => /\ transitions[d].session = s
                                 /\ transitions[d].phase \notin {"creating", "late"}
    BY <1>1, <1>6, <2>1 DEF DirKept
  <2> HIDE DEF d
  <2>4. DirKept(sdk', sessions[d], None, creationHolds[d], transitions[d], closed, d)
    BY <1>4, <1>5, <2>1, <2>2, <2>3 DEF DirKept
  <2> QED
    BY <1>2, <1>8, <2>4
<1>11. SessionKept(sdk', sessions', retirements', creationHolds', s)
  BY <1>4, <1>5 DEF SessionKept
<1>12. Followed(s) /\ NotRetired(d)
  BY <1>2, <1>4, <1>5 DEF Followed, NotRetired
<1>13. \A i \in Identity :
          ReceiptKept(sdk', transitions', receiptRetirements'[i], i)
  BY <1>2, <1>5, <1>6, <1>8, <1>12, ReceiptFollows
<1>14. HasPlace(sessions[d], retirements[d], creationHolds[d], transitions[d])
  BY <1>1, <1>6 DEF HasPlace
<1>15. Structure' /\ Cardinality(Held') <= MaxSessions
  <2> HIDE DEF d
  <2> QED
    BY <1>2, <1>5, <1>6, <1>7, <1>8, <1>10, <1>11, <1>13, <1>14, MapsKept
<1>16. \A h \in Hold : HoldKept(sdk, receiptRetirements, owner[h], h)
  BY DEF PoolInv, Holds
<1>17. Holds'
  <2>1. Untouched(H)
    BY <1>2, <1>4, <1>5 DEF Untouched, OnlyOf
  <2>2. \A h \in H, t \in Session : h \notin sdk'[t].holds
    BY <1>3, <1>4, <1>5, <1>16 DEF HoldKept, OnlyOf
  <2>3. \A h \in H, i \in Identity : ~ Keeps(receiptRetirements'[i], h)
    BY <1>2, <1>3, <1>16 DEF HoldKept, Keeps
  <2> QED
    BY <1>2, <1>3, <2>1, <2>2, <2>3, HoldsReleased
<1>18. TypeOK'
  <2>1. owner' \in [Hold -> Session \cup Identity \cup {None}]
    BY <1>2 DEF Releasing, PoolInv, TypeOK
  <2> QED
    BY <1>2, <1>5, <1>8, <2>1 DEF PoolInv, TypeOK
<1>19. ASSUME NEW h \in Hold, owner[h] # None, owner'[h] = None
       PROVE  Gone(owner[h])
  <2>1. h \in sdk[s].holds
    BY <1>2, <1>19 DEF Releasing
  <2>2. owner[h] = s \/ owner[h] = sdk[s].id
    BY <1>16, <2>1 DEF HoldKept
  <2> SUFFICES ASSUME NEW t \in Session, t = owner[h] \/ sdk[t].id = owner[h]
               PROVE  sdk'[t].st \notin {"creating", "live", "disposing", "failed"}
    BY DEF Gone, Alive
  <2>3. CASE t = s
    BY <1>4, <1>5, <2>3
  <2>4. CASE t # s
    <3>1. sdk'[t] = sdk[t] /\ sdk[s].id \in Identity \cup {None}
          /\ sdk[t].id \in Identity \cup {None}
      <4>1. sdk'[t] = sdk[t] /\ sdk[t] \in SdkSession
        BY <1>1, <1>5, <2>4 DEF OnlyOf
      <4> QED
        BY <1>1, <4>1 DEF SdkSession
    <3>2. owner[h] = sdk[s].id /\ sdk[t].id = sdk[s].id /\ sdk[s].id # None
      BY <1>19, <2>2, <2>4, <3>1, PoolAssumption
    <3>3. SUFFICES ASSUME sdk[t].st \in {"creating", "live", "disposing", "failed"}
                   PROVE  FALSE
      BY <3>1
    <3>4. sdk[t].dir = d
      <4>1. SessionKept(sdk, sessions, retirements, creationHolds, t)
        BY SessionTyped
      <4> QED
        BY <1>1, <1>2, <3>2, <3>3, <4>1 DEF SessionKept
    <3> QED
      BY <1>7, <2>4, <3>3, <3>4 DEF Alone
  <2> QED
    BY <2>3, <2>4
<1> QED
  BY <1>15, <1>17, <1>18, <1>19 DEF PoolInv

\* A live session leaves its entry for the retirements, with the holds H.
LEMMA LiveRetired ==
    ASSUME PoolInv, NEW d \in WorkDir, sessions[d] # None, sessions[d].session # None,
           NEW H, H \in SUBSET Hold, retireEffect({sessions[d].session}, H),
           sessions' = [sessions EXCEPT ![d] = None],
           UNCHANGED <<creationHolds, transitions, closed>>
    PROVE  LET s == sessions[d].session IN
           /\ s \in Session /\ sdk' \in [Session -> SdkSession]
           /\ sessions' \in [WorkDir -> Entry \cup {None}]
           /\ retirements' \in [WorkDir -> Session \cup {None}]
           /\ OnlyAt(d) /\ OnlyOf(s) /\ Alone(s, d) /\ Apart(s, d)
           /\ sdk[s].holds = {} /\ sdk'[s].holds = H /\ sdk'[s].id = sdk[s].id
           /\ sdk[s].id = sessions[d].id /\ sdk'[s].st = "disposing"
           /\ Followed(s) /\ NotRetired(d)
           /\ DirKept(sdk', sessions'[d], retirements'[d], creationHolds'[d],
                      transitions'[d], closed, d)
           /\ SessionKept(sdk', sessions', retirements', creationHolds', s)
           /\ HasPlace(sessions[d], retirements[d], creationHolds[d], transitions[d])
<1>0. PICK s \in Session : s = sessions[d].session
  BY LiveFacts
<1>1. /\ sdk[s].st = "live" /\ sdk[s].dir = d
      /\ sdk[s].id = sessions[d].id /\ sdk[s].holds = {}
      /\ transitions[d] = None /\ creationHolds[d] = None
      /\ Alone(s, d) /\ Apart(s, d) /\ Followed(s)
  BY <1>0, LiveFacts
<1>2. retireEffect({s}, H)
  BY <1>0
<1>3. /\ sdk' \in [Session -> SdkSession] /\ OnlyOf(s)
      /\ sdk'[s].st = "disposing" /\ sdk'[s].dir = d /\ sdk'[s].id = sdk[s].id
      /\ sdk'[s].holds = H /\ sdk'[s].bounded = "pending"
      /\ retirements' = [retirements EXCEPT ![d] = s] /\ retirements'[d] = s
      /\ retirements' \in [WorkDir -> Session \cup {None}]
  BY <1>1, <1>2, RetireOne
<1>4. /\ sessions' \in [WorkDir -> Entry \cup {None}] /\ sessions'[d] = None
      /\ OnlyAt(d)
  BY <1>3 DEF OnlyAt, PoolInv, TypeOK
<1>5. DirKept(sdk', sessions'[d], retirements'[d], creationHolds'[d],
              transitions'[d], closed, d)
  BY <1>1, <1>3, <1>4 DEF DirKept
<1>6. SessionKept(sdk, sessions, retirements, creationHolds, s)
  BY <1>1, SessionTyped
<1>7. SessionKept(sdk', sessions', retirements', creationHolds', s)
  BY <1>1, <1>3, <1>6 DEF SessionKept
<1>8. NotRetired(d)
  BY <1>1 DEF NotRetired
<1>9. HasPlace(sessions[d], retirements[d], creationHolds[d], transitions[d])
  BY DEF HasPlace
<1> QED
  BY <1>1, <1>3, <1>4, <1>5, <1>7, <1>0, <1>8, <1>9

\* A caller's hold is kept by nobody.
LEMMA SpareUnkept ==
    ASSUME PoolInv, NEW h \in Spare
    PROVE  /\ h \in Hold /\ owner[h] = None
           /\ \A t \in Session : h \notin sdk[t].holds
           /\ \A j \in Identity : ~ Keeps(receiptRetirements[j], h)
<1>1. h \in Hold /\ owner[h] = None /\ HoldKept(sdk, receiptRetirements, owner[h], h)
  BY DEF PoolInv, Holds, Spare
<1> QED
  BY <1>1, PoolAssumption DEF HoldKept, Keeps

\* A hold is released only when whoever it belongs to is gone.
Contained == \A h \in Hold : owner[h] # None /\ owner'[h] = None => Gone(owner[h])

\* Giving holds away releases none.
LEMMA GivingContained ==
    ASSUME PoolInv, NEW H \in SUBSET Hold, NEW to \in Session \cup Identity,
           owner' = Giving(H, to)
    PROVE  Contained /\ owner' \in [Hold -> Session \cup Identity \cup {None}]
<1>1. to # None
  BY PoolAssumption
<1> QED
  BY <1>1 DEF Contained, Giving, PoolInv, TypeOK

\* The holds H are added to the retirement of s.
LEMMA RetirementJoined ==
    ASSUME PoolInv, NEW s \in Session, sdk[s].st \in {"disposing", "failed"},
           NEW H \in SUBSET Hold, sdk' = [sdk EXCEPT ![s].holds = @ \cup H],
           UNCHANGED <<sessions, retirements, creationHolds, transitions, closed>>
    PROVE  /\ sdk' \in [Session -> SdkSession] /\ OnlyOf(s)
           /\ sdk'[s].holds = sdk[s].holds \cup H
           /\ \A t \in Session : sdk'[t].id = sdk[t].id /\ sdk'[t].st = sdk[t].st
           /\ \A e \in WorkDir :
                 DirKept(sdk', sessions'[e], retirements'[e], creationHolds'[e],
                         transitions'[e], closed', e)
           /\ \A t \in Session :
                 SessionKept(sdk', sessions', retirements', creationHolds', t)
           /\ Cardinality(Held') <= MaxSessions
<1> DEFINE x == [sdk[s] EXCEPT !.holds = sdk[s].holds \cup H]
<1>1. sdk \in [Session -> SdkSession] /\ sdk[s] \in SdkSession
  BY SessionTyped
<1>2. sdk' = [sdk EXCEPT ![s] = x]
  BY <1>1
<1>3. /\ x \in SdkSession /\ x.st = sdk[s].st /\ x.dir = sdk[s].dir /\ x.id = sdk[s].id
      /\ x.bounded = sdk[s].bounded /\ x.holds = sdk[s].holds \cup H
  BY <1>1 DEF SdkSession
<1> HIDE DEF x
<1>4. sdk' \in [Session -> SdkSession] /\ OnlyOf(s) /\ sdk'[s] = x
  BY <1>1, <1>2, <1>3 DEF OnlyOf
<1>5. \A t \in Session :
         /\ sdk'[t].id = sdk[t].id /\ sdk'[t].st = sdk[t].st
         /\ sdk'[t].dir = sdk[t].dir /\ sdk'[t].bounded = sdk[t].bounded
         /\ sdk[t].st \notin {"disposing", "failed"} => sdk'[t].holds = sdk[t].holds
  BY <1>3, <1>4 DEF OnlyOf
<1>6. ASSUME NEW e \in WorkDir
      PROVE  DirKept(sdk', sessions[e], retirements[e], creationHolds[e],
                     transitions[e], closed, e)
  <2>1. /\ DirKept(sdk, sessions[e], retirements[e], creationHolds[e],
                   transitions[e], closed, e)
        /\ sessions[e] # None => sessions[e].session \in Session \cup {None}
        /\ retirements[e] \in Session \cup {None}
        /\ transitions[e] # None => transitions[e].session \in Session
    BY DirTyped
  <2> QED
    BY <1>5, <2>1 DEF DirKept
<1>7. ASSUME NEW t \in Session
      PROVE  SessionKept(sdk', sessions, retirements, creationHolds, t)
  <2>1. SessionKept(sdk, sessions, retirements, creationHolds, t)
    BY SessionTyped
  <2> QED
    BY <1>5, <2>1 DEF SessionKept
<1>8. Held' = Held
  BY DEF Held, Admitted, InPhase
<1> QED
  BY <1>3, <1>4, <1>5, <1>6, <1>7, <1>8, HeldShrinks

\* Receipts whose sessions keep their identity and stay retired.
LEMMA ReceiptsSame ==
    ASSUME PoolInv, NEW j \in Identity, transitions' = transitions,
           \A t \in Session : sdk'[t].id = sdk[t].id /\ sdk'[t].st = sdk[t].st
    PROVE  ReceiptKept(sdk', transitions', receiptRetirements[j], j)
<1>1. /\ ReceiptKept(sdk, transitions, receiptRetirements[j], j)
      /\ receiptRetirements[j] # None =>
            receiptRetirements[j].session \in Session \cup {None}
  BY ReceiptTyped
<1> QED
  BY <1>1 DEF ReceiptKept

\* A session in retirements is being disposed of.
LEMMA RetiringFacts ==
    ASSUME PoolInv, NEW s \in Session, NEW d \in WorkDir, retirements[d] = s
    PROVE  sdk[s].st \in {"disposing", "failed"} /\ sdk[s].dir = d
BY DirTyped, PoolAssumption DEF DirKept

\* retireSession.
LEMMA RetireSessionStep ==
    ASSUME PoolInv, NEW s \in Session, NEW H \in SUBSET Hold, retireSession(s, H)
    PROVE  PoolInv' /\ Contained
<1>1. H \subseteq Spare /\ UNCHANGED <<creationHolds, transitions, receiptRetirements, closed>>
  BY DEF retireSession
<1>2. /\ \A h \in H, t \in Session : h \notin sdk[t].holds
      /\ \A h \in H, j \in Identity : ~ Keeps(receiptRetirements[j], h)
  BY <1>1, SpareUnkept
<1>3. CASE \E d \in WorkDir : retirements[d] = s
  <2>1. PICK d \in WorkDir : retirements[d] = s
    BY <1>3
  <2>2. sdk[s].st \in {"disposing", "failed"}
    BY <2>1, RetiringFacts
  <2>3. /\ sdk' = [sdk EXCEPT ![s].holds = @ \cup H] /\ owner' = Giving(H, s)
        /\ UNCHANGED <<sessions, retirements>>
    BY <1>3, <2>2 DEF retireSession, addRetirementHolds
  <2>4. /\ sdk' \in [Session -> SdkSession] /\ OnlyOf(s)
        /\ sdk'[s].holds = sdk[s].holds \cup H
        /\ \A t \in Session : sdk'[t].id = sdk[t].id /\ sdk'[t].st = sdk[t].st
        /\ \A e \in WorkDir :
              DirKept(sdk', sessions'[e], retirements'[e], creationHolds'[e],
                      transitions'[e], closed', e)
        /\ \A t \in Session :
              SessionKept(sdk', sessions', retirements', creationHolds', t)
        /\ Cardinality(Held') <= MaxSessions
    BY <1>1, <2>2, <2>3, RetirementJoined
  <2>5. \A j \in Identity : ReceiptKept(sdk', transitions', receiptRetirements'[j], j)
    BY <1>1, <2>4, ReceiptsSame
  <2>6. Structure'
    BY <2>4, <2>5 DEF Structure
  <2>7. Holds'
    BY <1>1, <1>2, <2>3, <2>4, HoldsGiven
  <2>8. Contained /\ owner' \in [Hold -> Session \cup Identity \cup {None}]
    BY <2>3, GivingContained
  <2>9. TypeOK'
    BY <1>1, <2>3, <2>4, <2>8 DEF PoolInv, TypeOK
  <2> QED
    BY <2>4, <2>6, <2>7, <2>8, <2>9 DEF PoolInv
<1>4. CASE ~ \E d \in WorkDir : retirements[d] = s
  <2>1. PICK d \in WorkDir : /\ sessions[d] # None /\ sessions[d].session = s
                             /\ sessions' = [sessions EXCEPT ![d] = None]
    BY <1>4 DEF retireSession
  <2>2. /\ retireEffect({s}, H) /\ owner' = Giving(H, s)
        /\ retireEffect({sessions[d].session}, H) /\ sessions[d].session # None
    BY <1>4, <2>1, PoolAssumption DEF retireSession
  <2>3. /\ sdk' \in [Session -> SdkSession]
        /\ sessions' \in [WorkDir -> Entry \cup {None}]
        /\ retirements' \in [WorkDir -> Session \cup {None}]
        /\ OnlyAt(d) /\ OnlyOf(s) /\ Alone(s, d) /\ Apart(s, d)
        /\ sdk[s].holds = {} /\ sdk'[s].holds = H /\ sdk'[s].id = sdk[s].id
        /\ Followed(s) /\ NotRetired(d)
        /\ DirKept(sdk', sessions'[d], retirements'[d], creationHolds'[d],
                   transitions'[d], closed, d)
        /\ SessionKept(sdk', sessions', retirements', creationHolds', s)
        /\ HasPlace(sessions[d], retirements[d], creationHolds[d], transitions[d])
    BY <1>1, <2>1, <2>2, LiveRetired
  <2>4. \A j \in Identity : ReceiptKept(sdk', transitions', receiptRetirements'[j], j)
    BY <1>1, <2>3, ReceiptFollows
  <2>5. Structure' /\ Cardinality(Held') <= MaxSessions
    BY <1>1, <2>3, <2>4, MapsKept
  <2>6. sdk'[s].holds = sdk[s].holds \cup H
    BY <2>3
  <2>7. Holds'
    BY <1>1, <1>2, <2>2, <2>3, <2>6, HoldsGiven
  <2>8. Contained /\ owner' \in [Hold -> Session \cup Identity \cup {None}]
    BY <2>2, GivingContained
  <2>9. TypeOK'
    BY <1>1, <2>3, <2>8 DEF PoolInv, TypeOK
  <2> QED
    BY <2>5, <2>7, <2>8, <2>9 DEF PoolInv
<1> QED
  BY <1>3, <1>4

-----------------------------------------------------------------------------
(* Receipts.                                                               *)

\* Receipt i changes to q.
LEMMA ReceiptChanged ==
    ASSUME PoolInv, NEW i \in Identity, NEW q \in Receipt \cup {None},
           receiptRetirements' = [receiptRetirements EXCEPT ![i] = q]
    PROVE  /\ receiptRetirements' \in [Identity -> Receipt \cup {None}]
           /\ receiptRetirements'[i] = q
           /\ \A j \in Identity \ {i} : receiptRetirements'[j] = receiptRetirements[j]
BY DEF PoolInv, TypeOK

\* The receipt of a retirement that is under way.
LEMMA AwaitingReceipt ==
    ASSUME NEW s \in Session
    PROVE  LET q == [pc |-> "bounded", session |-> s, holds |-> {}] IN
           /\ q \in Receipt /\ q # None
           /\ q.pc = "bounded" /\ q.session = s /\ q.holds = {}
<1> DEFINE q == [pc |-> "bounded", session |-> s, holds |-> {}]
<1>1. q \in Receipt /\ q.pc = "bounded" /\ q.session = s /\ q.holds = {}
  BY DEF Receipt
<1> HIDE DEF q
<1>2. q # None
  BY <1>1, PoolAssumption
<1> QED
  BY <1>1, <1>2 DEF q

\* The identity i has the holds H, and no coroutine works for it.
MayScan(i, H) ==
    /\ \A d \in WorkDir : transitions[d] # None => transitions[d].id # i
    /\ \A h \in H :
          /\ h \in Hold /\ owner[h] \in {None, i}
          /\ \A t \in Session : h \notin sdk[t].holds
          /\ \A j \in Identity \ {i} : ~ Keeps(receiptRetirements[j], h)
    /\ \A h \in Hold \ H : ~ Keeps(receiptRetirements[i], h)

\* The holds of the receipt i go to the session s of its identity.
LEMMA HoldsHandedOver ==
    ASSUME PoolInv, NEW i \in Identity, NEW H, MayScan(i, H), NEW s \in Session,
           OnlyOf(s), sdk'[s].holds = sdk[s].holds \cup H, sdk'[s].id = sdk[s].id,
           sdk[s].id = i, owner' = Giving(H, i),
           receiptRetirements' = [receiptRetirements EXCEPT ![i] =
                                     [pc |-> "bounded", session |-> s, holds |-> {}]]
    PROVE  /\ Holds' /\ Contained /\ owner' \in [Hold -> Session \cup Identity \cup {None}]
           /\ receiptRetirements' \in [Identity -> Receipt \cup {None}]
           /\ \A j \in Identity \ {i} : receiptRetirements'[j] = receiptRetirements[j]
           /\ receiptRetirements'[i] # None /\ receiptRetirements'[i].pc = "bounded"
           /\ receiptRetirements'[i].session = s /\ receiptRetirements'[i].holds = {}
<1> DEFINE q == [pc |-> "bounded", session |-> s, holds |-> {}]
<1>1. /\ q \in Receipt /\ q # None
      /\ q.pc = "bounded" /\ q.session = s /\ q.holds = {}
  BY AwaitingReceipt
<1>2. receiptRetirements' = [receiptRetirements EXCEPT ![i] = q]
  OBVIOUS
<1> HIDE DEF q
<1>3. /\ receiptRetirements' \in [Identity -> Receipt \cup {None}]
      /\ receiptRetirements'[i] = q
      /\ \A j \in Identity \ {i} : receiptRetirements'[j] = receiptRetirements[j]
  BY <1>1, <1>2, ReceiptChanged
<1>4. H \in SUBSET Hold
  BY DEF MayScan
<1>5. Contained /\ owner' \in [Hold -> Session \cup Identity \cup {None}]
  BY <1>4, GivingContained
<1>6. \A h \in H, t \in Session : h \notin sdk[t].holds
  BY DEF MayScan
<1>7. \A h \in H, j \in Identity : ~ Keeps(receiptRetirements'[j], h)
  BY <1>1, <1>3 DEF MayScan, Keeps
<1>8. \A h \in Hold \ H, j \in Identity :
         Keeps(receiptRetirements'[j], h) <=> Keeps(receiptRetirements[j], h)
  BY <1>1, <1>3 DEF MayScan, Keeps
<1>9. Holds'
  BY <1>4, <1>6, <1>7, <1>8, HoldsGiven
<1> QED
  BY <1>1, <1>3, <1>5, <1>9

\* The scan joins the retirement of the identity's session.
LEMMA ScanJoins ==
    ASSUME PoolInv, NEW i \in Identity, NEW H, MayScan(i, H),
           UNCHANGED <<sessions, retirements, creationHolds, transitions, closed>>,
           NEW s \in Session, sdk[s].id = i, \E d \in WorkDir : retirements[d] = s,
           sdk' = [sdk EXCEPT ![s].holds = @ \cup H], owner' = Giving(H, i),
           receiptRetirements' = [receiptRetirements EXCEPT ![i] =
                                     [pc |-> "bounded", session |-> s, holds |-> {}]]
    PROVE  PoolInv' /\ Contained
<1>1. H \in SUBSET Hold
  BY DEF MayScan
<1>2. sdk[s].st \in {"disposing", "failed"}
  BY RetiringFacts
<1>3. /\ sdk' \in [Session -> SdkSession] /\ OnlyOf(s)
      /\ sdk'[s].holds = sdk[s].holds \cup H
      /\ \A t \in Session : sdk'[t].id = sdk[t].id /\ sdk'[t].st = sdk[t].st
      /\ \A e \in WorkDir :
            DirKept(sdk', sessions'[e], retirements'[e], creationHolds'[e],
                    transitions'[e], closed', e)
      /\ \A t \in Session :
            SessionKept(sdk', sessions', retirements', creationHolds', t)
      /\ Cardinality(Held') <= MaxSessions
  BY <1>1, <1>2, RetirementJoined
<1>4. /\ Holds' /\ Contained /\ owner' \in [Hold -> Session \cup Identity \cup {None}]
      /\ receiptRetirements' \in [Identity -> Receipt \cup {None}]
      /\ \A j \in Identity \ {i} : receiptRetirements'[j] = receiptRetirements[j]
      /\ receiptRetirements'[i] # None /\ receiptRetirements'[i].pc = "bounded"
      /\ receiptRetirements'[i].session = s /\ receiptRetirements'[i].holds = {}
  BY <1>3, HoldsHandedOver
<1>5. ReceiptKept(sdk', transitions', receiptRetirements'[i], i)
  BY <1>2, <1>3, <1>4, PoolAssumption DEF ReceiptKept, MayScan
<1>6. \A j \in Identity : ReceiptKept(sdk', transitions', receiptRetirements[j], j)
  BY <1>3, ReceiptsSame
<1>7. Structure'
  BY <1>3, <1>4, <1>5, <1>6 DEF Structure
<1>8. TypeOK'
  BY <1>3, <1>4 DEF PoolInv, TypeOK
<1> QED
  BY <1>3, <1>4, <1>7, <1>8 DEF PoolInv

\* The scan retires the identity's live session.
LEMMA ScanRetires ==
    ASSUME PoolInv, NEW i \in Identity, NEW H, MayScan(i, H),
           UNCHANGED <<creationHolds, transitions, closed>>,
           NEW d \in WorkDir, sessions[d] # None, sessions[d].id = i,
           sessions[d].session # None, retireEffect({sessions[d].session}, H),
           sessions' = [sessions EXCEPT ![d] = None], owner' = Giving(H, i),
           receiptRetirements' = [receiptRetirements EXCEPT ![i] =
              [pc |-> "bounded", session |-> sessions[d].session, holds |-> {}]]
    PROVE  PoolInv' /\ Contained
<1>1. H \in SUBSET Hold
  BY DEF MayScan
<1>2. PICK s \in Session : s = sessions[d].session
  BY LiveFacts
<1>3. /\ sdk' \in [Session -> SdkSession]
      /\ sessions' \in [WorkDir -> Entry \cup {None}]
      /\ retirements' \in [WorkDir -> Session \cup {None}]
      /\ OnlyAt(d) /\ OnlyOf(s) /\ Alone(s, d) /\ Apart(s, d)
      /\ sdk[s].holds = {} /\ sdk'[s].holds = H /\ sdk'[s].id = sdk[s].id
      /\ sdk[s].id = sessions[d].id /\ sdk'[s].st = "disposing"
      /\ Followed(s) /\ NotRetired(d)
      /\ DirKept(sdk', sessions'[d], retirements'[d], creationHolds'[d],
                 transitions'[d], closed, d)
      /\ SessionKept(sdk', sessions', retirements', creationHolds', s)
      /\ HasPlace(sessions[d], retirements[d], creationHolds[d], transitions[d])
  BY <1>1, <1>2, LiveRetired
<1>4. /\ sdk'[s].holds = sdk[s].holds \cup H /\ sdk[s].id = i
      /\ receiptRetirements' = [receiptRetirements EXCEPT ![i] =
                                   [pc |-> "bounded", session |-> s, holds |-> {}]]
  BY <1>2, <1>3
<1>5. /\ Holds' /\ Contained /\ owner' \in [Hold -> Session \cup Identity \cup {None}]
      /\ receiptRetirements' \in [Identity -> Receipt \cup {None}]
      /\ \A j \in Identity \ {i} : receiptRetirements'[j] = receiptRetirements[j]
      /\ receiptRetirements'[i] # None /\ receiptRetirements'[i].pc = "bounded"
      /\ receiptRetirements'[i].session = s /\ receiptRetirements'[i].holds = {}
  BY <1>3, <1>4, HoldsHandedOver
<1>6. ReceiptKept(sdk', transitions', receiptRetirements'[i], i)
  BY <1>3, <1>4, <1>5, PoolAssumption DEF ReceiptKept, MayScan
<1>7. \A j \in Identity : ReceiptKept(sdk', transitions', receiptRetirements[j], j)
  BY <1>3, ReceiptFollows
<1>8. \A j \in Identity : ReceiptKept(sdk', transitions', receiptRetirements'[j], j)
  BY <1>5, <1>6, <1>7
<1>9. Structure' /\ Cardinality(Held') <= MaxSessions
  BY <1>3, <1>8, MapsKept
<1>10. TypeOK'
  BY <1>3, <1>5 DEF PoolInv, TypeOK
<1> QED
  BY <1>5, <1>9, <1>10 DEF PoolInv

\* The scan finds nothing left of the identity: the holds are released.
LEMMA ScanReleases ==
    ASSUME PoolInv, NEW i \in Identity, NEW H, MayScan(i, H),
           UNCHANGED <<sdk, sessions, retirements, creationHolds, transitions, closed>>,
           \A s \in Session, d \in WorkDir : retirements[d] = s => sdk[s].id # i,
           \A d \in WorkDir : sessions[d] # None => sessions[d].id # i,
           owner' = Releasing(H),
           receiptRetirements' = [receiptRetirements EXCEPT ![i] = None]
    PROVE  PoolInv' /\ Contained
<1>1. H \in SUBSET Hold
  BY DEF MayScan
<1>2. /\ receiptRetirements' \in [Identity -> Receipt \cup {None}]
      /\ receiptRetirements'[i] = None
      /\ \A j \in Identity \ {i} : receiptRetirements'[j] = receiptRetirements[j]
  BY ReceiptChanged
<1>3. Untouched(H)
  BY <1>2 DEF Untouched, MayScan, Keeps
<1>4. Holds'
  <2>1. \A h \in H, t \in Session : h \notin sdk'[t].holds
    BY DEF MayScan
  <2>2. \A h \in H, j \in Identity : ~ Keeps(receiptRetirements'[j], h)
    BY <1>2 DEF MayScan, Keeps
  <2> QED
    BY <1>1, <1>3, <2>1, <2>2, HoldsReleased
<1>5. Structure'
  <2>1. \A j \in Identity : ReceiptKept(sdk, transitions, receiptRetirements'[j], j)
    BY <1>2 DEF ReceiptKept, PoolInv, Structure
  <2> QED
    BY <2>1 DEF PoolInv, Structure
<1>6. TypeOK'
  BY <1>2 DEF PoolInv, TypeOK, Releasing
<1>7. Held' = Held
  BY DEF Held, Admitted, InPhase
<1>8. ASSUME NEW h \in Hold, owner[h] # None, owner'[h] = None
      PROVE  Gone(owner[h])
  <2>1. owner[h] = i
    BY <1>8 DEF Releasing, MayScan
  <2> SUFFICES ASSUME NEW t \in Session, sdk[t].id = i,
                      sdk[t].st \in {"creating", "live", "disposing", "failed"}
               PROVE  FALSE
    BY <2>1, PoolAssumption DEF Gone, Alive
  <2>2. PICK d \in WorkDir : d = sdk[t].dir
    BY InDirectory
  <2>3. DirKept(sdk, sessions[d], retirements[d], creationHolds[d], transitions[d],
                closed, d)
    BY DirTyped
  <2>4. t # None
    BY PoolAssumption
  <2>5. CASE creationHolds[d] = t /\ sdk[t].st = "creating"
    <3>1. /\ transitions[d] # None /\ transitions[d].session = t
          /\ transitions[d].phase \in {"creating", "late"}
      BY <2>3, <2>4, <2>5 DEF DirKept
    <3> QED
      BY <2>3, <3>1 DEF DirKept, MayScan
  <2>6. CASE sessions[d] # None /\ sessions[d].session = t
    BY <2>3, <2>4, <2>6 DEF DirKept
  <2>7. CASE retirements[d] = t
    BY <2>7
  <2> QED
    BY <2>2, <2>5, <2>6, <2>7, InDirectory
<1> QED
  BY <1>4, <1>5, <1>6, <1>7, <1>8, HeldShrinks DEF PoolInv, Contained

\* The scan of #retireManagedReceipt, in each of its three outcomes.
LEMMA ScanStep ==
    ASSUME PoolInv, NEW i \in Identity, NEW H, MayScan(i, H), scan(i, H),
           UNCHANGED <<creationHolds, transitions, closed>>
    PROVE  PoolInv' /\ Contained
<1>1. CASE \E s \in Session :
              /\ sdk[s].id = i /\ \E d \in WorkDir : retirements[d] = s
              /\ sdk' = [sdk EXCEPT ![s].holds = @ \cup H]
              /\ receiptRetirements' = [receiptRetirements EXCEPT ![i] =
                                   [pc |-> "bounded", session |-> s, holds |-> {}]]
              /\ owner' = Giving(H, i)
              /\ UNCHANGED <<sessions, retirements>>
  BY <1>1, ScanJoins
<1>2. CASE \E d \in WorkDir :
              /\ sessions[d] # None /\ sessions[d].id = i
              /\ sessions[d].session # None
              /\ retireEffect({sessions[d].session}, H)
              /\ receiptRetirements' = [receiptRetirements EXCEPT ![i] =
                   [pc |-> "bounded", session |-> sessions[d].session, holds |-> {}]]
              /\ owner' = Giving(H, i)
              /\ sessions' = [sessions EXCEPT ![d] = None]
  BY <1>2, ScanRetires
<1>3. CASE /\ {s \in Session : sdk[s].id = i /\ \E d \in WorkDir : retirements[d] = s} = {}
           /\ {d \in WorkDir : sessions[d] # None /\ sessions[d].id = i} = {}
           /\ receiptRetirements' = [receiptRetirements EXCEPT ![i] = None]
           /\ owner' = Releasing(H)
           /\ UNCHANGED <<sdk, sessions, retirements>>
  <2>1. /\ \A s \in Session, d \in WorkDir : retirements[d] = s => sdk[s].id # i
        /\ \A d \in WorkDir : sessions[d] # None => sessions[d].id # i
    BY <1>3
  <2> QED
    BY <1>3, <2>1, ScanReleases
<1> QED
  BY <1>1, <1>2, <1>3 DEF scan

\* retireManagedReceipt: the receipt waits for the transition of its identity, or
\* looks at once for what is left of it.
LEMMA RetireManagedReceiptStep ==
    ASSUME PoolInv, NEW i \in Identity, NEW H \in SUBSET Hold,
           retireManagedReceipt(i, H)
    PROVE  PoolInv' /\ Contained
<1>1. /\ H \subseteq Spare /\ receiptRetirements[i] = None
      /\ UNCHANGED <<creationHolds, transitions, closed>>
  BY DEF retireManagedReceipt
<1>2. CASE \E d \in WorkDir : transitions[d] # None /\ transitions[d].id = i
  <2> DEFINE q == [pc |-> "transition", session |-> None, holds |-> H]
  <2>1. /\ receiptRetirements' = [receiptRetirements EXCEPT ![i] = q]
        /\ owner' = Giving(H, i) /\ UNCHANGED <<sdk, sessions, retirements>>
    BY <1>2 DEF retireManagedReceipt
  <2>2. /\ q \in Receipt /\ q.pc = "transition" /\ q.session = None /\ q.holds = H
    BY DEF Receipt
  <2> HIDE DEF q
  <2>3. q # None
    BY <2>2, PoolAssumption
  <2>4. /\ receiptRetirements' \in [Identity -> Receipt \cup {None}]
        /\ receiptRetirements'[i] = q
        /\ \A j \in Identity \ {i} : receiptRetirements'[j] = receiptRetirements[j]
    BY <2>1, <2>2, ReceiptChanged
  <2>5. Holds'
    BY <1>1, <2>1, <2>2, <2>3, <2>4, HoldsTaken
  <2>6. Contained /\ owner' \in [Hold -> Session \cup Identity \cup {None}]
    BY <2>1, GivingContained
  <2>7. Structure'
    <3>1. \A j \in Identity : ReceiptKept(sdk, transitions, receiptRetirements'[j], j)
      BY <2>2, <2>4 DEF ReceiptKept, PoolInv, Structure
    <3> QED
      BY <1>1, <2>1, <3>1 DEF PoolInv, Structure
  <2>8. TypeOK'
    BY <1>1, <2>1, <2>4, <2>6 DEF PoolInv, TypeOK
  <2>9. Held' = Held
    BY <1>1, <2>1 DEF Held, Admitted, InPhase
  <2> QED
    BY <2>5, <2>6, <2>7, <2>8, <2>9, HeldShrinks DEF PoolInv
<1>3. CASE ~ \E d \in WorkDir : transitions[d] # None /\ transitions[d].id = i
  <2>1. scan(i, H)
    BY <1>3 DEF retireManagedReceipt
  <2>2. ASSUME NEW h \in H
        PROVE  /\ h \in Hold /\ owner[h] \in {None, i}
               /\ \A t \in Session : h \notin sdk[t].holds
               /\ \A j \in Identity \ {i} : ~ Keeps(receiptRetirements[j], h)
    BY <1>1, SpareUnkept
  <2>3. MayScan(i, H)
    BY <1>1, <1>3, <2>2 DEF MayScan, Keeps
  <2> QED
    BY <1>1, <2>1, <2>3, ScanStep
<1> QED
  BY <1>2, <1>3

\* A further call hands its holds to the retirement under way.
LEMMA RetireManagedReceiptAgainStep ==
    ASSUME PoolInv, NEW i \in Identity, NEW H \in SUBSET Hold,
           retireManagedReceiptAgain(i, H)
    PROVE  PoolInv' /\ Contained
<1>1. /\ H \subseteq Spare /\ receiptRetirements[i] # None
      /\ UNCHANGED <<sessions, retirements, creationHolds, transitions, closed>>
  BY DEF retireManagedReceiptAgain
<1>2. /\ receiptRetirements[i] \in Receipt
      /\ receiptRetirements[i].session \in Session \cup {None}
      /\ receiptRetirements[i].holds \subseteq Hold
      /\ ReceiptKept(sdk, transitions, receiptRetirements[i], i)
  BY <1>1, ReceiptTyped
<1>3. /\ \A h \in H, t \in Session : h \notin sdk[t].holds
      /\ \A h \in H, j \in Identity : ~ Keeps(receiptRetirements[j], h)
  BY <1>1, SpareUnkept
<1>4. CASE receiptRetirements[i].session # None
  <2>1. PICK s \in Session : s = receiptRetirements[i].session
    BY <1>2, <1>4
  <2>2. sdk[s].id = i /\ sdk[s].st \in {"disposing", "failed", "disposed"}
    BY <1>1, <1>2, <1>4, <2>1 DEF ReceiptKept
  <2>3. addRetirementHolds(s, H, i) /\ UNCHANGED receiptRetirements
    BY <1>4, <2>1 DEF retireManagedReceiptAgain
  <2>4. CASE sdk[s].st = "disposed"
    <3>1. UNCHANGED vars
      BY <1>1, <2>3, <2>4 DEF addRetirementHolds, vars
    <3>2. PoolInv'
      BY <3>1 DEF PoolInv, TypeOK, Structure, Holds, Held, Admitted, InPhase, vars
    <3> QED
      BY <3>1, <3>2 DEF Contained, vars
  <2>5. CASE sdk[s].st \in {"disposing", "failed"}
    <3>1. sdk' = [sdk EXCEPT ![s].holds = @ \cup H] /\ owner' = Giving(H, i)
      BY <2>3, <2>5 DEF addRetirementHolds
    <3>2. /\ sdk' \in [Session -> SdkSession] /\ OnlyOf(s)
          /\ sdk'[s].holds = sdk[s].holds \cup H
          /\ \A t \in Session : sdk'[t].id = sdk[t].id /\ sdk'[t].st = sdk[t].st
          /\ \A e \in WorkDir :
                DirKept(sdk', sessions'[e], retirements'[e], creationHolds'[e],
                        transitions'[e], closed', e)
          /\ \A t \in Session :
                SessionKept(sdk', sessions', retirements', creationHolds', t)
          /\ Cardinality(Held') <= MaxSessions
      BY <1>1, <2>5, <3>1, RetirementJoined
    <3>3. \A j \in Identity :
             ReceiptKept(sdk', transitions', receiptRetirements'[j], j)
      BY <1>1, <2>3, <3>2, ReceiptsSame
    <3>4. Structure'
      BY <3>2, <3>3 DEF Structure
    <3>5. Holds'
      BY <1>3, <2>2, <2>3, <3>1, <3>2, HoldsGiven
    <3>6. Contained /\ owner' \in [Hold -> Session \cup Identity \cup {None}]
      BY <3>1, GivingContained
    <3>7. TypeOK'
      BY <1>1, <2>3, <3>2, <3>6 DEF PoolInv, TypeOK
    <3> QED
      BY <3>2, <3>4, <3>5, <3>6, <3>7 DEF PoolInv
  <2> QED
    BY <2>2, <2>4, <2>5
<1>5. CASE receiptRetirements[i].session = None
  <2> DEFINE r == receiptRetirements[i]
             q == [r EXCEPT !.holds = r.holds \cup H]
  <2>1. /\ receiptRetirements' = [receiptRetirements EXCEPT ![i] = q]
        /\ owner' = Giving(H, i) /\ UNCHANGED sdk
    <3>1. receiptRetirements \in [Identity -> Receipt \cup {None}]
      BY DEF PoolInv, TypeOK
    <3> QED
      BY <1>5, <3>1 DEF retireManagedReceiptAgain
  <2>2. /\ q \in Receipt /\ q.pc = r.pc /\ q.session = r.session
        /\ q.holds = r.holds \cup H
    BY <1>2 DEF Receipt
  <2> HIDE DEF q
  <2>3. q # None
    BY <2>2, PoolAssumption
  <2>4. /\ receiptRetirements' \in [Identity -> Receipt \cup {None}]
        /\ receiptRetirements'[i] = q
        /\ \A j \in Identity \ {i} : receiptRetirements'[j] = receiptRetirements[j]
    BY <2>1, <2>2, ReceiptChanged
  <2>5. Holds'
    <3>1. /\ receiptRetirements'[i] # None
          /\ receiptRetirements'[i].holds =
                H \cup (IF receiptRetirements[i] = None THEN {}
                        ELSE receiptRetirements[i].holds)
      BY <1>1, <2>2, <2>3, <2>4
    <3> QED
      BY <1>1, <2>1, <2>4, <3>1, HoldsTaken
  <2>6. Contained /\ owner' \in [Hold -> Session \cup Identity \cup {None}]
    BY <2>1, GivingContained
  <2>7. Structure'
    <3>1. ReceiptKept(sdk, transitions, q, i)
      BY <1>1, <1>2, <1>5, <2>2 DEF ReceiptKept
    <3>2. \A j \in Identity : ReceiptKept(sdk, transitions, receiptRetirements'[j], j)
      BY <2>4, <3>1 DEF PoolInv, Structure
    <3> QED
      BY <1>1, <2>1, <3>2 DEF PoolInv, Structure
  <2>8. TypeOK'
    BY <1>1, <2>1, <2>4, <2>6 DEF PoolInv, TypeOK
  <2>9. Held' = Held
    BY <1>1 DEF Held, Admitted, InPhase
  <2> QED
    BY <2>5, <2>6, <2>7, <2>8, <2>9, HeldShrinks DEF PoolInv
<1> QED
  BY <1>4, <1>5

\* The transition a receipt waited for is over.
LEMMA ReceiptResumedStep ==
    ASSUME PoolInv, NEW i \in Identity, receiptResumed(i)
    PROVE  PoolInv' /\ Contained
<1>1. /\ receiptRetirements[i] # None /\ receiptRetirements[i].pc = "scan"
      /\ scan(i, receiptRetirements[i].holds)
      /\ UNCHANGED <<creationHolds, transitions, closed>>
  BY DEF receiptResumed
<1>2. PICK H \in SUBSET Hold : H = receiptRetirements[i].holds
  BY <1>1, ReceiptTyped
<1>3. ReceiptKept(sdk, transitions, receiptRetirements[i], i)
  BY ReceiptTyped
<1>4. ASSUME NEW h \in H
      PROVE  /\ h \in Hold /\ owner[h] \in {None, i}
             /\ \A t \in Session : h \notin sdk[t].holds
             /\ \A j \in Identity \ {i} : ~ Keeps(receiptRetirements[j], h)
  <2>1. HoldKept(sdk, receiptRetirements, owner[h], h)
    BY DEF PoolInv, Holds
  <2> QED
    BY <1>1, <1>2, <2>1 DEF HoldKept, Keeps
<1>5. \A d \in WorkDir : transitions[d] # None => transitions[d].id # i
  BY <1>1, <1>3 DEF ReceiptKept
<1>6. MayScan(i, H)
  BY <1>2, <1>4, <1>5 DEF MayScan, Keeps
<1>7. scan(i, H)
  BY <1>1, <1>2
<1> QED
  BY <1>1, <1>6, <1>7, ScanStep

\* The disposal a receipt waited for is over, or timed out.
LEMMA ReceiptAnsweredStep ==
    ASSUME PoolInv, NEW i \in Identity, receiptAnswered(i)
    PROVE  PoolInv' /\ Contained
<1> DEFINE r == receiptRetirements[i]
<1>1. /\ r # None /\ r.pc \in {"bounded", "settling"}
      /\ UNCHANGED <<sdk, sessions, retirements, creationHolds, transitions,
                     owner, closed>>
      /\ receiptRetirements' \in {[receiptRetirements EXCEPT ![i].pc = "settling"],
            [receiptRetirements EXCEPT ![i] = None],
            [receiptRetirements EXCEPT ![i] = [@ EXCEPT !.pc = "failed"]]}
  BY DEF receiptAnswered
<1>2. /\ receiptRetirements \in [Identity -> Receipt \cup {None}]
      /\ r \in Receipt /\ r.holds \subseteq Hold
      /\ ReceiptKept(sdk, transitions, r, i)
  BY <1>1, ReceiptTyped
<1>3. r.session # None /\ r.holds = {}
  BY <1>1, <1>2 DEF ReceiptKept
<1>4. PICK q \in Receipt \cup {None} :
         /\ receiptRetirements' = [receiptRetirements EXCEPT ![i] = q]
         /\ q # None => /\ q.pc \in {"settling", "failed"}
                        /\ q.session = r.session /\ q.holds = r.holds
  <2>1. CASE receiptRetirements' = [receiptRetirements EXCEPT ![i] = None]
    BY <2>1
  <2>2. ASSUME NEW p \in {"settling", "failed"},
               receiptRetirements' = [receiptRetirements EXCEPT ![i] =
                                         [r EXCEPT !.pc = p]]
        PROVE  \E q \in Receipt \cup {None} :
                  /\ receiptRetirements' = [receiptRetirements EXCEPT ![i] = q]
                  /\ q # None => /\ q.pc \in {"settling", "failed"}
                                 /\ q.session = r.session /\ q.holds = r.holds
    <3> DEFINE q == [r EXCEPT !.pc = p]
    <3>1. q \in Receipt /\ q.pc = p /\ q.session = r.session /\ q.holds = r.holds
      BY <1>2 DEF Receipt
    <3> QED
      BY <2>2, <3>1
  <2> QED
    BY <1>1, <1>2, <2>1, <2>2
<1>5. /\ receiptRetirements' \in [Identity -> Receipt \cup {None}]
      /\ receiptRetirements'[i] = q
      /\ \A j \in Identity \ {i} : receiptRetirements'[j] = receiptRetirements[j]
  BY <1>4, ReceiptChanged
<1>6. ReceiptKept(sdk, transitions, q, i)
  BY <1>1, <1>2, <1>3, <1>4 DEF ReceiptKept
<1>7. Structure'
  <2>1. \A j \in Identity : ReceiptKept(sdk, transitions, receiptRetirements'[j], j)
    BY <1>5, <1>6 DEF PoolInv, Structure
  <2> QED
    BY <1>1, <2>1 DEF PoolInv, Structure
<1>8. Holds'
  <2>1. \A j \in Identity, h \in Hold :
           Keeps(receiptRetirements'[j], h) <=> Keeps(receiptRetirements[j], h)
    BY <1>1, <1>3, <1>4, <1>5 DEF Keeps
  <2>2. Untouched({})
    BY <1>1, <2>1 DEF Untouched
  <2>3. owner' = Releasing({})
    BY <1>1 DEF Releasing, PoolInv, TypeOK
  <2> QED
    BY <2>2, <2>3, HoldsReleased
<1>9. TypeOK'
  BY <1>1, <1>5 DEF PoolInv, TypeOK
<1>10. Held' = Held
  BY <1>1 DEF Held, Admitted, InPhase
<1> QED
  BY <1>1, <1>7, <1>8, <1>9, <1>10, HeldShrinks DEF PoolInv, Contained

-----------------------------------------------------------------------------
(* The reaper and shutdown.                                                *)

\* The live sessions of the directories in D are retired together.
LEMMA ManyRetired ==
    ASSUME PoolInv, NEW D \in SUBSET WorkDir,
           \A d \in D : sessions[d] # None /\ sessions[d].session # None,
           retireEffect({sessions[d].session : d \in D}, {}),
           sessions' \in [WorkDir -> Entry \cup {None}],
           \A d \in D : sessions'[d] = None,
           \A d \in WorkDir \ D :
              \/ sessions'[d] = sessions[d] /\ (closed' => sessions'[d] = None)
              \/ /\ sessions'[d] = None /\ closed'
                 /\ sessions[d] # None => sessions[d].session = None,
           closed' \in BOOLEAN, closed => closed',
           UNCHANGED <<creationHolds, transitions, receiptRetirements, owner>>
    PROVE  PoolInv'
<1> DEFINE S == {sessions[d].session : d \in D}
           x(s) == [sdk[s] EXCEPT !.st = "disposing", !.bounded = "pending",
                                  !.holds = {}]
<1>1. \A d \in D : /\ sessions[d].session \in Session
                   /\ sdk[sessions[d].session].st = "live"
                   /\ sdk[sessions[d].session].dir = d
                   /\ sdk[sessions[d].session].holds = {}
                   /\ transitions[d] = None /\ retirements[d] = None
                   /\ creationHolds[d] = None
  BY LiveFacts
<1>2. \A s \in S : /\ s \in Session /\ sdk[s].st = "live" /\ sdk[s].holds = {}
                   /\ sdk[s].dir \in D /\ s = sessions[sdk[s].dir].session
  BY <1>1
<1>3. sdk \in [Session -> SdkSession] /\ retirements \in [WorkDir -> Session \cup {None}]
  BY DEF PoolInv, TypeOK
<1>4. \A s \in Session : /\ x(s) \in SdkSession /\ x(s).st = "disposing"
                         /\ x(s).dir = sdk[s].dir /\ x(s).id = sdk[s].id
                         /\ x(s).holds = {} /\ x(s).bounded = "pending"
  <2> SUFFICES ASSUME NEW s \in Session
               PROVE  /\ x(s) \in SdkSession /\ x(s).st = "disposing"
                      /\ x(s).dir = sdk[s].dir /\ x(s).id = sdk[s].id
                      /\ x(s).holds = {} /\ x(s).bounded = "pending"
    OBVIOUS
  <2>1. sdk[s] \in SdkSession
    BY <1>3
  <2> QED
    BY <2>1 DEF SdkSession, SdkState, Bounded
<1>5. sdk' = [s \in Session |-> IF s \in S THEN x(s) ELSE sdk[s]]
  BY DEF retireEffect
<1>6. retirements' = [d \in WorkDir |-> IF \E s \in S : sdk[s].dir = d
                         THEN CHOOSE s \in S : sdk[s].dir = d ELSE retirements[d]]
  BY DEF retireEffect
<1>7. /\ \A d \in D : retirements'[d] = sessions[d].session
      /\ \A d \in WorkDir \ D : retirements'[d] = retirements[d]
  <2>1. ASSUME NEW d \in D
        PROVE  retirements'[d] = sessions[d].session
    <3>1. sessions[d].session \in S /\ sdk[sessions[d].session].dir = d
      BY <1>1
    <3>2. \A s \in S : sdk[s].dir = d => s = sessions[d].session
      BY <1>2
    <3> HIDE DEF S
    <3>3. (CHOOSE s \in S : sdk[s].dir = d) = sessions[d].session
      BY <3>1, <3>2
    <3> QED
      BY <1>6, <3>1, <3>3
  <2>2. ASSUME NEW d \in WorkDir \ D
        PROVE  retirements'[d] = retirements[d]
    <3>1. ~ \E s \in S : sdk[s].dir = d
      BY <1>2
    <3> HIDE DEF S
    <3> QED
      BY <1>6, <3>1
  <2> QED
    BY <2>1, <2>2
<1>8. \A d \in D : sessions[d].session \in S
  OBVIOUS
<1> HIDE DEF S, x
<1>9. /\ \A t \in Session \ S : sdk'[t] = sdk[t]
      /\ \A t \in S : /\ sdk'[t].st = "disposing" /\ sdk'[t].dir = sdk[t].dir
                       /\ sdk'[t].id = sdk[t].id /\ sdk'[t].holds = {}
                       /\ sdk'[t].bounded = "pending"
      /\ sdk' \in [Session -> SdkSession]
  BY <1>2, <1>3, <1>4, <1>5
<1>10. retirements' \in [WorkDir -> Session \cup {None}]
  <2>1. \A d \in WorkDir : retirements'[d] \in Session \cup {None}
    BY <1>1, <1>3, <1>7
  <2>2. retirements' = [d \in WorkDir |-> retirements'[d]]
    BY <1>6
  <2> QED
    BY <2>1, <2>2
<1>11. TypeOK'
  BY <1>9, <1>10 DEF PoolInv, TypeOK
<1>12. ASSUME NEW d \in WorkDir
       PROVE  DirKept(sdk', sessions'[d], retirements'[d], creationHolds'[d],
                      transitions'[d], closed', d)
  <2>1. CASE d \in D
    <3>1. /\ sessions'[d] = None /\ transitions'[d] = None /\ creationHolds'[d] = None
          /\ retirements'[d] = sessions[d].session
      BY <1>1, <1>7, <2>1
    <3>2. /\ sdk'[retirements'[d]].st = "disposing" /\ sdk'[retirements'[d]].dir = d
      BY <1>1, <1>8, <1>9, <2>1, <3>1
    <3> QED
      BY <3>1, <3>2 DEF DirKept
  <2>2. CASE d \notin D
    <3>1. /\ DirKept(sdk, sessions[d], retirements[d], creationHolds[d],
                     transitions[d], closed, d)
          /\ sessions[d] # None => sessions[d].session \in Session \cup {None}
          /\ retirements[d] \in Session \cup {None}
          /\ transitions[d] # None => transitions[d].session \in Session
      BY DirTyped
    <3>2. \A s \in S : sdk[s].dir # d
      BY <1>2, <2>2
    <3>3. /\ sessions[d] # None /\ sessions[d].session # None =>
                sdk'[sessions[d].session] = sdk[sessions[d].session]
          /\ retirements[d] # None => sdk'[retirements[d]] = sdk[retirements[d]]
          /\ transitions[d] # None =>
                sdk'[transitions[d].session] = sdk[transitions[d].session]
      BY <1>9, <3>1, <3>2 DEF DirKept
    <3>4. /\ retirements'[d] = retirements[d]
          /\ \/ sessions'[d] = sessions[d] /\ (closed' => sessions'[d] = None)
             \/ sessions'[d] = None /\ closed'
      BY <1>7, <2>2
    <3>5. DirKept(sdk', sessions'[d], retirements[d], creationHolds[d],
                  transitions[d], closed', d)
      BY <3>1, <3>3, <3>4 DEF DirKept
    <3> QED
      BY <3>4, <3>5
  <2> QED
    BY <2>1, <2>2
<1>13. ASSUME NEW t \in Session
       PROVE  SessionKept(sdk', sessions', retirements', creationHolds', t)
  <2>1. SessionKept(sdk, sessions, retirements, creationHolds, t)
        /\ sdk[t].st \in SdkState /\ t # None
    BY SessionTyped
  <2>2. CASE t \in S
    <3>1. /\ sdk'[t].st = "disposing" /\ sdk'[t].dir = sdk[t].dir
          /\ sdk'[t].id = sdk[t].id /\ sdk'[t].holds = {}
          /\ sdk'[t].bounded = "pending" /\ sdk[t].st = "live"
          /\ retirements'[sdk[t].dir] = t
      BY <1>2, <1>7, <1>9, <2>2
    <3> QED
      BY <2>1, <3>1 DEF SessionKept
  <2>3. CASE t \notin S
    <3>1. sdk'[t] = sdk[t]
      BY <1>9, <2>3
    <3>2. CASE sdk[t].st \in {"unused", "disposed"}
      BY <2>1, <3>1, <3>2 DEF SessionKept
    <3>3. CASE sdk[t].st \notin {"unused", "disposed"}
      <4>1. PICK d \in WorkDir : d = sdk[t].dir
        BY <3>3, InDirectory
      <4>2. \/ creationHolds[d] = t /\ sdk[t].st = "creating"
            \/ /\ sessions[d] # None
               /\ sessions[d].session = t /\ sdk[t].st = "live"
            \/ retirements[d] = t /\ sdk[t].st \in {"disposing", "failed"}
        BY <3>3, <4>1, InDirectory
      <4>3. d \notin D
        BY <1>1, <1>8, <2>1, <2>3, <4>2
      <4>4. /\ retirements'[d] = retirements[d]
            /\ sdk[t].st = "live" => sessions'[d] = sessions[d]
        BY <1>7, <2>1, <4>2, <4>3
      <4> QED
        BY <2>1, <3>1, <4>1, <4>4 DEF SessionKept
    <3> QED
      BY <3>2, <3>3
  <2> QED
    BY <2>2, <2>3
<1>14. ASSUME NEW i \in Identity
       PROVE  ReceiptKept(sdk', transitions', receiptRetirements'[i], i)
  <2>1. /\ ReceiptKept(sdk, transitions, receiptRetirements[i], i)
        /\ receiptRetirements[i] # None =>
              receiptRetirements[i].session \in Session \cup {None}
    BY ReceiptTyped
  <2>2. receiptRetirements[i] # None /\ receiptRetirements[i].session # None =>
           sdk'[receiptRetirements[i].session] = sdk[receiptRetirements[i].session]
    BY <1>2, <1>9, <2>1 DEF ReceiptKept
  <2>3. ReceiptKept(sdk', transitions, receiptRetirements[i], i)
    BY <2>1, <2>2 DEF ReceiptKept
  <2> QED
    BY <2>3
<1>15. Structure'
  BY <1>12, <1>13, <1>14 DEF Structure
<1>16. Holds'
  <2>1. \A t \in Session : sdk'[t].holds = sdk[t].holds /\ sdk'[t].id = sdk[t].id
    BY <1>2, <1>9
  <2>2. Untouched({})
    BY <2>1 DEF Untouched
  <2>3. owner' = Releasing({})
    BY DEF Releasing, PoolInv, TypeOK
  <2> QED
    BY <2>2, <2>3, HoldsReleased
<1>17. Held' \subseteq Held
  <2>1. Held' = {d \in WorkDir : HasPlace(sessions'[d], retirements'[d],
                                          creationHolds'[d], transitions'[d])}
    BY DEF Held, Admitted, InPhase, HasPlace
  <2>2. ASSUME NEW d \in WorkDir,
               HasPlace(sessions'[d], retirements'[d], creationHolds'[d], transitions'[d])
        PROVE  HasPlace(sessions[d], retirements[d], creationHolds[d], transitions[d])
    <3>1. CASE d \in D
      BY <3>1 DEF HasPlace
    <3>2. CASE d \notin D
      BY <1>7, <2>2, <3>2 DEF HasPlace
    <3> QED
      BY <3>1, <3>2
  <2> QED
    BY <2>1, <2>2, HeldPlaces
<1> QED
  BY <1>11, <1>15, <1>16, <1>17, HeldShrinks DEF PoolInv

\* #reapIdle.
LEMMA ReapIdleStep ==
    ASSUME PoolInv, NEW D \in SUBSET WorkDir, reapIdle(D)
    PROVE  PoolInv'
<1>1. /\ ~ closed
      /\ \A d \in D : sessions[d] # None /\ sessions[d].session # None
      /\ retireEffect({sessions[d].session : d \in D}, {})
      /\ sessions' = [d \in WorkDir |-> IF d \in D THEN None ELSE sessions[d]]
      /\ UNCHANGED <<creationHolds, transitions, receiptRetirements, owner, closed>>
  BY DEF reapIdle
<1>2. /\ sessions' \in [WorkDir -> Entry \cup {None}] /\ closed' \in BOOLEAN
      /\ closed => closed'
      /\ \A d \in D : sessions'[d] = None
      /\ \A d \in WorkDir \ D :
            sessions'[d] = sessions[d] /\ (closed' => sessions'[d] = None)
  BY <1>1 DEF PoolInv, TypeOK
<1> QED
  BY <1>1, <1>2, ManyRetired

\* shutdown().
LEMMA ShutdownStep ==
    ASSUME PoolInv, shutdown
    PROVE  PoolInv'
<1>1. PICK D \in SUBSET WorkDir :
         D = {d \in WorkDir : sessions[d] # None /\ sessions[d].session # None}
  OBVIOUS
<1>2. /\ closed' = TRUE /\ retireEffect({sessions[d].session : d \in D}, {})
      /\ sessions' = [d \in WorkDir |-> None]
      /\ UNCHANGED <<creationHolds, transitions, receiptRetirements, owner>>
  BY <1>1 DEF shutdown
<1>3. /\ sessions' \in [WorkDir -> Entry \cup {None}] /\ closed' \in BOOLEAN
      /\ closed => closed'
      /\ \A d \in D : sessions[d] # None /\ sessions[d].session # None
      /\ \A d \in D : sessions'[d] = None
      /\ \A d \in WorkDir \ D :
            /\ sessions'[d] = None /\ closed'
            /\ sessions[d] # None => sessions[d].session = None
  BY <1>1, <1>2
<1> QED
  BY <1>2, <1>3, ManyRetired

-----------------------------------------------------------------------------
(* The invariant.                                                          *)

\* The empty pool.
LEMMA PoolInit == Init => PoolInv
<1> SUFFICES ASSUME Init
             PROVE  PoolInv
  OBVIOUS
<1> DEFINE x == [st |-> "unused", dir |-> None, id |-> None, ended |-> FALSE,
                 bounded |-> "pending", holds |-> {}]
<1>1. /\ x \in SdkSession /\ x.st = "unused" /\ x.holds = {} /\ x.bounded = "pending"
  BY DEF SdkSession, SdkState, Bounded
<1>2. sdk = [s \in Session |-> x]
  BY DEF Init
<1> HIDE DEF x
<1>3. TypeOK
  BY <1>1, <1>2 DEF Init, TypeOK
<1>4. Structure
  BY <1>1, <1>2 DEF Init, Structure, DirKept, SessionKept, ReceiptKept
<1>5. Holds
  BY <1>1, <1>2 DEF Init, Holds, HoldKept
<1>6. Held = {}
  BY DEF Init, Held, Admitted, InPhase
<1>7. Cardinality(Held) <= MaxSessions
  BY <1>6, FS_EmptySet, PoolAssumption
<1> QED
  BY <1>3, <1>4, <1>5, <1>7 DEF PoolInv

\* A call of the pool's interface.
LEMMA CallStep ==
    ASSUME PoolInv, Call
    PROVE  PoolInv' /\ Contained
<1>1. ASSUME NEW d \in WorkDir, NEW id \in Identity \cup {None}, NEW s \in Session,
             ensureFirst(d, id, s)
      PROVE  PoolInv' /\ Contained
  BY <1>1, EnsureFirstStep DEF ensureFirst, Contained
<1>2. ASSUME NEW d \in WorkDir, NEW id \in Identity \cup {None}, ensureReplacement(d, id)
      PROVE  PoolInv' /\ Contained
  BY <1>2, EnsureReplacementStep DEF ensureReplacement, Contained
<1>3. ASSUME NEW D \in SUBSET WorkDir, reapIdle(D)
      PROVE  PoolInv' /\ Contained
  BY <1>3, ReapIdleStep DEF reapIdle, Contained
<1>4. ASSUME NEW s \in Session, NEW H \in SUBSET Hold, retireSession(s, H)
      PROVE  PoolInv' /\ Contained
  BY <1>4, RetireSessionStep
<1>5. ASSUME NEW i \in Identity, NEW H \in SUBSET Hold, retireManagedReceipt(i, H)
      PROVE  PoolInv' /\ Contained
  BY <1>5, RetireManagedReceiptStep
<1>6. ASSUME NEW i \in Identity, NEW H \in SUBSET Hold, retireManagedReceiptAgain(i, H)
      PROVE  PoolInv' /\ Contained
  BY <1>6, RetireManagedReceiptAgainStep
<1>7. ASSUME shutdown
      PROVE  PoolInv' /\ Contained
  BY <1>7, ShutdownStep DEF shutdown, Contained
<1> QED
  BY <1>1, <1>2, <1>3, <1>4, <1>5, <1>6, <1>7 DEF Call

\* A continuation, a timer or a settlement of the coroutine of a directory.
LEMMA DirectoryStep ==
    ASSUME PoolInv, NEW d \in WorkDir,
           Continue(d) \/ FactorySettles(d) \/ createTimedOut(d)
    PROVE  PoolInv' /\ Contained
<1>1. ASSUME NEW s \in Session, replacementRetired(d, s)
      PROVE  PoolInv' /\ Contained
  BY <1>1, ReplacementRetiredStep DEF replacementRetired, Contained
<1>2. CASE replacementFailed(d)
  BY <1>2, ReplacementFailedStep DEF replacementFailed, Contained
<1>3. CASE cleanupSettled(d) \/ closingDone(d) \/ lateSettled(d)
  BY <1>3, CoroutineEndsStep DEF cleanupSettled, closingDone, lateSettled, Contained
<1>4. CASE created(d)
  BY <1>4, CreatedStep DEF created, Contained
<1>5. CASE createdAfterShutdown(d) \/ createdLate(d)
  BY <1>5, CreatedInVainStep DEF createdAfterShutdown, createdLate, Contained
<1>6. CASE createFailed(d)
  BY <1>6, CreateFailedStep DEF createFailed, Contained
<1>7. CASE createTimedOut(d)
  BY <1>7, CreateTimedOutStep DEF createTimedOut, Contained
<1> QED
  BY <1>1, <1>2, <1>3, <1>4, <1>5, <1>6, <1>7 DEF Continue, FactorySettles

\* Every step keeps the invariant and releases no hold too early.
LEMMA PoolStep ==
    ASSUME PoolInv, [Next]_vars
    PROVE  PoolInv' /\ Contained
<1>1. CASE Call
  BY <1>1, CallStep
<1>2. ASSUME NEW d \in WorkDir, Continue(d) \/ FactorySettles(d) \/ createTimedOut(d)
      PROVE  PoolInv' /\ Contained
  BY <1>2, DirectoryStep
<1>3. ASSUME NEW s \in Session,
             DisposeSettles(s) \/ disposeTimedOut(s) \/ sessionEnds(s)
      PROVE  PoolInv' /\ Contained
  <2>1. CASE disposed(s)
    BY <2>1, DisposedStep DEF Contained
  <2>2. CASE disposeFailed(s) \/ disposeTimedOut(s) \/ sessionEnds(s)
    BY <2>2, SessionStep DEF disposeFailed, disposeTimedOut, sessionEnds, Contained
  <2> QED
    BY <1>3, <2>1, <2>2 DEF DisposeSettles
<1>4. ASSUME NEW i \in Identity, ReceiptContinues(i)
      PROVE  PoolInv' /\ Contained
  BY <1>4, ReceiptResumedStep, ReceiptAnsweredStep DEF ReceiptContinues
<1>5. CASE UNCHANGED vars
  <2>1. PoolInv'
    BY <1>5 DEF PoolInv, TypeOK, Structure, Holds, Held, Admitted, InPhase, vars
  <2> QED
    BY <1>5, <2>1 DEF Contained, vars
<1> QED
  BY <1>1, <1>2, <1>3, <1>4, <1>5 DEF Next

\* Whatever the order of calls, settlements, timeouts and shutdown, the Maps of
\* the pool, the SDK sessions, the receipts and the holds stay tied together, and
\* no more directories hold a place than maxSessions allows.
THEOREM PoolInvariance == Spec => []PoolInv
<1>1. PoolInv /\ [Next]_vars => PoolInv'
  BY PoolStep
<1> QED
  BY <1>1, PoolInit, PTL DEF Spec

-----------------------------------------------------------------------------
(* What follows for the users of the pool.                                 *)

\* Each session under way takes the place of its directory.
LEMMA AdmissionFollows ==
    ASSUME PoolInv
    PROVE  AdmissionBound
<1> DEFINE A == {s \in Session : Alive(s)}
           f == [s \in A |-> sdk[s].dir]
<1>1. \A s \in A : sdk[s].st \notin {"unused", "disposed"}
  BY DEF Alive
<1>2. f \in [A -> Held]
  <2>1. ASSUME NEW s \in A
        PROVE  sdk[s].dir \in Held
    <3>1. PICK d \in WorkDir : d = sdk[s].dir
      BY <1>1, InDirectory
    <3>2. sessions[d] # None \/ retirements[d] # None \/ creationHolds[d] # None
      BY <1>1, <3>1, InDirectory, PoolAssumption
    <3> QED
      BY <3>1, <3>2 DEF Held, Admitted
  <2> QED
    BY <2>1
<1>3. \A s, t \in A : f[s] = f[t] => s = t
  <2> SUFFICES ASSUME NEW s \in A, NEW t \in A, sdk[s].dir = sdk[t].dir
               PROVE  s = t
    OBVIOUS
  <2>1. PICK d \in WorkDir : d = sdk[s].dir
    BY <1>1, InDirectory
  <2>2. Alone(s, d)
    BY <1>1, <2>1, AliveAlone
  <2> QED
    BY <1>1, <2>1, <2>2 DEF Alone
<1>4. IsFiniteSet(Held)
  BY PoolAssumption, FS_Subset DEF Held, Admitted
<1> HIDE DEF A, f
<1>5. f \in Injection(A, Held)
  BY <1>2, <1>3 DEF Injection, IsInjective
<1>6. IsFiniteSet(A) /\ Cardinality(A) <= Cardinality(Held)
  BY <1>4, <1>5, FS_Injection
<1>7. Cardinality(A) \in Nat /\ Cardinality(Held) \in Nat
  BY <1>4, <1>6, FS_CardinalityType
<1> QED
  BY <1>6, <1>7, PoolAssumption DEF AdmissionBound, A, PoolInv

\* A hold has no place or one.
LEMMA HoldsFollow ==
    ASSUME PoolInv
    PROVE  HoldsKept
<1> SUFFICES ASSUME NEW h \in Hold
             PROVE  LET places == {s \in Session : h \in sdk[s].holds} \cup
                          {i \in Identity : /\ receiptRetirements[i] # None
                                            /\ h \in receiptRetirements[i].holds}
                    IN  Cardinality(places) = IF owner[h] = None THEN 0 ELSE 1
  BY DEF HoldsKept
<1> DEFINE places == {s \in Session : h \in sdk[s].holds} \cup
                     {i \in Identity : /\ receiptRetirements[i] # None
                                       /\ h \in receiptRetirements[i].holds}
<1>1. HoldKept(sdk, receiptRetirements, owner[h], h)
  BY DEF PoolInv, Holds
<1>2. CASE owner[h] = None
  <2>1. places = {}
    BY <1>1, <1>2, PoolAssumption DEF HoldKept
  <2> QED
    BY <1>2, <2>1, FS_EmptySet
<1>3. CASE owner[h] # None
  <2>1. PICK p \in Session \cup Identity : p \in places
    BY <1>1, <1>3 DEF HoldKept
  <2>2. ASSUME NEW p2 \in places
        PROVE  p2 = p
    BY <1>1, <2>1 DEF HoldKept
  <2>3. places = {p}
    BY <2>1, <2>2
  <2>4. Cardinality({p}) = 1
    BY FS_Singleton
  <2> QED
    BY <1>3, <2>3, <2>4
<1> QED
  BY <1>2, <1>3

\* What the invariant says in the terms of the properties.
LEMMA PoolFollows == PoolInv => PoolConsistent
<1> SUFFICES ASSUME PoolInv
             PROVE  PoolConsistent
  OBVIOUS
<1>1. OneSessionPerWorkDir
  <2> SUFFICES ASSUME NEW s \in Session, NEW t \in Session, Alive(s), Alive(t),
                      sdk[s].dir = sdk[t].dir
               PROVE  s = t
    BY DEF OneSessionPerWorkDir
  <2>1. PICK d \in WorkDir : d = sdk[s].dir
    BY InDirectory DEF Alive
  <2>2. Alone(s, d)
    BY <2>1, AliveAlone DEF Alive
  <2> QED
    BY <2>1, <2>2 DEF Alone, Alive
<1>2. EverySessionTracked
  BY SessionTyped DEF EverySessionTracked, SessionKept
<1>3. RetireNeverConflicts /\ CreationHasTransition
  <2> SUFFICES ASSUME NEW d \in WorkDir
               PROVE  /\ retirements[d] # None =>
                            /\ sessions[d] # None => sessions[d].session = None
                            /\ ~InPhase(d, "creating") /\ ~InPhase(d, "late")
                      /\ sessions[d] # None /\ sessions[d].session = None =>
                            /\ InPhase(d, "retiring") \/ InPhase(d, "creating")
                            /\ transitions[d].id = sessions[d].id
    BY DEF RetireNeverConflicts, CreationHasTransition
  <2>1. DirKept(sdk, sessions[d], retirements[d], creationHolds[d], transitions[d],
                closed, d)
    BY DirTyped
  <2> QED
    BY <2>1 DEF DirKept, InPhase
<1> QED
  BY <1>1, <1>2, <1>3, AdmissionFollows, HoldsFollow DEF PoolConsistent, PoolInv

\* A directory has one SDK session at most, every session is in the Map its state
\* calls for, #retire never meets another retirement, no creation is without its
\* coroutine, the sessions stay within maxSessions and every hold has one keeper:
\* for any number of directories, identities, sessions and holds.
THEOREM PoolStaysConsistent == Spec => []PoolConsistent
<1>1. PoolInv => PoolConsistent
  BY PoolFollows
<1> QED
  BY <1>1, PoolInvariance, PTL

\* A hold, and the activity lease behind it, is released only when the session it
\* contains is disposed of, or nothing of its identity is left in any state.
THEOREM HoldsOutliveSessions == Spec => HoldOutlivesSession
<1>1. PoolInv /\ [Next]_vars =>
         [\A h \in Hold : owner[h] # None /\ owner'[h] = None =>
             \A s \in Session : s = owner[h] \/ sdk[s].id = owner[h] => ~Alive(s)']_vars
  BY PoolStep DEF Contained, Gone
<1> QED
  BY <1>1, PoolInvariance, PTL DEF Spec, HoldOutlivesSession
=============================================================================
