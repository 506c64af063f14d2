--------------------------- MODULE ArtifactSpace ---------------------------
(***************************************************************************)
(* The artifact space of one host: the staging root, the release roots and *)
(* the records that say who needs what in them                             *)
(* (native-control/src/service-artifacts.js and the artifact part of       *)
(* service-store.js).  A session of one service holds the artifact fence.  *)
(* It stages the signed asset of its transaction in a scratch directory,   *)
(* builds a candidate tree, seals it and renames it into a release root;   *)
(* references name the release; a committed session collects releases that *)
(* nobody references, and what a transaction left in the staging root.     *)
(* Every native call is a step: it fails or the process dies before or     *)
(* after each of them, and the next session, perhaps of another service,   *)
(* finds what is left.                                                     *)
(*                                                                         *)
(* Names stand for contents: a release root entry is named by its digest.  *)
(* Journal and floor appear as far as they admit an operation; the floors  *)
(* themselves are module SequenceFloor.                                    *)
(***************************************************************************)
EXTENDS Naturals, FiniteSets

CONSTANTS
    Services,     \* service keys on the host
    Applications, \* digests of application archives
    Shawls,       \* digests of raw Shawl executables: no inventory file
    Nothing,      \* null
    MaxInstall,   \* bound: transactions begun on the host
    MaxDirs,      \* bound: candidate directories made
    MaxArtFault   \* bound: failed calls and dead processes

VARIABLES
    aRelease,   \* release roots: what stands under each digest
    aScratch,   \* staging root: the scratch of each service's transactions
    aRefs,      \* reference records
    aTx,        \* the latest transaction of each service
    aIntent,    \* manual/<service>/artifact-cleanup.json
    aManual,    \* manual-cleanup records
    aSession,   \* the session that holds the artifact fence
    aSpent      \* transactions begun, directories made and faults so far

artifactVars == <<aRelease, aScratch, aRefs, aTx, aIntent, aManual, aSession,
                  aSpent>>

Digests == Applications \cup Shawls
Binding == [rel : Digests, id : Nat]

\* A tree of payload files; an application has its inventory beside them.
Tree == [id : Nat, files : {"none", "part", "whole"}, inv : BOOLEAN]
\* A candidate's files may be half written; sealed once its root is.
Candidate == [id : Nat, files : {"none", "part", "whole"},
              inv : {"none", "part", "whole"}, sealed : BOOLEAN]
Scratch == [rel : Digests, marker : BOOLEAN, asset : {"none", "part", "whole"},
            cand : Candidate \cup {Nothing}]

PublishedPhases == {"payload-removing", "inventory-removing", "root-removing"}
ScratchPhases == {"candidate-payload-removing", "candidate-inventory-removing",
                  "candidate-root-removing", "asset-removing",
                  "marker-removing", "scratch-root-removing"}
PublishedIntent == [scope : {"published"}, art : Binding,
                    phase : PublishedPhases]
ScratchIntent == [scope : {"scratch"}, tx : 1..MaxInstall, rel : Digests,
                  asset : {"none", "part", "whole"},
                  cand : Nat \cup {Nothing}, phase : ScratchPhases]

\* acc: what the borrowed ArtifactAccess does next; col: the collector;
\* pub: the publication the access returned; uncertain: #artifactCleanupUncertain.
AccessPcs == {"none", "marker", "open", "streaming", "staged", "inventory",
              "files", "written", "renamed", "published"}
Session == [svc : Services, acc : AccessPcs,
            col : {"none", "active", "failed"},
            pub : Binding \cup {Nothing}, uncertain : BOOLEAN]
TxPhases == {"reserved", "abandoned", "published", "referenced", "committed"}
Transaction == [n : 0..MaxInstall, op : {"install", "rollback", "uninstall"},
                rel : Digests \cup {Nothing}, phase : TxPhases]
References == [current : Binding \cup {Nothing},
               previous : Binding \cup {Nothing},
               provisional : Binding \cup {Nothing}]

\* Nothing is none of the values it stands beside.
ASSUME ArtifactAssumption ==
    /\ Applications \cap Shawls = {}
    /\ Nothing \notin Digests /\ Nothing \notin Nat
    /\ Nothing \notin Binding /\ Nothing \notin Tree
    /\ Nothing \notin Candidate /\ Nothing \notin Scratch
    /\ Nothing \notin PublishedIntent /\ Nothing \notin ScratchIntent
    /\ Nothing \notin Session
    /\ MaxInstall \in Nat /\ MaxDirs \in Nat /\ MaxArtFault \in Nat

NoReferences == [current |-> Nothing, previous |-> Nothing,
                 provisional |-> Nothing]

ArtifactTypeOK ==
    /\ aRelease \in [Digests -> Tree \cup {Nothing}]
    /\ aScratch \in [Services -> [1..MaxInstall -> Scratch \cup {Nothing}]]
    /\ aRefs \in [Services -> References]
    /\ aTx \in [Services -> Transaction]
    /\ aIntent \in [Services -> PublishedIntent \cup ScratchIntent
                                  \cup {Nothing}]
    /\ aManual \in [Services -> BOOLEAN]
    /\ aSession \in Session \cup {Nothing}
    /\ aSpent \in [begun : Nat, dirs : Nat, faults : Nat]

ArtifactInit ==
    /\ aRelease = [r \in Digests |-> Nothing]
    /\ aScratch = [s \in Services |-> [n \in 1..MaxInstall |-> Nothing]]
    /\ aRefs = [s \in Services |-> NoReferences]
    /\ aTx = [s \in Services |-> [n |-> 0, op |-> "uninstall",
                                  rel |-> Nothing, phase |-> "committed"]]
    /\ aIntent = [s \in Services |-> Nothing]
    /\ aManual = [s \in Services |-> FALSE]
    /\ aSession = Nothing
    /\ aSpent = [begun |-> 0, dirs |-> 0, faults |-> 0]

-----------------------------------------------------------------------------
(* The session.                                                            *)

In(s) == aSession # Nothing /\ aSession.svc = s
ArtifactFault ==
    /\ aSpent.faults < MaxArtFault
    /\ aSpent' = [aSpent EXCEPT !.faults = @ + 1]
Disk == <<aRelease, aScratch>>
Records == <<aRefs, aTx, aIntent, aManual>>

OpenSession(s) ==
    /\ aSession = Nothing
    /\ aSession' = [svc |-> s, acc |-> "none", col |-> "none",
                    pub |-> Nothing, uncertain |-> FALSE]
    /\ UNCHANGED <<Disk, Records, aSpent>>

CloseSession(s) ==
    /\ In(s) /\ aSession.acc = "none" /\ aSession.col # "active"
    /\ aSession' = Nothing /\ UNCHANGED <<Disk, Records, aSpent>>

SessionDies(s) ==
    /\ In(s) /\ ArtifactFault /\ aSession' = Nothing /\ UNCHANGED <<Disk, Records>>

\* Nothing is borrowed, and no cleanup is under way or in doubt.
Unborrowed(s) ==
    /\ In(s) /\ aSession.acc = "none" /\ aSession.col = "none"
    /\ aIntent[s] = Nothing /\ ~ aSession.uncertain

\* Nor does the service need manual cleanup.
EnsureWritable(s) == Unborrowed(s) /\ ~ aManual[s]

\* clearManualCleanup, the one write that a manual-cleanup record admits.
ClearManualCleanup(s) ==
    /\ Unborrowed(s) /\ aManual[s]
    /\ aManual' = [aManual EXCEPT ![s] = FALSE]
    /\ UNCHANGED <<Disk, aRefs, aTx, aIntent, aSession, aSpent>>

\* The scope discriminates the union of intents.
Collecting(s, scope) == aIntent[s] # Nothing /\ aIntent[s].scope = scope

\* Mutant: only the intents of the service itself are read.
CleanupTargetOwn(r) ==
    \E s \in Services : /\ In(s) /\ Collecting(s, "published")
                        /\ aIntent[s].art.rel = r

\* Some service's intent to remove the release of this digest.
CleanupTarget(r) ==
    \E s \in Services : /\ Collecting(s, "published")
                        /\ aIntent[s].art.rel = r

-----------------------------------------------------------------------------
(* The transaction that wants an artifact.                                 *)

BeginTransaction(s, op, r) ==
    /\ EnsureWritable(s) /\ aTx[s].phase = "committed"
    /\ aTx[s].n < MaxInstall /\ aSpent.begun < MaxInstall
    /\ aSpent' = [aSpent EXCEPT !.begun = @ + 1]
    /\ \/ op = "install" /\ r \in Digests
       \/ op = "rollback" /\ aRefs[s].previous # Nothing
            /\ r = aRefs[s].previous.rel
       \/ op = "uninstall" /\ aRefs[s].current # Nothing /\ r = Nothing
    /\ aTx' = [aTx EXCEPT ![s] =
          [n |-> @.n + 1, op |-> op, rel |-> r,
           phase |-> IF op = "install" THEN "reserved" ELSE "published"]]
    /\ aSession' = [aSession EXCEPT !.pub = Nothing]
    /\ UNCHANGED <<Disk, aRefs, aIntent, aManual>>

\* The floor commits the release this session published and observed.
CommitRelease(s) ==
    /\ EnsureWritable(s) /\ aTx[s].phase = "reserved"
    /\ aSession.pub # Nothing
    /\ aTx' = [aTx EXCEPT ![s].phase = "published"]
    /\ UNCHANGED <<Disk, aRefs, aIntent, aManual, aSession, aSpent>>

\* A recovery session abandons the reservation in the floor's history.
AbandonRelease(s) ==
    /\ EnsureWritable(s) /\ aTx[s].phase = "reserved"
    /\ aTx' = [aTx EXCEPT ![s].phase = "abandoned"]
    /\ UNCHANGED <<Disk, aRefs, aIntent, aManual, aSession, aSpent>>

Slots(v) == {v.current, v.previous, v.provisional} \ {Nothing}

\* publishReferences: no slot names a release some service is removing, and
\* each is retained or is the publication this session observed.
PublishReferences(s, v) ==
    /\ EnsureWritable(s)
    /\ \A a \in Slots(v) : ~ CleanupTarget(a.rel)
    /\ \A a \in Slots(v) : a \in Slots(aRefs[s]) \cup {aSession.pub}
    /\ aRefs' = [aRefs EXCEPT ![s] = v]

\* The generation stays: only the provisional slot changes.
PublishProvisional(s) ==
    /\ aTx[s].phase = "published" /\ aTx[s].op = "install"
    /\ aRefs[s].provisional = Nothing /\ In(s) /\ aSession.pub # Nothing
    /\ PublishReferences(s, [aRefs[s] EXCEPT !.provisional = aSession.pub])
    /\ UNCHANGED <<Disk, aTx, aIntent, aManual, aSession, aSpent>>

\* The next generation: the provisional or the previous slot is promoted and
\* the old current one kept, or all are released.
RotateReferences(s) ==
    LET old == aRefs[s]
        next == CASE aTx[s].op = "install" -> old.provisional
                  [] aTx[s].op = "rollback" -> old.previous
                  [] aTx[s].op = "uninstall" -> Nothing
    IN
    /\ aTx[s].phase = "published"
    /\ aTx[s].op = "install" => next # Nothing
    /\ PublishReferences(s, [current |-> next, provisional |-> Nothing,
           previous |-> IF next = Nothing THEN Nothing ELSE old.current])
    /\ aTx' = [aTx EXCEPT ![s].phase = "referenced"]
    /\ UNCHANGED <<Disk, aIntent, aManual, aSession, aSpent>>

CommitTransaction(s) ==
    /\ EnsureWritable(s) /\ aTx[s].phase = "referenced"
    /\ aTx' = [aTx EXCEPT ![s].phase = "committed"]
    /\ UNCHANGED <<Disk, aRefs, aIntent, aManual, aSession, aSpent>>

LifecycleStep(s) ==
    \/ \E op \in {"install", "rollback", "uninstall"},
          r \in Digests \cup {Nothing} : BeginTransaction(s, op, r)
    \/ CommitRelease(s) \/ AbandonRelease(s) \/ ClearManualCleanup(s)
    \/ PublishProvisional(s) \/ RotateReferences(s) \/ CommitTransaction(s)

-----------------------------------------------------------------------------
(* ArtifactAccess: scratch, asset, candidate, release.                     *)

Mine(s) == aScratch[s][aTx[s].n]
SetMine(s, x) == aScratch' = [aScratch EXCEPT ![s][aTx[s].n] = x]
SetCandidate(s, c) == SetMine(s, [Mine(s) EXCEPT !.cand = c])
At(s, pc) == In(s) /\ aSession.acc = pc
Go(pc) == aSession' = [aSession EXCEPT !.acc = pc]
AccessKeeps == UNCHANGED <<aRefs, aTx, aIntent>>

\* The access ends in an error; the lifecycle that borrowed it persists a
\* manual-cleanup record when the error calls for one.
LeaveAccess(s) ==
    /\ Go("none") /\ aManual' \in {aManual, [aManual EXCEPT ![s] = TRUE]}

\* markManual: the access is poisoned.
PoisonAccess(s) == LeaveAccess(s) /\ UNCHANGED <<Disk, aSpent>>

\* openArtifactAccess: a reserved transaction, and no service removes the
\* release of this digest.  The scratch is made, or found with its marker.
OpenArtifactAccess(s) ==
    /\ EnsureWritable(s) /\ aTx[s].phase = "reserved"
    /\ ~ CleanupTarget(aTx[s].rel)
    /\ AccessKeeps
    /\ \/ /\ Mine(s) = Nothing
          /\ SetMine(s, [rel |-> aTx[s].rel, marker |-> FALSE,
                         asset |-> "none", cand |-> Nothing])
          /\ Go("marker") /\ UNCHANGED <<aRelease, aManual, aSpent>>
       \/ /\ Mine(s) # Nothing /\ Mine(s).marker
          /\ Go("open") /\ UNCHANGED <<Disk, aManual, aSpent>>
       \/ Mine(s) # Nothing /\ ~ Mine(s).marker /\ PoisonAccess(s)

PublishMarker(s) ==
    /\ At(s, "marker") /\ SetMine(s, [Mine(s) EXCEPT !.marker = TRUE])
    /\ Go("open") /\ AccessKeeps /\ UNCHANGED <<aRelease, aManual, aSpent>>

\* exactFile: the bytes there are the expected ones.
ExactAsset(s) == Mine(s).asset = "whole"

\* The asset is streamed unless the exact one is there; a part of one that
\* another access left is not continued.
StageAsset(s) ==
    /\ At(s, "open") /\ AccessKeeps
    /\ CASE ExactAsset(s) ->
              Go("staged") /\ UNCHANGED <<Disk, aManual, aSpent>>
         [] Mine(s).asset = "none" ->
              /\ SetMine(s, [Mine(s) EXCEPT !.asset = "part"])
              /\ Go("streaming") /\ UNCHANGED <<aRelease, aManual, aSpent>>
         [] OTHER -> PoisonAccess(s)

FinishAsset(s) ==
    /\ At(s, "streaming") /\ SetMine(s, [Mine(s) EXCEPT !.asset = "whole"])
    /\ Go("staged") /\ AccessKeeps /\ UNCHANGED <<aRelease, aManual, aSpent>>

\* The steps that follow when the access made or found a candidate.
AfterCandidate(r) == IF r \in Applications THEN "inventory" ELSE "files"

\* An absent candidate is made, a sealed one verified and used as it is, and
\* one that is not sealed is nobody's to finish.
PrepareTree(s) ==
    LET c == Mine(s).cand IN
    /\ At(s, "staged") /\ AccessKeeps
    /\ CASE c = Nothing ->
              /\ aSpent.dirs < MaxDirs
              /\ SetCandidate(s, [id |-> aSpent.dirs + 1, files |-> "none",
                                  inv |-> "none", sealed |-> FALSE])
              /\ aSpent' = [aSpent EXCEPT !.dirs = @ + 1]
              /\ Go(AfterCandidate(aTx[s].rel))
              /\ UNCHANGED <<aRelease, aManual>>
         [] c # Nothing /\ c.sealed ->
              Go("written") /\ UNCHANGED <<Disk, aManual, aSpent>>
         [] OTHER -> PoisonAccess(s)

Grown(x) == IF x = "none" THEN "part" ELSE "whole"

WriteInventory(s) ==
    LET c == Mine(s).cand IN
    /\ At(s, "inventory") /\ AccessKeeps
    /\ SetCandidate(s, [c EXCEPT !.inv = Grown(@)])
    /\ Go(IF c.inv = "none" THEN "inventory" ELSE "files")
    /\ UNCHANGED <<aRelease, aManual, aSpent>>

WriteCandidateFile(s) ==
    LET c == Mine(s).cand IN
    /\ At(s, "files") /\ AccessKeeps
    /\ SetCandidate(s, [c EXCEPT !.files = Grown(@)])
    /\ Go(IF c.files = "none" THEN "files" ELSE "written")
    /\ UNCHANGED <<aRelease, aManual, aSpent>>

\* Every expected path is there, and an application's inventory.
WholeTree(r, t) == t.files = "whole" /\ t.inv = (r \in Applications)
WholeCandidate(r, c) == c.files = "whole"
                          /\ c.inv = (IF r \in Applications THEN "whole" ELSE "none")

\* A release that stands under the digest is verified and reused.
ReuseRelease(s) ==
    LET r == aTx[s].rel IN
    /\ At(s, "written") /\ aRelease[r] # Nothing /\ WholeTree(r, aRelease[r])
    /\ Go("renamed") /\ AccessKeeps /\ UNCHANGED <<Disk, aManual, aSpent>>

\* verifyTree, then sealTree.
SealTree(s) ==
    LET c == Mine(s).cand IN
    /\ At(s, "written") /\ aRelease[aTx[s].rel] = Nothing /\ ~ c.sealed
    /\ WholeCandidate(aTx[s].rel, c)
    /\ SetCandidate(s, [c EXCEPT !.sealed = TRUE])
    /\ AccessKeeps /\ UNCHANGED <<aRelease, aManual, aSession, aSpent>>

\* The sealed candidate, verified again, is renamed and keeps its identity.
PublishDirectory(s) ==
    LET r == aTx[s].rel
        c == Mine(s).cand
    IN
    /\ At(s, "written") /\ aRelease[r] = Nothing /\ c.sealed
    /\ WholeCandidate(r, c)
    /\ aRelease' = [aRelease EXCEPT ![r] =
          [id |-> c.id, files |-> c.files, inv |-> c.inv = "whole"]]
    /\ SetCandidate(s, Nothing) /\ Go("renamed") /\ AccessKeeps
    /\ UNCHANGED <<aManual, aSpent>>

BindingOf(r) == [rel |-> r, id |-> aRelease[r].id]

\* What the release root shows is the publication of this session.
ObserveTarget(s) ==
    LET b == BindingOf(aTx[s].rel) IN
    /\ At(s, "renamed") /\ aRelease[aTx[s].rel] # Nothing
    /\ aSession' = [aSession EXCEPT !.acc = "published", !.pub = b]
    /\ UNCHANGED <<Disk, Records, aSpent>>

\* The acquisition closes the access once it has the publication.
CloseAccess(s) ==
    /\ At(s, "published") /\ Go("none") /\ UNCHANGED <<Disk, Records, aSpent>>

\* A native call fails: the access is closed.
AccessFails(s) ==
    /\ In(s) /\ aSession.acc # "none" /\ ArtifactFault /\ LeaveAccess(s)
    /\ UNCHANGED <<Disk, aRefs, aTx, aIntent>>

AccessStep(s) ==
    \/ OpenArtifactAccess(s) \/ PublishMarker(s)
    \/ StageAsset(s) \/ FinishAsset(s)
    \/ PrepareTree(s) \/ WriteInventory(s) \/ WriteCandidateFile(s)
    \/ ReuseRelease(s) \/ SealTree(s) \/ PublishDirectory(s)
    \/ ObserveTarget(s) \/ CloseAccess(s) \/ AccessFails(s)

-----------------------------------------------------------------------------
(* Collecting a published release.                                         *)

\* #readCompleteReferenceInventory: every service is committed and needs no
\* manual cleanup.
CompleteInventory ==
    \A t \in Services : ~ aManual[t] /\ aTx[t].phase = "committed"

\* #observeZeroReferences: none but the caller removes this target, and no
\* slot names it, by this identity or by another.
ZeroReferences(s, b) ==
    /\ CompleteInventory
    /\ \A t \in Services :
        /\ t # s => ~ (Collecting(t, "published") /\ aIntent[t].art.rel = b.rel)
        /\ \A a \in Slots(aRefs[t]) : a.rel # b.rel

SetIntent(s, c) == aIntent' = [aIntent EXCEPT ![s] = c]
Collector(state) == aSession' = [aSession EXCEPT !.col = state,
                                                 !.uncertain = TRUE]
CollectorKeeps == UNCHANGED <<aRefs, aTx, aManual>>

\* collectPublishedArtifact up to its intent: a release that this session
\* observes, which nobody removes, unreferenced, and inspected to be the whole
\* tree.  Publishing the intent may fail after it was written.
CollectPublished(s, r) ==
    LET b == BindingOf(r) IN
    /\ EnsureWritable(s) /\ aTx[s].phase = "committed" /\ aTx[s].n > 0
    /\ aRelease[r] # Nothing /\ ~ CleanupTarget(r)
    /\ ZeroReferences(s, b) /\ WholeTree(r, aRelease[r])
    /\ SetIntent(s, [scope |-> "published", art |-> b,
                     phase |-> "payload-removing"])
    /\ \/ Collector("active") /\ UNCHANGED aSpent
       \/ Collector("failed") /\ ArtifactFault
    /\ CollectorKeeps /\ UNCHANGED Disk

\* recoverPublishedArtifactCollection: the retained intent is the authority,
\* and the references are observed again.
RecoverPublished(s) ==
    /\ In(s) /\ aSession.acc = "none" /\ aSession.col # "active"
    /\ ~ aManual[s] /\ Collecting(s, "published")
    /\ aTx[s].phase = "committed" /\ ZeroReferences(s, aIntent[s].art)
    /\ aSession' = [aSession EXCEPT !.col = "active"]
    /\ CollectorKeeps /\ UNCHANGED <<Disk, aIntent, aSpent>>

Active(s, scope) == In(s) /\ aSession.col = "active" /\ Collecting(s, scope)
InPhase(s, phase) == aIntent[s].phase = phase
Target(s) == aRelease[aIntent[s].art.rel]
SetTarget(s, t) == aRelease' = [aRelease EXCEPT ![aIntent[s].art.rel] = t]
Shrunk(x) == IF x = "whole" THEN "part" ELSE "none"

\* openTarget: the directory is the one the intent names.
TargetBound(s) == Target(s) # Nothing /\ Target(s).id = aIntent[s].art.id

RemovePayload(s) ==
    /\ Active(s, "published") /\ TargetBound(s)
    /\ InPhase(s, "payload-removing") /\ Target(s).files # "none"
    /\ SetTarget(s, [Target(s) EXCEPT !.files = Shrunk(@)])
    /\ CollectorKeeps /\ UNCHANGED <<aScratch, aIntent, aSession, aSpent>>

RemoveInventory(s) ==
    /\ Active(s, "published") /\ TargetBound(s)
    /\ InPhase(s, "inventory-removing") /\ Target(s).files = "none"
    /\ Target(s).inv
    /\ SetTarget(s, [Target(s) EXCEPT !.inv = FALSE])
    /\ CollectorKeeps /\ UNCHANGED <<aScratch, aIntent, aSession, aSpent>>

\* The next phase is published, each before what it permits; what is left is
\* checked first.
AdvancePublished(s) ==
    /\ Active(s, "published") /\ TargetBound(s) /\ Target(s).files = "none"
    /\ \/ /\ InPhase(s, "payload-removing")
          /\ Target(s).inv = (aIntent[s].art.rel \in Applications)
          /\ SetIntent(s, [aIntent[s] EXCEPT !.phase = "inventory-removing"])
       \/ /\ InPhase(s, "inventory-removing") /\ ~ Target(s).inv
          /\ SetIntent(s, [aIntent[s] EXCEPT !.phase = "root-removing"])
    /\ CollectorKeeps /\ UNCHANGED <<Disk, aSession, aSpent>>

RemoveTarget(s) ==
    /\ Active(s, "published") /\ InPhase(s, "root-removing") /\ TargetBound(s)
    /\ Target(s).files = "none" /\ ~ Target(s).inv
    /\ SetTarget(s, Nothing)
    /\ CollectorKeeps /\ UNCHANGED <<aScratch, aIntent, aSession, aSpent>>

\* The target is absent: the record goes, and with it the doubt.
RemoveIntent(s) ==
    /\ SetIntent(s, Nothing)
    /\ \/ /\ aSession' = [aSession EXCEPT !.col = "none", !.uncertain = FALSE]
          /\ UNCHANGED aSpent
       \/ Collector("failed") /\ ArtifactFault
    /\ CollectorKeeps /\ UNCHANGED Disk

FinishPublished(s) ==
    /\ Active(s, "published") /\ InPhase(s, "root-removing")
    /\ Target(s) = Nothing /\ RemoveIntent(s)

-----------------------------------------------------------------------------
(* Collecting what a transaction left in the staging root.                 *)

Left(s) == aScratch[s][aIntent[s].tx]
SetLeft(s, x) == aScratch' = [aScratch EXCEPT ![s][aIntent[s].tx] = x]

\* The latest transaction is committed or abandoned; earlier ones committed.
ScratchSettled(s, n) ==
    n < aTx[s].n \/ (n = aTx[s].n /\ aTx[s].phase \in {"committed", "abandoned"})

\* collectScratchArtifacts up to its intent, which captures what is there.  A
\* scratch without its marker is manual cleanup: nothing is written.
CollectScratch(s, n) ==
    LET x == aScratch[s][n] IN
    /\ EnsureWritable(s) /\ ScratchSettled(s, n)
    /\ x # Nothing /\ x.marker
    /\ SetIntent(s, [scope |-> "scratch", tx |-> n, rel |-> x.rel,
           asset |-> x.asset,
           cand |-> IF x.cand = Nothing THEN Nothing ELSE x.cand.id,
           phase |-> IF x.cand = Nothing THEN "asset-removing"
                     ELSE "candidate-payload-removing"])
    /\ \/ Collector("active") /\ UNCHANGED aSpent
       \/ Collector("failed") /\ ArtifactFault
    /\ CollectorKeeps /\ UNCHANGED Disk

RecoverScratch(s) ==
    /\ In(s) /\ aSession.acc = "none" /\ aSession.col # "active"
    /\ ~ aManual[s] /\ Collecting(s, "scratch")
    /\ aSession' = [aSession EXCEPT !.col = "active"]
    /\ CollectorKeeps /\ UNCHANGED <<Disk, aIntent, aSpent>>

Order(phase) == CASE phase = "candidate-payload-removing" -> 1
                  [] phase = "candidate-inventory-removing" -> 2
                  [] phase = "candidate-root-removing" -> 3
                  [] phase = "asset-removing" -> 4
                  [] phase = "marker-removing" -> 5
                  [] phase = "scratch-root-removing" -> 6

\* validateTopLevel: what the intent captured is still there until its phase,
\* nothing after it, and nothing that was not captured.
ValidTopLevel(x, c) ==
    /\ x.marker => Order(c.phase) <= 5
    /\ ~ x.marker => Order(c.phase) >= 5
    /\ x.asset # "none" => Order(c.phase) <= 4 /\ c.asset = x.asset
    /\ x.asset = "none" => c.asset = "none" \/ Order(c.phase) >= 4
    /\ x.cand # Nothing => Order(c.phase) <= 3 /\ c.cand = x.cand.id
    /\ x.cand = Nothing => c.cand = Nothing \/ Order(c.phase) >= 3

\* removeCandidatePayload, the rest: an application keeps its inventory until
\* then, a Shawl candidate is empty.
PayloadGone(c, r) == c.files = "none" /\ (r \in Applications <=> c.inv # "none")

\* An application's candidate is removed under the closure that the complete
\* asset authenticates.
Authenticated(x) == x.rel \in Applications => x.asset = "whole"

\* One native removal of the phase that is recorded.
RemoveScratchPart(s) ==
    LET x == Left(s)
        c == aIntent[s]
    IN
    /\ Active(s, "scratch") /\ x # Nothing /\ ValidTopLevel(x, c)
    /\ \/ /\ InPhase(s, "candidate-payload-removing") /\ Authenticated(x)
          /\ x.cand.files # "none"
          /\ SetLeft(s, [x EXCEPT !.cand.files = Shrunk(@)])
       \/ /\ InPhase(s, "candidate-inventory-removing")
          /\ x.cand.files = "none" /\ x.cand.inv # "none"
          /\ SetLeft(s, [x EXCEPT !.cand.inv = "none"])
       \/ /\ InPhase(s, "candidate-root-removing") /\ x.cand # Nothing
          /\ x.cand.files = "none" /\ x.cand.inv = "none"
          /\ SetLeft(s, [x EXCEPT !.cand = Nothing])
       \/ /\ InPhase(s, "asset-removing") /\ x.asset # "none"
          /\ SetLeft(s, [x EXCEPT !.asset = "none"])
       \/ /\ InPhase(s, "marker-removing") /\ x.marker
          /\ SetLeft(s, [x EXCEPT !.marker = FALSE])
       \/ /\ InPhase(s, "scratch-root-removing")
          /\ SetLeft(s, Nothing)
    /\ CollectorKeeps /\ UNCHANGED <<aRelease, aIntent, aSession, aSpent>>

\* Mutant: the marker's phase is recorded while the asset is still there.
PhaseDoneLoosely(x, phase) ==
    CASE phase = "candidate-payload-removing" -> PayloadGone(x.cand, x.rel)
      [] phase = "candidate-inventory-removing" -> x.cand.inv = "none"
      [] phase = "candidate-root-removing" -> x.cand = Nothing
      [] phase = "asset-removing" -> TRUE
      [] phase = "marker-removing" -> ~ x.marker
      [] OTHER -> FALSE

\* What a phase removes is gone.
PhaseDone(x, phase) ==
    CASE phase = "candidate-payload-removing" -> PayloadGone(x.cand, x.rel)
      [] phase = "candidate-inventory-removing" -> x.cand.inv = "none"
      [] phase = "candidate-root-removing" -> x.cand = Nothing
      [] phase = "asset-removing" -> x.asset = "none"
      [] phase = "marker-removing" -> ~ x.marker
      [] OTHER -> FALSE

\* A Shawl candidate has no inventory phase.
NextPhase(r, phase) ==
    CASE phase = "candidate-payload-removing" ->
           IF r \in Applications THEN "candidate-inventory-removing"
                                 ELSE "candidate-root-removing"
      [] phase = "candidate-inventory-removing" -> "candidate-root-removing"
      [] phase = "candidate-root-removing" -> "asset-removing"
      [] phase = "asset-removing" -> "marker-removing"
      [] phase = "marker-removing" -> "scratch-root-removing"

AdvanceScratch(s) ==
    LET x == Left(s)
        c == aIntent[s]
    IN
    /\ Active(s, "scratch") /\ x # Nothing /\ ValidTopLevel(x, c)
    /\ c.phase # "scratch-root-removing" /\ PhaseDone(x, c.phase)
    /\ SetIntent(s, [c EXCEPT !.phase = NextPhase(c.rel, c.phase)])
    /\ CollectorKeeps /\ UNCHANGED <<Disk, aSession, aSpent>>

FinishScratch(s) ==
    /\ Active(s, "scratch") /\ InPhase(s, "scratch-root-removing")
    /\ Left(s) = Nothing /\ RemoveIntent(s)

\* The candidate of an application without any file: the payload phase ends
\* in manual cleanup, because the inventory is not what remains.
EmptyApplicationCandidate(s) ==
    /\ Collecting(s, "scratch") /\ InPhase(s, "candidate-payload-removing")
    /\ Left(s) # Nothing /\ Left(s).cand # Nothing
    /\ Left(s).rel \in Applications
    /\ Left(s).cand.inv = "none" /\ Left(s).cand.files = "none"

\* A native call fails, or a check of the collector refuses.
CollectorFails(s) ==
    /\ In(s) /\ aSession.col = "active"
    /\ ArtifactFault \/ (EmptyApplicationCandidate(s) /\ UNCHANGED aSpent)
    /\ Collector("failed") /\ UNCHANGED <<Disk, Records>>

CollectorStep(s) ==
    \/ \E r \in Digests : CollectPublished(s, r)
    \/ RecoverPublished(s) \/ RemovePayload(s) \/ RemoveInventory(s)
    \/ AdvancePublished(s) \/ RemoveTarget(s) \/ FinishPublished(s)
    \/ \E n \in 1..MaxInstall : CollectScratch(s, n)
    \/ RecoverScratch(s) \/ RemoveScratchPart(s) \/ AdvanceScratch(s)
    \/ FinishScratch(s) \/ CollectorFails(s)

-----------------------------------------------------------------------------
ArtifactNext ==
    \E s \in Services :
        \/ OpenSession(s)
        \/ /\ In(s)
           /\ \/ CloseSession(s) \/ SessionDies(s) \/ LifecycleStep(s)
              \/ AccessStep(s) \/ CollectorStep(s)

ArtifactSpec == ArtifactInit /\ [][ArtifactNext]_artifactVars

-----------------------------------------------------------------------------
(* Properties.                                                             *)

\* A release that a slot of any service names stands under its digest with
\* the identity the slot records, whole, and nobody is removing it: also when
\* its collection by another service was interrupted, and when the slot is
\* written by a session that found the release instead of publishing it.
ReferencedWhole ==
    \A s \in Services : \A a \in Slots(aRefs[s]) :
        /\ aRelease[a.rel] # Nothing /\ aRelease[a.rel].id = a.id
        /\ WholeTree(a.rel, aRelease[a.rel]) /\ ~ CleanupTarget(a.rel)

\* A release that is not whole is covered by exactly one intent to remove it.
DamageIsIntended ==
    /\ \A r \in Digests : aRelease[r] # Nothing =>
          WholeTree(r, aRelease[r]) \/ CleanupTarget(r)
    /\ \A s, t \in Services :
          /\ Collecting(s, "published") /\ Collecting(t, "published")
          /\ aIntent[s].art.rel = aIntent[t].art.rel
          => s = t

\* The release space keeps what is referenced (publishReferences against
\* collectPublishedArtifact of every service).
ArtifactsKept == ArtifactTypeOK /\ ReferencedWhole /\ DamageIsIntended

\* What a published intent finds when its collection is taken up again.
PublishedResumable(s) ==
    /\ aTx[s].phase = "committed"
    /\ Target(s) = Nothing => InPhase(s, "root-removing")
    /\ Target(s) # Nothing =>
          /\ Target(s).id = aIntent[s].art.id
          /\ ~ InPhase(s, "payload-removing") => Target(s).files = "none"
          /\ InPhase(s, "payload-removing") =>
                Target(s).inv = (aIntent[s].art.rel \in Applications)
          /\ InPhase(s, "root-removing") => ~ Target(s).inv

\* What a scratch intent finds.
ScratchResumable(s) ==
    LET x == Left(s) IN
    /\ ScratchSettled(s, aIntent[s].tx)
    /\ x = Nothing => InPhase(s, "scratch-root-removing")
    /\ x # Nothing =>
          /\ x.rel = aIntent[s].rel /\ ValidTopLevel(x, aIntent[s])
          /\ x.cand # Nothing =>
                /\ Authenticated(x)
                /\ ~ InPhase(s, "candidate-payload-removing") =>
                      x.cand.files = "none"
                /\ InPhase(s, "candidate-root-removing") => x.cand.inv = "none"
                /\ InPhase(s, "candidate-payload-removing") =>
                      \/ x.rel \in Applications <=> x.cand.inv # "none"
                      \/ EmptyApplicationCandidate(s)

\* A collection that died or failed anywhere can be taken up where its intent
\* says: every check of the collector passes on what is left.  One case is
\* manual cleanup, the empty candidate of an application.
CollectionRecoverable ==
    \A s \in Services :
        /\ Collecting(s, "published") => PublishedResumable(s)
        /\ Collecting(s, "scratch") => ScratchResumable(s)
=============================================================================
