---------------------------- MODULE LeaseRegistry ----------------------------
(***************************************************************************)
(* The process-wide workspace lease registry of the daemon                 *)
(* (daemon/src/workspace-lease-registry.js, class WorkspaceLeaseRegistry). *)
(*                                                                         *)
(* `authorities` is the Map from workspaceId to the authority adopted for  *)
(* it; `activities` the Map from workspaceId to the activity entry whose   *)
(* holders work in that workspace.  Entries are mutable JavaScript objects *)
(* shared by the Map and by the closures of every lease, so they live in a *)
(* heap, `entries`, and both sides refer to them by identity.  A lease     *)
(* object is a slot of `leases`; the slot is used again once its lease is  *)
(* released.  The fence number of an entry only labels events and receipts *)
(* and is left out.                                                        *)
(***************************************************************************)
EXTENDS Integers, FiniteSets

CONSTANTS
    Workspace,            \* workspaceIds
    Candidate,            \* the binding authorities callers may present
    Entry,                \* heap cells for activity entries
    Lease,                \* lease objects the callers may hold
    MaxWorkspaces,        \* options.maxWorkspaces
    MaxActiveWorkspaces,  \* options.maxActiveWorkspaces
    None                  \* JavaScript's undefined, where no number is meant

Undefined == -1           \* JavaScript's undefined, for a generation field

GENERATION_FIELDS ==
    {"authorityEpoch", "fenceGeneration", "mappingGeneration",
     "workspaceGeneration", "inventoryGeneration"}

V2_GENERATION_FIELDS ==
    {"mappingGeneration", "workspaceGeneration", "inventoryGeneration"}

GenField == GENERATION_FIELDS \cup {"socketGeneration"}

(***************************************************************************)
(* A candidate has its numeric fields in gen; hostId, mappingId,           *)
(* mappingVersion, sourcePlatform and authorityFingerprint together in     *)
(* ident; routeFingerprint in route; inventoryFingerprint in inventory;    *)
(* bindingId and bindingFingerprint together in binding.                   *)
(***************************************************************************)
ASSUME CandidateAssumption ==
    \A c \in Candidate :
        /\ DOMAIN c = {"workspace", "gen", "ident", "route", "inventory", "binding"}
        /\ c.workspace \in Workspace
        /\ c.gen \in [GenField -> Nat \cup {Undefined}]

ASSUME BoundAssumption ==
    /\ MaxWorkspaces \in Nat \ {0}
    /\ MaxActiveWorkspaces \in Nat \ {0}
    /\ IsFiniteSet(Lease)
    /\ IsFiniteSet(Workspace)

-----------------------------------------------------------------------------
(* Authorities *)

IsV3(c) == c.gen["authorityEpoch"] # Undefined

HasReceiptIdentity(c) == IsV3(c) \/ c.gen["socketGeneration"] # Undefined

\* requireAuthority throws a TypeError, before any state change, otherwise.
ValidCandidate(c) ==
    /\ \A f \in IF IsV3(c) THEN GENERATION_FIELDS ELSE V2_GENERATION_FIELDS :
          c.gen[f] # Undefined
    /\ c.ident # None
    /\ IF IsV3(c) THEN c.inventory # None ELSE c.route # None
    /\ HasReceiptIdentity(c) => c.gen["socketGeneration"] >= 1 /\ c.binding # None

\* The projection requireAuthority returns: fields that do not belong to the
\* candidate's kind of authority are dropped.
requireAuthority(c) ==
    [workspace |-> c.workspace,
     gen       |-> [f \in GenField |->
                       IF ~IsV3(c) /\ f = "fenceGeneration" THEN Undefined
                                                            ELSE c.gen[f]],
     ident     |-> c.ident,
     route     |-> IF IsV3(c) THEN None ELSE c.route,
     inventory |-> IF IsV3(c) THEN c.inventory ELSE None,
     binding   |-> IF HasReceiptIdentity(c) THEN c.binding ELSE None]

Authority == {requireAuthority(c) : c \in Candidate}

sameAuthority(left, right) == left = right

\* A JavaScript comparison with undefined is false.
Less(x, y) == x # Undefined /\ y # Undefined /\ x < y

OrZero(x) == IF x = Undefined THEN 0 ELSE x      \* x ?? 0

\* Mutant: only the fencing fields are compared.
MutantRegresses(previous, candidate) ==
    \E f \in {"authorityEpoch", "fenceGeneration"} :
        Less(candidate.gen[f], previous.gen[f])

regresses(previous, candidate) ==
    \E f \in GenField : Less(candidate.gen[f], previous.gen[f])

mappingAdvanced(previous, candidate) ==
    \/ candidate.gen["mappingGeneration"] > previous.gen["mappingGeneration"]
    \/ candidate.gen["workspaceGeneration"] > previous.gen["workspaceGeneration"]

advances(previous, candidate) ==
    \/ mappingAdvanced(previous, candidate)
    \/ candidate.gen["inventoryGeneration"] > previous.gen["inventoryGeneration"]
    \/ \E f \in {"authorityEpoch", "fenceGeneration", "socketGeneration"} :
          OrZero(candidate.gen[f]) > OrZero(previous.gen[f])

authorityChanged(previous, candidate) ==
    \/ previous.ident # candidate.ident
    \/ ~IsV3(previous) /\ previous.route # candidate.route

\* The identity fields an activity entry records.
EntryIdentity(c) ==
    [receipt |-> c.gen["socketGeneration"] # Undefined,
     socketGeneration |-> c.gen["socketGeneration"],
     binding |-> c.binding]

Identity == {EntryIdentity(c) : c \in Candidate}

EntryRec == [identity : Identity, holders : Nat,
             exclusive : BOOLEAN, invalidated : BOOLEAN]

LeaseRec == [authority : Authority, entry : Entry,
             exclusive : BOOLEAN, released : BOOLEAN]

GrantRec == [authority : Authority, exclusive : BOOLEAN, stale : BOOLEAN]

ASSUME NoneAssumption ==
    /\ None \notin Authority
    /\ None \notin Entry
    /\ None \notin EntryRec
    /\ None \notin LeaseRec
    /\ None \notin GrantRec

-----------------------------------------------------------------------------
(* State *)

VARIABLES
    authorities,   \* this.authorities
    activities,    \* this.activities
    entries,       \* the activity entry objects
    leases         \* the lease objects returned by acquireActivity

vars == <<authorities, activities, entries, leases>>

TypeOK ==
    /\ authorities \in [Workspace -> Authority \cup {None}]
    /\ activities \in [Workspace -> Entry \cup {None}]
    /\ entries \in [Entry -> EntryRec \cup {None}]
    /\ leases \in [Lease -> LeaseRec \cup {None}]

Init ==
    /\ authorities = [w \in Workspace |-> None]
    /\ activities = [w \in Workspace |-> None]
    /\ entries = [e \in Entry |-> None]
    /\ leases = [l \in Lease |-> None]

Held(l) == leases[l] # None /\ ~leases[l].released

Adopted == {w \in Workspace : authorities[w] # None}

Active == {w \in Workspace : activities[w] # None}

\* Marking the entries of the workspaces in W invalidated, and dropping the
\* ones without a holder from the Map.
Invalidate(W) ==
    /\ entries' = [e \in Entry |->
          IF \E w \in W : activities[w] = e
          THEN [entries[e] EXCEPT !.invalidated = TRUE] ELSE entries[e]]
    /\ activities' = [w \in Workspace |->
          IF w \in W /\ activities[w] # None /\ entries[activities[w]].holders = 0
          THEN None ELSE activities[w]]

-----------------------------------------------------------------------------
(* Operations.  A call that is refused changes nothing. *)

adoptFirst(a) ==
    /\ authorities[a.workspace] = None
    /\ Cardinality(Adopted) < MaxWorkspaces
    /\ UNCHANGED <<activities, entries>>

adoptSuccessor(a) ==
    LET previous == authorities[a.workspace] IN
    /\ previous # None
    /\ ~sameAuthority(previous, a)
    /\ ~regresses(previous, a)
    /\ advances(previous, a)
    /\ authorityChanged(previous, a) => mappingAdvanced(previous, a)
    /\ Invalidate({a.workspace})

\* Mutant: the candidate itself is stored, not its projection.
MutantAdoptBinding(c) ==
    /\ ValidCandidate(c)
    /\ adoptFirst(requireAuthority(c)) \/ adoptSuccessor(requireAuthority(c))
    /\ authorities' = [authorities EXCEPT ![c.workspace] = c]
    /\ UNCHANGED leases

adoptBinding(c) ==
    /\ ValidCandidate(c)
    /\ adoptFirst(requireAuthority(c)) \/ adoptSuccessor(requireAuthority(c))
    /\ authorities' = [authorities EXCEPT ![c.workspace] = requireAuthority(c)]
    /\ UNCHANGED leases

\* Mutant: the activities are not marked.
MutantInvalidateAll ==
    /\ authorities' = [w \in Workspace |-> None]
    /\ UNCHANGED <<activities, entries, leases>>

invalidateAll ==
    /\ Invalidate(Workspace)
    /\ authorities' = [w \in Workspace |-> None]
    /\ UNCHANGED leases

retireBinding(c) ==
    /\ ValidCandidate(c)
    /\ authorities[c.workspace] # None
    /\ sameAuthority(authorities[c.workspace], requireAuthority(c))
    /\ authorities' = [authorities EXCEPT ![c.workspace] = None]
    /\ Invalidate({c.workspace})
    /\ UNCHANGED leases

\* Mutant: an invalidated entry may be joined.
MutantMismatched(x, c) == x.identity # EntryIdentity(c)

\* An entry another acquisition may not join.
Mismatched(x, c) == x.invalidated \/ x.identity # EntryIdentity(c)

\* Mutant: a live exclusive holder does not refuse others.
MutantJoinEntry(c, exclusive, e) ==
    /\ activities[c.workspace] = e
    /\ ~Mismatched(entries[e], c)
    /\ ~(exclusive /\ entries[e].holders > 0)
    /\ entries' = [entries EXCEPT ![e].holders = @ + 1,
                                  ![e].exclusive = @ \/ exclusive]
    /\ UNCHANGED activities

joinEntry(c, exclusive, e) ==
    /\ activities[c.workspace] = e
    /\ ~Mismatched(entries[e], c)
    /\ ~(entries[e].exclusive /\ entries[e].holders > 0)
    /\ ~(exclusive /\ entries[e].holders > 0)
    /\ entries' = [entries EXCEPT ![e].holders = @ + 1,
                                  ![e].exclusive = @ \/ exclusive]
    /\ UNCHANGED activities

\* Mutant: a mismatched entry is replaced although it has holders.
MutantNewEntryEvicts(c, exclusive, e) ==
    LET old == activities[c.workspace] IN
    /\ old # None => Mismatched(entries[old], c)
    /\ Cardinality(Active \ {c.workspace}) < MaxActiveWorkspaces
    /\ entries[e] = None
    /\ entries' = [entries EXCEPT ![e] =
          [identity |-> EntryIdentity(c), holders |-> 1,
           exclusive |-> exclusive, invalidated |-> FALSE]]
    /\ activities' = [activities EXCEPT ![c.workspace] = e]

\* Mutant: one workspace too many is admitted.
MutantNewEntryLimit(c, exclusive, e) ==
    LET old == activities[c.workspace] IN
    /\ old # None => Mismatched(entries[old], c) /\ entries[old].holders = 0
    /\ Cardinality(Active \ {c.workspace}) <= MaxActiveWorkspaces
    /\ entries[e] = None
    /\ entries' = [entries EXCEPT ![e] =
          [identity |-> EntryIdentity(c), holders |-> 1,
           exclusive |-> exclusive, invalidated |-> FALSE]]
    /\ activities' = [activities EXCEPT ![c.workspace] = e]

\* A mismatched entry without holders is deleted before the size is read.
newEntry(c, exclusive, e) ==
    LET old == activities[c.workspace] IN
    /\ old # None => Mismatched(entries[old], c) /\ entries[old].holders = 0
    /\ Cardinality(Active \ {c.workspace}) < MaxActiveWorkspaces
    /\ entries[e] = None
    /\ entries' = [entries EXCEPT ![e] =
          [identity |-> EntryIdentity(c), holders |-> 1,
           exclusive |-> exclusive, invalidated |-> FALSE]]
    /\ activities' = [activities EXCEPT ![c.workspace] = e]

acquireActivity(l, c, exclusive, e) ==
    /\ ~Held(l)
    /\ ValidCandidate(c)
    /\ c.binding # None
    /\ authorities[c.workspace] # None
    /\ sameAuthority(authorities[c.workspace], requireAuthority(c))
    /\ joinEntry(c, exclusive, e) \/ newEntry(c, exclusive, e)
    /\ leases' = [leases EXCEPT ![l] =
          [authority |-> requireAuthority(c), entry |-> e,
           exclusive |-> exclusive, released |-> FALSE]]
    /\ UNCHANGED authorities

isCurrent(l) ==
    /\ Held(l)
    /\ ~entries[leases[l].entry].invalidated
    /\ activities[leases[l].authority.workspace] = leases[l].entry
    /\ sameAuthority(authorities[leases[l].authority.workspace], leases[l].authority)

\* The first call drops the holder; the last holder takes the Map entry of its
\* workspace away, whatever entry that is, and its own entry becomes garbage.
dropHolder(l) ==
    LET e == leases[l].entry
        w == leases[l].authority.workspace
        last == entries[e].holders = 1
    IN  /\ leases' = [leases EXCEPT ![l].released = TRUE]
        /\ entries' = IF last THEN [entries EXCEPT ![e] = None]
                              ELSE [entries EXCEPT ![e].holders = @ - 1]
        /\ activities' = IF last THEN [activities EXCEPT ![w] = None] ELSE activities
        /\ UNCHANGED authorities

\* Mutant: the released flag is not consulted.
MutantRelease(l) ==
    /\ leases[l] # None
    /\ entries[leases[l].entry] # None
    /\ dropHolder(l)

\* A second release of the same lease returns at once.
release(l) ==
    /\ leases[l] # None
    /\ IF leases[l].released THEN UNCHANGED vars ELSE dropHolder(l)

Next ==
    \/ \E c \in Candidate : adoptBinding(c)
    \/ invalidateAll
    \/ \E c \in Candidate : retireBinding(c)
    \/ \E l \in Lease, c \in Candidate, exclusive \in BOOLEAN, e \in Entry :
          acquireActivity(l, c, exclusive, e)
    \/ \E l \in Lease : release(l)

Spec == Init /\ [][Next]_vars

-----------------------------------------------------------------------------
(* Properties *)

Holders(e) == {l \in Lease : Held(l) /\ leases[l].entry = e}

\* The counter of an entry is the number of unreleased leases on it, and an
\* entry stays in the activities Map only while it has one: release() runs in
\* any order, twice, and after the binding was replaced or retired, and
\* `activities.size` "reflects only live holders" (acquireActivity's comment).
HoldersCounted ==
    /\ \A e \in Entry : entries[e] # None =>
          entries[e].holders = Cardinality(Holders(e))
    /\ \A w \in Active : Holders(activities[w]) # {}

\* Every unreleased lease, stale or not, is on the entry its workspace maps to.
\* release() deletes the Map entry of its workspace without comparing it with
\* its own entry: this is why it never evicts somebody else's, and why all
\* holders of one workspace share one binding identity.
HolderEntryMapped ==
    \A l \in Lease : Held(l) =>
        activities[leases[l].authority.workspace] = leases[l].entry

\* While an exclusive lease is unreleased, even a stale one, no other lease of
\* its workspace exists: a destructive lifecycle operation works alone.
ExclusiveAlone ==
    \A l, k \in Lease :
        /\ Held(l) /\ Held(k) /\ l # k
        /\ leases[l].authority.workspace = leases[k].authority.workspace
        => ~leases[l].exclusive /\ ~leases[k].exclusive

\* A lease that is neither released nor invalidated is on the authority now in
\* force; in particular isCurrent() never compares with a missing authority,
\* which sameAuthority could not survive.
CurrentUnlessInvalidated ==
    \A l \in Lease : Held(l) /\ ~entries[leases[l].entry].invalidated =>
        authorities[leases[l].authority.workspace] = leases[l].authority

\* adoptBinding and acquireActivity admit no workspace beyond their limits,
\* stale entries that are still held counted.
WithinLimits ==
    /\ Cardinality(Adopted) <= MaxWorkspaces
    /\ Cardinality(Active) <= MaxActiveWorkspaces

\* A lease that stopped being current stays so until it is released: no later
\* adoption, not even of the very same authority, revives it.
StaleForever ==
    [][\A l \in Lease : Held(l) /\ ~isCurrent(l) => ~Held(l)' \/ ~isCurrent(l)']_vars

\* While a workspace stays bound, none of its generations that both authorities
\* have goes back, and it changes hands (host, mapping, platform) only together
\* with a new mapping or workspace generation.
AuthorityMovesForward ==
    [][\A w \in Workspace :
          authorities[w] # None /\ authorities'[w] # None =>
             /\ \A f \in GenField : ~Less(authorities'[w].gen[f], authorities[w].gen[f])
             /\ authorities'[w].ident # authorities[w].ident =>
                   mappingAdvanced(authorities[w], authorities'[w])]_vars

\* What a lease grants its caller until it is released.
GrantOf(l) ==
    IF Held(l) THEN [authority |-> leases[l].authority,
                     exclusive |-> leases[l].exclusive,
                     stale     |-> ~isCurrent(l)]
               ELSE None

Fence == INSTANCE WorkspaceFence WITH
    Holder  <- Lease,
    inForce <- authorities,
    grant   <- [l \in Lease |-> GrantOf(l)]

\* The registry implements the fenced shared/exclusive lock of WorkspaceFence:
\* an authority that is replaced or withdrawn makes every earlier lease stale,
\* and acquireActivity lets nobody in beside a stale or an exclusive lease.
ImplementsFence == Fence!Spec

\* The accounts of the registry as one: its Maps keep their types, every count
\* is exact, every unreleased lease is on the entry of its workspace, and the
\* limits hold, whatever the order of adoptions, retirements and releases.
LeasesAccounted == TypeOK /\ HoldersCounted /\ HolderEntryMapped /\ WithinLimits
=============================================================================
