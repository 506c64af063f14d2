------------------------- MODULE LeaseRegistryProofs -------------------------
(***************************************************************************)
(* The safety properties of LeaseRegistry, for any finite number of        *)
(* workspaces and leases, any candidates and any limits.                   *)
(***************************************************************************)
EXTENDS LeaseRegistry, FiniteSetTheorems, TLAPS

\* The cell a workspace maps to is in use.
MappedInUse == \A w \in Active : entries[activities[w]] # None

\* No entry is mapped by two workspaces: the workspace of a holder is the only
\* one that maps to the holder's entry.
EntryOfOneWorkspace ==
    \A l \in Lease, w \in Workspace :
        Held(l) /\ activities[w] = leases[l].entry => leases[l].authority.workspace = w

\* The exclusive flag of an entry belongs to its only holder.
ExclusiveSingle ==
    /\ \A e \in Entry : entries[e] # None =>
          (entries[e].exclusive => entries[e].holders = 1)
    /\ \A l \in Lease : Held(l) =>
          (leases[l].exclusive => entries[leases[l].entry].exclusive)

\* The inductive invariant.
IInv ==
    /\ TypeOK
    /\ HoldersCounted
    /\ HolderEntryMapped
    /\ MappedInUse
    /\ EntryOfOneWorkspace
    /\ ExclusiveSingle
    /\ CurrentUnlessInvalidated

-----------------------------------------------------------------------------
(* Lemmas on the values. *)

\* requireAuthority keeps the workspace and yields an authority.
LEMMA AuthorityOfCandidate ==
    ASSUME NEW c \in Candidate
    PROVE  /\ requireAuthority(c) \in Authority
           /\ requireAuthority(c).workspace = c.workspace
           /\ c.workspace \in Workspace
           /\ EntryIdentity(c) \in Identity
  BY CandidateAssumption DEF requireAuthority, Authority, Identity

\* Every authority names a workspace.
LEMMA AuthorityWorkspace ==
    ASSUME NEW a \in Authority
    PROVE  a.workspace \in Workspace
  BY CandidateAssumption DEF Authority, requireAuthority

\* The holders of an entry are finitely many leases.
LEMMA HoldersFinite ==
    ASSUME NEW e
    PROVE  /\ IsFiniteSet(Holders(e))
           /\ Cardinality(Holders(e)) \in Nat
           /\ Cardinality(Holders(e)) = 0 <=> Holders(e) = {}
  <1>1. Holders(e) \in SUBSET Lease
    BY DEF Holders
  <1>2. IsFiniteSet(Holders(e))
    BY <1>1, FS_Subset, BoundAssumption
  <1> QED
    BY <1>2, FS_CardinalityType, FS_EmptySet

\* A mapped entry is in use, has a holder and counts it.
LEMMA MappedHasHolder ==
    ASSUME IInv, NEW w \in Workspace, activities[w] # None
    PROVE  /\ activities[w] \in Entry
           /\ entries[activities[w]] \in EntryRec
           /\ entries[activities[w]].holders > 0
           /\ \E l \in Lease : /\ Held(l)
                               /\ leases[l].entry = activities[w]
                               /\ leases[l].authority.workspace = w
  <1>1. w \in Active /\ activities[w] \in Entry
    BY DEF IInv, TypeOK, Active
  <1>2. entries[activities[w]] \in EntryRec
    BY <1>1 DEF IInv, TypeOK, MappedInUse
  <1>3. Holders(activities[w]) # {}
    BY <1>1 DEF IInv, HoldersCounted
  <1>4. entries[activities[w]].holders > 0
    <2>1. entries[activities[w]].holders = Cardinality(Holders(activities[w]))
      BY <1>1, <1>2, NoneAssumption DEF IInv, HoldersCounted
    <2> QED
      BY <2>1, <1>3, HoldersFinite
  <1>5. PICK l \in Lease : Held(l) /\ leases[l].entry = activities[w]
    BY <1>3 DEF Holders
  <1>6. leases[l].authority.workspace = w
    BY <1>5 DEF IInv, EntryOfOneWorkspace
  <1> QED
    BY <1>1, <1>2, <1>4, <1>5, <1>6

\* What is known of an unreleased lease.
LEMMA HeldLease ==
    ASSUME IInv, NEW l \in Lease, Held(l)
    PROVE  /\ leases[l] \in LeaseRec
           /\ leases[l].entry \in Entry
           /\ leases[l].authority \in Authority
           /\ leases[l].authority.workspace \in Workspace
           /\ activities[leases[l].authority.workspace] = leases[l].entry
           /\ entries[leases[l].entry] \in EntryRec
           /\ entries[leases[l].entry].holders = Cardinality(Holders(leases[l].entry))
  <1>1. leases[l] \in LeaseRec
    BY DEF IInv, TypeOK, Held
  <1>2. /\ leases[l].entry \in Entry
        /\ leases[l].authority \in Authority
        /\ leases[l].authority.workspace \in Workspace
    BY <1>1, AuthorityWorkspace DEF LeaseRec
  <1>3. activities[leases[l].authority.workspace] = leases[l].entry
    BY DEF IInv, HolderEntryMapped
  <1>4. entries[leases[l].entry] \in EntryRec
    BY <1>2, <1>3, NoneAssumption, MappedHasHolder
  <1>5. entries[leases[l].entry].holders = Cardinality(Holders(leases[l].entry))
    BY <1>2, <1>4, NoneAssumption DEF IInv, HoldersCounted
  <1> QED
    BY <1>1, <1>2, <1>3, <1>4, <1>5

-----------------------------------------------------------------------------
(* The steps. *)

\* Setting the flag of an entry touches nothing else of it.
LEMMA InvalidatedEntry ==
    ASSUME NEW x \in EntryRec
    PROVE  LET y == [x EXCEPT !.invalidated = TRUE]
           IN  /\ y \in EntryRec
               /\ y.holders = x.holders
               /\ y.exclusive = x.exclusive
               /\ y.invalidated
  BY DEF EntryRec

\* Invalidating the entries of some workspaces only sets their flag: no Map
\* entry is dropped, because every mapped entry has a holder.
LEMMA InvalidateEffect ==
    ASSUME IInv, NEW W \in SUBSET Workspace, Invalidate(W), UNCHANGED leases
    PROVE  /\ activities' = activities
           /\ entries' \in [Entry -> EntryRec \cup {None}]
           /\ \A e \in Entry :
                 /\ entries'[e] = None <=> entries[e] = None
                 /\ entries[e] # None =>
                       /\ entries'[e].holders = entries[e].holders
                       /\ entries'[e].exclusive = entries[e].exclusive
                       /\ entries[e].invalidated => entries'[e].invalidated
                       /\ (\E w \in W : activities[w] = e) => entries'[e].invalidated
  <1>1. ASSUME NEW w \in Workspace PROVE activities'[w] = activities[w]
    BY MappedHasHolder DEF Invalidate, EntryRec
  <1>2. activities' = activities
    BY <1>1 DEF IInv, TypeOK, Invalidate
  <1>3. ASSUME NEW e \in Entry, NEW w \in W, activities[w] = e
        PROVE  /\ entries'[e] = [entries[e] EXCEPT !.invalidated = TRUE]
               /\ entries[e] \in EntryRec
    BY <1>3, MappedHasHolder, NoneAssumption DEF Invalidate
  <1>4. ASSUME NEW e \in Entry, ~ \E w \in W : activities[w] = e
        PROVE  entries'[e] = entries[e]
    BY <1>4 DEF Invalidate
  <1>5. ASSUME NEW e \in Entry
        PROVE  /\ entries'[e] \in EntryRec \cup {None}
               /\ entries'[e] = None <=> entries[e] = None
               /\ entries[e] # None =>
                     /\ entries'[e].holders = entries[e].holders
                     /\ entries'[e].exclusive = entries[e].exclusive
                     /\ entries[e].invalidated => entries'[e].invalidated
                     /\ (\E w \in W : activities[w] = e) => entries'[e].invalidated
    <2>1. CASE \E w \in W : activities[w] = e
      <3>1. /\ entries'[e] = [entries[e] EXCEPT !.invalidated = TRUE]
            /\ entries[e] \in EntryRec
        BY <2>1, <1>3
      <3>2. /\ entries'[e] \in EntryRec
            /\ entries'[e].holders = entries[e].holders
            /\ entries'[e].exclusive = entries[e].exclusive
            /\ entries'[e].invalidated
        BY <3>1, InvalidatedEntry
      <3> QED
        BY <3>1, <3>2, NoneAssumption
    <2>2. CASE ~ \E w \in W : activities[w] = e
      BY <2>2, <1>4 DEF IInv, TypeOK
    <2> QED
      BY <2>1, <2>2
  <1>6. entries' \in [Entry -> EntryRec \cup {None}]
    BY <1>5 DEF Invalidate
  <1> QED
    BY <1>2, <1>5, <1>6

\* Hence adopting a successor, retiring and the inventory cascade preserve the
\* invariant, if they change the authority only of invalidated workspaces.
LEMMA InvalidatePreserves ==
    ASSUME IInv, NEW W \in SUBSET Workspace, Invalidate(W), UNCHANGED leases,
           authorities' \in [Workspace -> Authority \cup {None}],
           \A w \in Workspace \ W : authorities'[w] = authorities[w]
    PROVE  IInv'
  <1>1. /\ activities' = activities
        /\ \A l \in Lease : Held(l)' <=> Held(l)
        /\ \A e : Holders(e)' = Holders(e)
        /\ Active' = Active
    BY InvalidateEffect DEF Held, Holders, Active
  <1>2. TypeOK'
    BY InvalidateEffect DEF IInv, TypeOK
  <1>3. HoldersCounted'
    BY <1>1, InvalidateEffect DEF IInv, HoldersCounted
  <1>4. HolderEntryMapped' /\ EntryOfOneWorkspace'
    BY <1>1 DEF IInv, HolderEntryMapped, EntryOfOneWorkspace
  <1>5. MappedInUse'
    BY <1>1, InvalidateEffect, MappedHasHolder, NoneAssumption DEF MappedInUse, Active
  <1>6. ExclusiveSingle'
    <2>1. ASSUME NEW e \in Entry, entries'[e] # None, entries'[e].exclusive
          PROVE  entries'[e].holders = 1
      BY <2>1, InvalidateEffect DEF IInv, ExclusiveSingle
    <2>2. ASSUME NEW l \in Lease, Held(l), leases[l].exclusive
          PROVE  entries'[leases[l].entry].exclusive
      BY <2>2, HeldLease, NoneAssumption, InvalidateEffect DEF IInv, ExclusiveSingle
    <2> QED
      BY <2>1, <2>2, <1>1 DEF ExclusiveSingle
  <1>7. CurrentUnlessInvalidated'
    <2> SUFFICES ASSUME NEW l \in Lease, Held(l), ~entries'[leases[l].entry].invalidated
                 PROVE  authorities'[leases[l].authority.workspace] = leases[l].authority
      BY <1>1 DEF CurrentUnlessInvalidated
    <2>1. leases[l].authority.workspace \notin W
      BY HeldLease, NoneAssumption, InvalidateEffect
    <2>2. ~entries[leases[l].entry].invalidated
      BY HeldLease, NoneAssumption, InvalidateEffect
    <2> QED
      BY <2>1, <2>2, HeldLease DEF IInv, CurrentUnlessInvalidated
  <1> QED
    BY <1>2, <1>3, <1>4, <1>5, <1>6, <1>7 DEF IInv

\* adoptBinding.
LEMMA AdoptPreserves ==
    ASSUME IInv, NEW c \in Candidate, adoptBinding(c)
    PROVE  IInv'
  <1> DEFINE a == requireAuthority(c)
  <1>1. /\ authorities' = [authorities EXCEPT ![c.workspace] = a]
        /\ authorities' \in [Workspace -> Authority \cup {None}]
        /\ UNCHANGED leases
        /\ a.workspace = c.workspace
        /\ c.workspace \in Workspace
    BY AuthorityOfCandidate DEF adoptBinding, IInv, TypeOK
  <1>2. CASE adoptFirst(a)
    <2>1. UNCHANGED <<activities, entries, leases>> /\ authorities[c.workspace] = None
      BY <1>1, <1>2 DEF adoptFirst
    <2>2. CurrentUnlessInvalidated'
      BY <2>1, <1>1, HeldLease, NoneAssumption
      DEF IInv, CurrentUnlessInvalidated, TypeOK, Held
    <2> QED
      BY <2>1, <2>2, <1>1
      DEF IInv, TypeOK, HoldersCounted, HolderEntryMapped, MappedInUse,
          EntryOfOneWorkspace, ExclusiveSingle, Held, Holders, Active
  <1>3. CASE adoptSuccessor(a)
    <2>1. Invalidate({c.workspace})
      BY <1>1, <1>3 DEF adoptSuccessor
    <2>2. \A w \in Workspace \ {c.workspace} : authorities'[w] = authorities[w]
      BY <1>1 DEF IInv, TypeOK
    <2> QED
      BY <2>1, <2>2, <1>1, InvalidatePreserves
  <1> QED
    BY <1>2, <1>3 DEF adoptBinding

\* invalidateAll and retireBinding.
LEMMA WithdrawPreserves ==
    ASSUME IInv, invalidateAll \/ \E c \in Candidate : retireBinding(c)
    PROVE  IInv'
  <1>1. CASE invalidateAll
    BY <1>1, InvalidatePreserves DEF invalidateAll
  <1>2. ASSUME NEW c \in Candidate, retireBinding(c) PROVE IInv'
    <2>1. /\ c.workspace \in Workspace
          /\ authorities' \in [Workspace -> Authority \cup {None}]
          /\ \A w \in Workspace \ {c.workspace} : authorities'[w] = authorities[w]
      BY <1>2, AuthorityOfCandidate DEF retireBinding, IInv, TypeOK
    <2> QED
      BY <2>1, <1>2, InvalidatePreserves DEF retireBinding
  <1> QED
    BY <1>1, <1>2

\* The lease an acquisition stores, and what it leaves alone.
LEMMA AcquireEffect ==
    ASSUME IInv, NEW l \in Lease, NEW c \in Candidate, NEW exclusive \in BOOLEAN,
           NEW e \in Entry, acquireActivity(l, c, exclusive, e)
    PROVE  /\ ~Held(l)
           /\ Held(l)'
           /\ leases'[l] \in LeaseRec
           /\ leases'[l].entry = e
           /\ leases'[l].authority = authorities[c.workspace]
           /\ leases'[l].authority.workspace = c.workspace
           /\ leases'[l].exclusive = exclusive
           /\ \A k \in Lease \ {l} : leases'[k] = leases[k] /\ (Held(k)' <=> Held(k))
           /\ leases' \in [Lease -> LeaseRec \cup {None}]
           /\ UNCHANGED authorities
           /\ c.workspace \in Workspace
           /\ Holders(e)' = Holders(e) \cup {l}
           /\ \A f : f # e => Holders(f)' = Holders(f)
  <1> DEFINE new == [authority |-> requireAuthority(c), entry |-> e,
                     exclusive |-> exclusive, released |-> FALSE]
  <1>1. /\ ~Held(l)
        /\ leases' = [leases EXCEPT ![l] = new]
        /\ requireAuthority(c) = authorities[c.workspace]
        /\ UNCHANGED authorities
    BY DEF acquireActivity, sameAuthority
  <1>2. /\ new \in LeaseRec
        /\ new.authority.workspace = c.workspace
        /\ ~new.released
        /\ c.workspace \in Workspace
    BY AuthorityOfCandidate DEF LeaseRec
  <1>3. leases'[l] = new /\ \A k \in Lease \ {l} : leases'[k] = leases[k]
    BY <1>1 DEF IInv, TypeOK
  <1>4. leases' \in [Lease -> LeaseRec \cup {None}]
    BY <1>1, <1>2 DEF IInv, TypeOK
  <1>5. Held(l)'
    <2>1. leases'[l] # None
      BY <1>2, <1>3, NoneAssumption
    <2> HIDE DEF new
    <2> QED
      BY <2>1, <1>2, <1>3 DEF Held
  <1>6. \A k \in Lease \ {l} : Held(k)' <=> Held(k)
    BY <1>3 DEF Held
  <1>7. /\ Holders(e)' = Holders(e) \cup {l}
        /\ \A f : f # e => Holders(f)' = Holders(f)
    BY <1>1, <1>3, <1>5, <1>6 DEF Holders
  <1> QED
    BY <1>1, <1>2, <1>3, <1>4, <1>5, <1>6, <1>7

\* Joining an entry: it is valid and shared, and gets one more holder.
LEMMA JoinEffect ==
    ASSUME IInv, NEW l \in Lease, NEW c \in Candidate, NEW exclusive \in BOOLEAN,
           NEW e \in Entry, acquireActivity(l, c, exclusive, e),
           joinEntry(c, exclusive, e)
    PROVE  /\ c.workspace \in Workspace
           /\ activities[c.workspace] = e
           /\ activities' = activities
           /\ entries[e] \in EntryRec
           /\ ~entries[e].invalidated
           /\ ~exclusive /\ ~entries[e].exclusive
           /\ entries'[e] \in EntryRec
           /\ entries'[e].holders = entries[e].holders + 1
           /\ ~entries'[e].exclusive
           /\ ~entries'[e].invalidated
           /\ \A f \in Entry \ {e} : entries'[f] = entries[f]
           /\ entries' \in [Entry -> EntryRec \cup {None}]
  <1> DEFINE w == c.workspace
  <1>1. /\ w \in Workspace
        /\ activities[w] = e
        /\ activities' = activities
        /\ entries[e] \in EntryRec
        /\ entries[e].holders > 0
        /\ ~entries[e].invalidated
    BY AcquireEffect, MappedHasHolder, NoneAssumption DEF joinEntry, Mismatched
  <1>2. exclusive = FALSE /\ entries[e].exclusive = FALSE
    BY <1>1 DEF joinEntry, EntryRec
  <1>3. entries' = [entries EXCEPT ![e] = [entries[e] EXCEPT !.holders = @ + 1]]
    <2>1. entries' = [entries EXCEPT ![e].holders = @ + 1, ![e].exclusive = @ \/ exclusive]
      BY DEF joinEntry
    <2>2. entries \in [Entry -> EntryRec \cup {None}]
      BY DEF IInv, TypeOK
    <2> QED
      BY <2>1, <2>2, <1>1, <1>2 DEF EntryRec
  <1>4. /\ entries'[e] \in EntryRec
        /\ entries'[e].holders = entries[e].holders + 1
        /\ entries'[e].exclusive = FALSE
        /\ ~entries'[e].invalidated
        /\ \A f \in Entry \ {e} : entries'[f] = entries[f]
        /\ entries' \in [Entry -> EntryRec \cup {None}]
    BY <1>1, <1>2, <1>3 DEF IInv, TypeOK, EntryRec
  <1> QED
    BY <1>1, <1>2, <1>4

\* acquireActivity, joining the entry of the workspace.
LEMMA JoinPreserves ==
    ASSUME IInv, NEW l \in Lease, NEW c \in Candidate, NEW exclusive \in BOOLEAN,
           NEW e \in Entry, acquireActivity(l, c, exclusive, e),
           joinEntry(c, exclusive, e)
    PROVE  IInv'
  <1> DEFINE w == c.workspace
  <1>1. /\ w \in Workspace
        /\ activities[w] = e
        /\ activities' = activities
        /\ entries[e] \in EntryRec
        /\ ~entries[e].invalidated
    BY JoinEffect
  <1>2. ~exclusive /\ ~entries[e].exclusive
    BY JoinEffect
  <1>4. /\ entries'[e] \in EntryRec
        /\ entries'[e].holders = entries[e].holders + 1
        /\ ~entries'[e].exclusive
        /\ ~entries'[e].invalidated
        /\ \A f \in Entry \ {e} : entries'[f] = entries[f]
        /\ entries' \in [Entry -> EntryRec \cup {None}]
    BY JoinEffect
  <1>5. TypeOK'
    BY <1>1, <1>4, AcquireEffect DEF IInv, TypeOK
  <1>6. HoldersCounted'
    <2>1. Cardinality(Holders(e))' = Cardinality(Holders(e)) + 1
      <3>1. l \notin Holders(e)
        BY AcquireEffect DEF Holders
      <3> QED
        BY <3>1, AcquireEffect, HoldersFinite, FS_AddElement
    <2>2. entries[e].holders = Cardinality(Holders(e))
      BY <1>1, NoneAssumption DEF IInv, HoldersCounted
    <2>3. \A f \in Entry : entries'[f] # None => entries'[f].holders = Cardinality(Holders(f))'
      BY <2>1, <2>2, <1>4, AcquireEffect DEF IInv, HoldersCounted
    <2>4. \A f : Holders(f) # {} => Holders(f)' # {}
      BY AcquireEffect
    <2>5. \A v \in Active : Holders(activities[v])' # {}
      BY <2>4, <1>1 DEF IInv, HoldersCounted
    <2> QED
      BY <2>3, <2>5, <1>1 DEF HoldersCounted, Active
  <1>7. HolderEntryMapped'
    BY <1>1, AcquireEffect DEF IInv, HolderEntryMapped
  <1>8. MappedInUse'
    BY <1>1, <1>4, NoneAssumption, MappedHasHolder DEF MappedInUse, Active
  <1>9. EntryOfOneWorkspace'
    <2>1. PICK k \in Lease : Held(k) /\ leases[k].entry = e
                             /\ leases[k].authority.workspace = w
      BY <1>1, NoneAssumption, MappedHasHolder
    <2>2. \A v \in Workspace : activities[v] = e => v = w
      BY <2>1 DEF IInv, EntryOfOneWorkspace
    <2> QED
      BY <2>2, <1>1, AcquireEffect DEF IInv, EntryOfOneWorkspace
  <1>10. ExclusiveSingle'
    <2>1. \A k \in Lease : Held(k) /\ leases[k].entry = e => ~leases[k].exclusive
      BY <1>2 DEF IInv, ExclusiveSingle
    <2>2. ASSUME NEW f \in Entry, entries'[f] # None, entries'[f].exclusive
          PROVE  entries'[f].holders = 1
      BY <2>2, <1>4 DEF IInv, ExclusiveSingle
    <2>3. ASSUME NEW k \in Lease, Held(k)', leases'[k].exclusive
          PROVE  entries'[leases'[k].entry].exclusive
      <3>1. k # l
        BY <2>3, <1>2, AcquireEffect
      <3>2. leases'[k] = leases[k] /\ Held(k)
        BY <3>1, <2>3, AcquireEffect
      <3> QED
        BY <3>2, <2>1, <2>3, <1>4, HeldLease DEF IInv, ExclusiveSingle
    <2> QED
      BY <2>2, <2>3 DEF ExclusiveSingle
  <1>11. CurrentUnlessInvalidated'
    <2> SUFFICES ASSUME NEW k \in Lease, Held(k)', ~entries'[leases'[k].entry].invalidated
                 PROVE  authorities[leases'[k].authority.workspace] = leases'[k].authority
      BY AcquireEffect DEF CurrentUnlessInvalidated
    <2>1. CASE k = l
      BY <2>1, AcquireEffect
    <2>2. CASE k # l
      <3>1. leases'[k] = leases[k] /\ Held(k)
        BY <2>2, AcquireEffect
      <3>2. ~entries[leases[k].entry].invalidated
        BY <3>1, <1>1, <1>4, HeldLease
      <3> QED
        BY <3>1, <3>2 DEF IInv, CurrentUnlessInvalidated
    <2> QED
      BY <2>1, <2>2
  <1> QED
    BY <1>5, <1>6, <1>7, <1>8, <1>9, <1>10, <1>11 DEF IInv

\* acquireActivity, creating the entry of the workspace.
LEMMA NewEntryPreserves ==
    ASSUME IInv, NEW l \in Lease, NEW c \in Candidate, NEW exclusive \in BOOLEAN,
           NEW e \in Entry, acquireActivity(l, c, exclusive, e),
           newEntry(c, exclusive, e)
    PROVE  IInv'
  <1> DEFINE w == c.workspace
             new == [identity |-> EntryIdentity(c), holders |-> 1,
                     exclusive |-> exclusive, invalidated |-> FALSE]
  <1>1. w \in Workspace /\ activities[w] = None
    BY AcquireEffect, MappedHasHolder DEF newEntry, EntryRec
  <1>2. /\ entries[e] = None
        /\ entries' = [entries EXCEPT ![e] = new]
        /\ activities' = [activities EXCEPT ![w] = e]
    BY DEF newEntry
  <1>3. /\ new \in EntryRec /\ new.holders = 1
        /\ new.exclusive = exclusive /\ ~new.invalidated
    BY AuthorityOfCandidate DEF EntryRec
  <1>4. /\ entries'[e] = new
        /\ \A f \in Entry \ {e} : entries'[f] = entries[f]
        /\ entries' \in [Entry -> EntryRec \cup {None}]
        /\ activities'[w] = e
        /\ \A v \in Workspace \ {w} : activities'[v] = activities[v]
        /\ activities' \in [Workspace -> Entry \cup {None}]
    BY <1>1, <1>2, <1>3 DEF IInv, TypeOK
  <1> HIDE DEF new
  <1>5. /\ Holders(e) = {}
        /\ \A v \in Workspace : activities[v] # e
        /\ \A k \in Lease : Held(k) =>
              leases[k].entry # e /\ leases[k].authority.workspace # w
    <2>1. \A k \in Lease : Held(k) =>
              leases[k].entry # e /\ leases[k].authority.workspace # w
      BY <1>1, <1>2, HeldLease, NoneAssumption
    <2>2. Holders(e) = {}
      BY <2>1 DEF Holders
    <2>3. \A v \in Workspace : activities[v] # e
      BY <1>2, MappedHasHolder, NoneAssumption
    <2> QED
      BY <2>1, <2>2, <2>3
  <1>6. TypeOK'
    BY <1>4, AcquireEffect DEF IInv, TypeOK
  <1>7. HoldersCounted'
    <2>1. Cardinality(Holders(e))' = 1
      <3>1. Holders(e)' = {l}
        BY <1>5, AcquireEffect
      <3> QED
        BY <3>1, FS_Singleton
    <2>2. \A f \in Entry : entries'[f] # None => entries'[f].holders = Cardinality(Holders(f))'
      BY <2>1, <1>3, <1>4, AcquireEffect DEF IInv, HoldersCounted
    <2>3. Holders(e)' # {} /\ \A f : Holders(f) # {} => Holders(f)' # {}
      BY AcquireEffect
    <2>4. ASSUME NEW v \in Workspace, activities'[v] # None
          PROVE  \E f : f = activities'[v] /\ Holders(f)' # {}
      <3>1. CASE v = w
        BY <3>1, <2>3, <1>4
      <3>2. CASE v # w
        <4>1. v \in Active /\ activities'[v] = activities[v]
          BY <3>2, <2>4, <1>4 DEF Active
        <4>2. Holders(activities[v]) # {}
          BY <4>1 DEF IInv, HoldersCounted
        <4> QED
          BY <4>1, <4>2, <2>3
      <3> QED
        BY <3>1, <3>2
    <2> QED
      BY <2>2, <2>4 DEF HoldersCounted, Active
  <1>8. HolderEntryMapped' /\ EntryOfOneWorkspace'
    <2> SUFFICES ASSUME NEW k \in Lease, Held(k)'
                 PROVE  /\ activities'[leases'[k].authority.workspace] = leases'[k].entry
                        /\ \A v \in Workspace : activities'[v] = leases'[k].entry
                              => leases'[k].authority.workspace = v
      BY DEF HolderEntryMapped, EntryOfOneWorkspace
    <2>1. CASE k = l
      BY <2>1, <1>4, <1>5, AcquireEffect
    <2>2. CASE k # l
      <3>1. leases'[k] = leases[k] /\ Held(k)
        BY <2>2, AcquireEffect
      <3> QED
        BY <3>1, <1>4, <1>5, HeldLease DEF IInv, EntryOfOneWorkspace
    <2> QED
      BY <2>1, <2>2
  <1>9. MappedInUse'
    BY <1>3, <1>4, <1>5, NoneAssumption, MappedHasHolder DEF MappedInUse, Active
  <1>10. ExclusiveSingle'
    <2>1. ASSUME NEW f \in Entry, entries'[f] # None, entries'[f].exclusive
          PROVE  entries'[f].holders = 1
      BY <2>1, <1>3, <1>4 DEF IInv, ExclusiveSingle
    <2>2. ASSUME NEW k \in Lease, Held(k)', leases'[k].exclusive
          PROVE  entries'[leases'[k].entry].exclusive
      <3>1. CASE k = l
        BY <3>1, <2>2, <1>3, <1>4, AcquireEffect
      <3>2. CASE k # l
        <4>1. leases'[k] = leases[k] /\ Held(k)
          BY <3>2, <2>2, AcquireEffect
        <4> QED
          BY <4>1, <2>2, <1>4, <1>5, HeldLease DEF IInv, ExclusiveSingle
      <3> QED
        BY <3>1, <3>2
    <2> QED
      BY <2>1, <2>2 DEF ExclusiveSingle
  <1>11. CurrentUnlessInvalidated'
    <2> SUFFICES ASSUME NEW k \in Lease, Held(k)', ~entries'[leases'[k].entry].invalidated
                 PROVE  authorities[leases'[k].authority.workspace] = leases'[k].authority
      BY AcquireEffect DEF CurrentUnlessInvalidated
    <2>1. CASE k = l
      BY <2>1, AcquireEffect
    <2>2. CASE k # l
      <3>1. leases'[k] = leases[k] /\ Held(k)
        BY <2>2, AcquireEffect
      <3>2. ~entries[leases[k].entry].invalidated
        BY <3>1, <1>4, <1>5, HeldLease
      <3> QED
        BY <3>1, <3>2 DEF IInv, CurrentUnlessInvalidated
    <2> QED
      BY <2>1, <2>2
  <1> QED
    BY <1>6, <1>7, <1>8, <1>9, <1>10, <1>11 DEF IInv

\* Dropping a holder ends that lease and no other.
LEMMA ReleasedLease ==
    ASSUME IInv, NEW l \in Lease, Held(l), dropHolder(l)
    PROVE  /\ ~Held(l)'
           /\ \A k \in Lease \ {l} : leases'[k] = leases[k] /\ (Held(k)' <=> Held(k))
           /\ leases' \in [Lease -> LeaseRec \cup {None}]
           /\ UNCHANGED authorities
  <1>1. /\ leases' = [leases EXCEPT ![l].released = TRUE]
        /\ UNCHANGED authorities
    BY DEF dropHolder
  <1>2. /\ leases'[l] = [leases[l] EXCEPT !.released = TRUE]
        /\ \A k \in Lease \ {l} : leases'[k] = leases[k]
    BY <1>1 DEF IInv, TypeOK
  <1>3. leases'[l] \in LeaseRec /\ leases'[l].released
    BY <1>2, HeldLease DEF LeaseRec
  <1> QED
    BY <1>1, <1>2, <1>3 DEF Held, IInv, TypeOK

\* release.
LEMMA ReleasePreserves ==
    ASSUME IInv, NEW l \in Lease, Held(l), dropHolder(l)
    PROVE  IInv'
  <1>a. PICK e \in Entry, w \in Workspace :
           e = leases[l].entry /\ w = leases[l].authority.workspace
    BY HeldLease
  <1> DEFINE last == entries[e].holders = 1
  <1>1. /\ leases' = [leases EXCEPT ![l].released = TRUE]
        /\ entries' = IF last THEN [entries EXCEPT ![e] = None]
                              ELSE [entries EXCEPT ![e].holders = @ - 1]
        /\ activities' = IF last THEN [activities EXCEPT ![w] = None] ELSE activities
        /\ UNCHANGED authorities
    BY <1>a DEF dropHolder
  <1>2. /\ ~Held(l)'
        /\ \A k \in Lease \ {l} : leases'[k] = leases[k] /\ (Held(k)' <=> Held(k))
        /\ leases' \in [Lease -> LeaseRec \cup {None}]
    BY ReleasedLease
  <1>3. /\ activities[w] = e
        /\ entries[e] \in EntryRec
        /\ entries[e].holders = Cardinality(Holders(e))
        /\ l \in Holders(e)
    BY <1>a, HeldLease DEF Holders
  <1>4. /\ Holders(e)' = Holders(e) \ {l}
        /\ \A f : f # e => Holders(f)' = Holders(f)
    BY <1>2, <1>3 DEF Holders
  <1>5. Cardinality(Holders(e))' = entries[e].holders - 1
    <2>1. Cardinality(Holders(e) \ {l}) = Cardinality(Holders(e)) - 1
      BY <1>3, HoldersFinite, FS_RemoveElement
    <2> QED
      BY <2>1, <1>3, <1>4
  <1>6. \A v \in Workspace : activities[v] = e => v = w
    BY <1>a DEF IInv, EntryOfOneWorkspace
  <1>7. CASE last
    <2>1. /\ entries'[e] = None
          /\ \A f \in Entry \ {e} : entries'[f] = entries[f]
          /\ entries' \in [Entry -> EntryRec \cup {None}]
          /\ activities'[w] = None
          /\ \A v \in Workspace \ {w} : activities'[v] = activities[v]
          /\ activities' \in [Workspace -> Entry \cup {None}]
      BY <1>1, <1>3, <1>7 DEF IInv, TypeOK
    <2>2. \A k \in Lease : Held(k)' => /\ k # l /\ Held(k) /\ leases'[k] = leases[k]
                                       /\ leases[k].entry # e
                                       /\ leases[k].authority.workspace # w
      <3>1. Holders(e)' = {}
        <4>1. IsFiniteSet(Holders(e)) /\ Cardinality(Holders(e)) = 1
          BY <1>3, <1>7, HoldersFinite
        <4>2. PICK x : Holders(e) = {x}
          BY <4>1, FS_Singleton
        <4> QED
          BY <4>2, <1>3, <1>4
      <3>2. ASSUME NEW k \in Lease, Held(k)'
            PROVE  k # l /\ Held(k) /\ leases'[k] = leases[k] /\ leases[k].entry # e
        BY <3>1, <3>2, <1>2, <1>4 DEF Holders
      <3> QED
        BY <3>2, <1>3, HeldLease
    <2>3. TypeOK'
      BY <1>1, <1>2, <2>1 DEF IInv, TypeOK
    <2>4. HoldersCounted'
      <3>1. \A f \in Entry : entries'[f] # None => entries'[f].holders = Cardinality(Holders(f))'
        BY <1>4, <2>1 DEF IInv, HoldersCounted
      <3>2. ASSUME NEW v \in Workspace, activities'[v] # None
            PROVE  \E f : f = activities'[v] /\ Holders(f)' # {}
        <4>1. v \in Active /\ activities'[v] = activities[v] /\ activities[v] # e
          BY <3>2, <2>1, <1>6 DEF Active
        <4>2. Holders(activities[v]) # {}
          BY <4>1 DEF IInv, HoldersCounted
        <4> QED
          BY <4>1, <4>2, <1>4
      <3> QED
        BY <3>1, <3>2 DEF HoldersCounted, Active
    <2>5. HolderEntryMapped' /\ EntryOfOneWorkspace'
      <3> SUFFICES ASSUME NEW k \in Lease, Held(k)'
                   PROVE  /\ activities'[leases'[k].authority.workspace] = leases'[k].entry
                          /\ \A v \in Workspace : activities'[v] = leases'[k].entry
                                => leases'[k].authority.workspace = v
        BY DEF HolderEntryMapped, EntryOfOneWorkspace
      <3>1. leases'[k].entry # None
        BY <2>2, HeldLease, NoneAssumption
      <3> QED
        BY <3>1, <2>1, <2>2, HeldLease DEF IInv, EntryOfOneWorkspace
    <2>6. MappedInUse'
      BY <2>1, <1>6, NoneAssumption, MappedHasHolder DEF MappedInUse, Active
    <2>7. ExclusiveSingle'
      <3>1. ASSUME NEW f \in Entry, entries'[f] # None, entries'[f].exclusive
            PROVE  entries'[f].holders = 1
        BY <3>1, <2>1 DEF IInv, ExclusiveSingle
      <3>2. ASSUME NEW k \in Lease, Held(k)', leases'[k].exclusive
            PROVE  entries'[leases'[k].entry].exclusive
        BY <3>2, <2>1, <2>2, HeldLease DEF IInv, ExclusiveSingle
      <3> QED
        BY <3>1, <3>2 DEF ExclusiveSingle
    <2>8. CurrentUnlessInvalidated'
      BY <1>1, <2>1, <2>2, HeldLease DEF IInv, CurrentUnlessInvalidated
    <2> QED
      BY <2>3, <2>4, <2>5, <2>6, <2>7, <2>8 DEF IInv
  <1>8. CASE ~last
    <2>1. /\ entries'[e] = [entries[e] EXCEPT !.holders = @ - 1]
          /\ \A f \in Entry \ {e} : entries'[f] = entries[f]
          /\ activities' = activities
      BY <1>1, <1>3, <1>8 DEF IInv, TypeOK
    <2>2. entries[e].holders > 1
      <3>1. Cardinality(Holders(e)) # 0
        BY <1>3, HoldersFinite
      <3> QED
        BY <3>1, <1>3, <1>8 DEF EntryRec
    <2>3. /\ entries'[e] \in EntryRec
          /\ entries'[e].holders = entries[e].holders - 1
          /\ entries'[e].exclusive = entries[e].exclusive
          /\ entries'[e].invalidated = entries[e].invalidated
      BY <1>3, <2>1, <2>2 DEF EntryRec
    <2>4. entries' \in [Entry -> EntryRec \cup {None}]
      BY <1>1, <2>1, <2>3 DEF IInv, TypeOK
    <2>5. ~entries[e].exclusive
      BY <2>2, <1>3, NoneAssumption DEF IInv, ExclusiveSingle
    <2>6. TypeOK'
      BY <1>1, <1>2, <2>1, <2>4 DEF IInv, TypeOK
    <2>7. HoldersCounted'
      <3>1. \A f \in Entry : entries'[f] # None => entries'[f].holders = Cardinality(Holders(f))'
        BY <1>4, <1>5, <2>1, <2>3 DEF IInv, HoldersCounted
      <3>2. Holders(e)' # {}
        <4>1. Cardinality(Holders(e))' # 0
          BY <1>5, <2>2, <1>3 DEF EntryRec
        <4> QED
          BY <4>1, FS_EmptySet
      <3>3. \A v \in Active : Holders(activities[v])' # {}
        BY <3>2, <1>4, <2>1 DEF IInv, HoldersCounted
      <3> QED
        BY <3>1, <3>3, <2>1 DEF HoldersCounted, Active
    <2>8. HolderEntryMapped' /\ EntryOfOneWorkspace'
      BY <1>2, <2>1 DEF IInv, HolderEntryMapped, EntryOfOneWorkspace
    <2>9. MappedInUse'
      BY <2>1, <2>3, NoneAssumption, MappedHasHolder DEF MappedInUse, Active
    <2>10. ExclusiveSingle'
      <3>1. ASSUME NEW f \in Entry, entries'[f] # None, entries'[f].exclusive
            PROVE  entries'[f].holders = 1
        BY <3>1, <2>1, <2>3, <2>5 DEF IInv, ExclusiveSingle
      <3>2. ASSUME NEW k \in Lease, Held(k)', leases'[k].exclusive
            PROVE  entries'[leases'[k].entry].exclusive
        <4>1. leases'[k] = leases[k] /\ Held(k)
          BY <3>2, <1>2
        <4> QED
          BY <4>1, <3>2, <2>1, <2>5, HeldLease DEF IInv, ExclusiveSingle
      <3> QED
        BY <3>1, <3>2 DEF ExclusiveSingle
    <2>11. CurrentUnlessInvalidated'
      <3> SUFFICES ASSUME NEW k \in Lease, Held(k)', ~entries'[leases'[k].entry].invalidated
                   PROVE  authorities[leases'[k].authority.workspace] = leases'[k].authority
        BY <1>1 DEF CurrentUnlessInvalidated
      <3>1. leases'[k] = leases[k] /\ Held(k)
        BY <1>2
      <3>2. ~entries[leases[k].entry].invalidated
        BY <3>1, <2>1, <2>3, HeldLease
      <3> QED
        BY <3>1, <3>2 DEF IInv, CurrentUnlessInvalidated
    <2> QED
      BY <2>6, <2>7, <2>8, <2>9, <2>10, <2>11 DEF IInv
  <1> QED
    BY <1>7, <1>8

\* Every step of the registry preserves the invariant.
LEMMA NextPreserves ==
    ASSUME IInv, [Next]_vars
    PROVE  IInv'
  <1>1. CASE \E c \in Candidate : adoptBinding(c)
    BY <1>1, AdoptPreserves
  <1>2. CASE invalidateAll \/ \E c \in Candidate : retireBinding(c)
    BY <1>2, WithdrawPreserves
  <1>3. ASSUME NEW l \in Lease, NEW c \in Candidate, NEW exclusive \in BOOLEAN,
               NEW e \in Entry, acquireActivity(l, c, exclusive, e)
        PROVE  IInv'
    BY <1>3, JoinPreserves, NewEntryPreserves DEF acquireActivity
  <1>4. ASSUME UNCHANGED vars PROVE IInv'
    BY <1>4 DEF vars, IInv, TypeOK, HoldersCounted, HolderEntryMapped, MappedInUse,
       EntryOfOneWorkspace, ExclusiveSingle, CurrentUnlessInvalidated,
       Held, Holders, Active
  <1>5. ASSUME NEW l \in Lease, release(l) PROVE IInv'
    BY <1>4, <1>5, ReleasePreserves DEF release, Held
  <1> QED
    BY <1>1, <1>2, <1>3, <1>4, <1>5 DEF Next

\* The invariant holds throughout every behaviour.
THEOREM Invariance == Spec => []IInv
  <1>1. Init => IInv
    <2> SUFFICES ASSUME Init PROVE IInv
      OBVIOUS
    <2>1. \A l \in Lease : ~Held(l)
      BY DEF Init, Held
    <2>2. Active = {}
      BY DEF Init, Active
    <2> QED
      BY <2>1, <2>2 DEF Init, IInv, TypeOK, HoldersCounted, HolderEntryMapped,
         MappedInUse, EntryOfOneWorkspace, ExclusiveSingle, CurrentUnlessInvalidated
  <1>2. IInv /\ [Next]_vars => IInv'
    BY NextPreserves
  <1> QED
    BY <1>1, <1>2, PTL DEF Spec

\* The Maps, entries and leases keep their types.
THEOREM TypeCorrect == Spec => []TypeOK
  BY Invariance, PTL DEF IInv

\* Holder counts are exact, whatever the order of releases.
THEOREM HoldersAreCounted == Spec => []HoldersCounted
  BY Invariance, PTL DEF IInv

\* release() never removes the Map entry of another holder's activity.
THEOREM HoldersAreMapped == Spec => []HolderEntryMapped
  BY Invariance, PTL DEF IInv

\* A lease that was not invalidated is under the authority in force.
THEOREM CurrentLeases == Spec => []CurrentUnlessInvalidated
  BY Invariance, PTL DEF IInv

\* An exclusive lease is the only lease of its workspace.
THEOREM ExclusiveIsAlone == Spec => []ExclusiveAlone
  <1>1. IInv => ExclusiveAlone
    <2> SUFFICES ASSUME IInv, NEW l \in Lease, NEW k \in Lease, Held(l), Held(k), l # k,
                        leases[l].authority.workspace = leases[k].authority.workspace,
                        leases[l].exclusive
                 PROVE  FALSE
      BY DEF ExclusiveAlone
    <2>1. leases[l].entry = leases[k].entry
      BY HeldLease
    <2>2. entries[leases[l].entry].holders = 1
      BY HeldLease, NoneAssumption DEF IInv, ExclusiveSingle
    <2>3. Cardinality(Holders(leases[l].entry)) = 1
      BY <2>2, HeldLease
    <2>4. PICK x : Holders(leases[l].entry) = {x}
      BY <2>3, HoldersFinite, FS_Singleton
    <2>5. l \in Holders(leases[l].entry) /\ k \in Holders(leases[l].entry)
      BY <2>1 DEF Holders
    <2> QED
      BY <2>4, <2>5
  <1> QED
    BY <1>1, Invariance, PTL

\* A stale lease is never current again.
THEOREM StaleLeasesStayStale == Spec => StaleForever
  <1>1. ASSUME IInv, [Next]_vars, NEW l \in Lease, Held(l), ~isCurrent(l), Held(l)'
        PROVE  ~isCurrent(l)'
    <2>1. entries[leases[l].entry].invalidated
      BY <1>1, HeldLease DEF isCurrent, sameAuthority, IInv, CurrentUnlessInvalidated
    <2>2. leases[l].entry \in Entry /\ entries[leases[l].entry] # None
      BY <1>1, HeldLease, NoneAssumption
    <2>3. ASSUME NEW W \in SUBSET Workspace, Invalidate(W), UNCHANGED leases
          PROVE  ~isCurrent(l)'
      BY <2>1, <2>2, <2>3, <1>1, InvalidateEffect DEF isCurrent
    <2>4. ASSUME NEW c \in Candidate, adoptBinding(c) PROVE ~isCurrent(l)'
      <3>1. CASE adoptFirst(requireAuthority(c))
        BY <3>1, <2>4, <2>1 DEF adoptBinding, adoptFirst, isCurrent
      <3>2. CASE adoptSuccessor(requireAuthority(c))
        BY <3>2, <2>3, <2>4, AuthorityOfCandidate DEF adoptBinding, adoptSuccessor
      <3> QED
        BY <3>1, <3>2, <2>4 DEF adoptBinding
    <2>5. CASE invalidateAll
      BY <2>5, <2>3 DEF invalidateAll
    <2>6. ASSUME NEW c \in Candidate, retireBinding(c) PROVE ~isCurrent(l)'
      BY <2>6, <2>3, AuthorityOfCandidate DEF retireBinding
    <2>7. ASSUME NEW k \in Lease, NEW c \in Candidate, NEW exclusive \in BOOLEAN,
                 NEW e \in Entry, acquireActivity(k, c, exclusive, e)
          PROVE  ~isCurrent(l)'
      <3>1. leases'[l] = leases[l]
        BY <2>7, <1>1, AcquireEffect
      <3>2. e # leases[l].entry
        BY <2>1, <2>2, <2>7 DEF acquireActivity, joinEntry, newEntry, Mismatched
      <3>3. entries'[leases[l].entry] = entries[leases[l].entry]
        BY <3>2, <2>2, <2>7, <1>1 DEF acquireActivity, joinEntry, newEntry, IInv, TypeOK
      <3> QED
        BY <3>1, <3>3, <2>1 DEF isCurrent
    <2>8. ASSUME UNCHANGED vars PROVE ~isCurrent(l)'
      BY <2>8, <1>1 DEF vars, isCurrent, Held
    <2>9. ASSUME NEW k \in Lease, Held(k), dropHolder(k) PROVE ~isCurrent(l)'
      <3>1. k # l
        BY <2>9, <1>1, ReleasedLease
      <3>2. leases'[l] = leases[l] /\ leases[k].entry \in Entry
        BY <3>1, <2>9, <1>1, HeldLease, ReleasedLease
      <3>3. HolderEntryMapped'
        BY <2>9, <1>1, ReleasePreserves DEF IInv
      <3>4. MappedInUse' /\ TypeOK'
        BY <2>9, <1>1, ReleasePreserves DEF IInv
      <3>5. entries'[leases[l].entry] # None
        <4>1. activities'[leases[l].authority.workspace] = leases[l].entry
          BY <3>2, <3>3, <1>1 DEF HolderEntryMapped
        <4>2. leases[l].authority.workspace \in Workspace
          BY <1>1, HeldLease
        <4> QED
          BY <4>1, <4>2, <2>2, <3>4, NoneAssumption DEF MappedInUse, Active
      <3>6. entries'[leases[l].entry].invalidated
        <4>1. \/ entries' = [entries EXCEPT ![leases[k].entry] = None]
              \/ entries' = [entries EXCEPT ![leases[k].entry].holders = @ - 1]
          BY <2>9 DEF dropHolder
        <4>2. entries[leases[l].entry] \in EntryRec
          BY <1>1, HeldLease
        <4> QED
          BY <4>1, <4>2, <3>2, <3>5, <2>1, <2>2, <1>1 DEF IInv, TypeOK, EntryRec
      <3> QED
        BY <3>2, <3>6 DEF isCurrent
    <2>10. ASSUME NEW k \in Lease, release(k) PROVE ~isCurrent(l)'
      BY <2>10, <2>8, <2>9 DEF release, Held
    <2> QED
      BY <1>1, <2>4, <2>5, <2>6, <2>7, <2>8, <2>10 DEF Next
  <1>2. IInv /\ [Next]_vars =>
           [\A l \in Lease : Held(l) /\ ~isCurrent(l) => ~Held(l)' \/ ~isCurrent(l)']_vars
    BY <1>1
  <1> QED
    BY <1>2, Invariance, PTL DEF Spec, StaleForever

\* Adding an element adds at most one.
LEMMA OneMore ==
    ASSUME NEW S, NEW x, IsFiniteSet(S)
    PROVE  Cardinality(S \cup {x}) <= Cardinality(S) + 1
  <1>1. Cardinality(S) \in Nat
    BY FS_CardinalityType
  <1>2. Cardinality(S \cup {x}) = IF x \in S THEN Cardinality(S) ELSE Cardinality(S) + 1
    BY FS_AddElement
  <1> QED
    BY <1>1, <1>2

\* The two limits are kept.
THEOREM LimitsKept == Spec => []WithinLimits
  <1>1. \A S \in SUBSET Workspace : IsFiniteSet(S) /\ Cardinality(S) \in Nat
    BY FS_Subset, FS_CardinalityType, BoundAssumption
  <1>2. ASSUME NEW S \in SUBSET Workspace, NEW T \in SUBSET S
        PROVE  Cardinality(T) <= Cardinality(S)
    BY <1>1, FS_Subset
  <1>3. Init => WithinLimits
    BY FS_EmptySet, BoundAssumption DEF Init, WithinLimits, Adopted, Active
  <1>4. ASSUME IInv, WithinLimits, [Next]_vars PROVE WithinLimits'
    <2>0. /\ Adopted \in SUBSET Workspace /\ Adopted' \in SUBSET Workspace
          /\ Active \in SUBSET Workspace /\ Active' \in SUBSET Workspace
      BY DEF Adopted, Active
    <2>1. ASSUME Adopted' \subseteq Adopted PROVE Cardinality(Adopted)' <= MaxWorkspaces
      BY <2>0, <2>1, <1>1, <1>2, <1>4, BoundAssumption DEF WithinLimits
    <2>2. ASSUME Active' \subseteq Active PROVE Cardinality(Active)' <= MaxActiveWorkspaces
      BY <2>0, <2>2, <1>1, <1>2, <1>4, BoundAssumption DEF WithinLimits
    <2>3. ASSUME NEW W \in SUBSET Workspace, Invalidate(W) PROVE Active' \subseteq Active
      BY <2>3 DEF Invalidate, Active
    <2>4. ASSUME NEW c \in Candidate, adoptBinding(c) PROVE WithinLimits'
      <3>1. /\ authorities' = [authorities EXCEPT ![c.workspace] = requireAuthority(c)]
            /\ c.workspace \in Workspace
            /\ requireAuthority(c).workspace = c.workspace
        BY <2>4, AuthorityOfCandidate DEF adoptBinding
      <3>2. CASE adoptFirst(requireAuthority(c))
        <4>1. Adopted' \subseteq Adopted \cup {c.workspace}
          BY <3>1, <1>4 DEF Adopted, IInv, TypeOK
        <4>2. Cardinality(Adopted \cup {c.workspace}) <= Cardinality(Adopted) + 1
          BY <2>0, <1>1, OneMore
        <4>3. Cardinality(Adopted)' <= Cardinality(Adopted \cup {c.workspace})
          BY <4>1, <2>0, <3>1, <1>2
        <4>4. Cardinality(Adopted)' <= MaxWorkspaces
          <5>1. Adopted \cup {c.workspace} \in SUBSET Workspace
            BY <2>0, <3>1
          <5>2. Cardinality(Adopted) < MaxWorkspaces
            BY <3>2 DEF adoptFirst
          <5> QED
            BY <5>1, <5>2, <4>2, <4>3, <2>0, <1>1, BoundAssumption
        <4>5. Active' = Active
          BY <3>2 DEF adoptFirst, Active
        <4> QED
          BY <4>4, <4>5, <2>2 DEF WithinLimits
      <3>3. CASE adoptSuccessor(requireAuthority(c))
        <4>1. Adopted' \subseteq Adopted
          BY <3>1, <3>3, <1>4 DEF adoptSuccessor, Adopted, IInv, TypeOK
        <4>2. Active' \subseteq Active
          BY <3>1, <3>3, <2>3 DEF adoptSuccessor
        <4> QED
          BY <4>1, <4>2, <2>1, <2>2 DEF WithinLimits
      <3> QED
        BY <3>2, <3>3, <2>4 DEF adoptBinding
    <2>5. CASE invalidateAll
      <3>1. Adopted' \subseteq Adopted
        BY <2>5 DEF invalidateAll, Adopted
      <3> QED
        BY <3>1, <2>1, <2>2, <2>3, <2>5 DEF invalidateAll, WithinLimits
    <2>6. ASSUME NEW c \in Candidate, retireBinding(c) PROVE WithinLimits'
      <3>1. Adopted' \subseteq Adopted
        BY <2>6, <1>4 DEF retireBinding, Adopted, IInv, TypeOK
      <3>2. Active' \subseteq Active
        BY <2>6, <2>3, AuthorityOfCandidate DEF retireBinding
      <3> QED
        BY <3>1, <3>2, <2>1, <2>2 DEF WithinLimits
    <2>7. ASSUME NEW l \in Lease, NEW c \in Candidate, NEW exclusive \in BOOLEAN,
                 NEW e \in Entry, acquireActivity(l, c, exclusive, e)
          PROVE  WithinLimits'
      <3>1. Adopted' = Adopted /\ c.workspace \in Workspace
        BY <2>7, AuthorityOfCandidate DEF acquireActivity, Adopted
      <3>2. CASE joinEntry(c, exclusive, e)
        BY <3>1, <3>2, <2>1, <2>2 DEF joinEntry, Active, WithinLimits
      <3>3. CASE newEntry(c, exclusive, e)
        <4> DEFINE others == Active \ {c.workspace}
        <4>1. Active' \subseteq others \cup {c.workspace}
          BY <3>3, <3>1, <1>4 DEF newEntry, Active, IInv, TypeOK
        <4>2. others \in SUBSET Workspace /\ others \cup {c.workspace} \in SUBSET Workspace
          BY <2>0, <3>1
        <4>3. Cardinality(others) < MaxActiveWorkspaces
          BY <3>3 DEF newEntry
        <4> HIDE DEF others
        <4>4. Cardinality(others \cup {c.workspace}) <= Cardinality(others) + 1
          BY <4>2, <1>1, OneMore
        <4>5. Cardinality(Active)' <= Cardinality(others \cup {c.workspace})
          BY <4>1, <4>2, <1>2
        <4>6. Cardinality(Active)' <= MaxActiveWorkspaces
          BY <4>2, <4>3, <4>4, <4>5, <2>0, <1>1, BoundAssumption
        <4> QED
          BY <4>6, <3>1, <2>1 DEF WithinLimits
      <3> QED
        BY <3>2, <3>3, <2>7 DEF acquireActivity
    <2>8. ASSUME UNCHANGED vars PROVE WithinLimits'
      BY <2>8, <1>4 DEF vars, WithinLimits, Adopted, Active
    <2>9. ASSUME NEW l \in Lease, Held(l), dropHolder(l) PROVE WithinLimits'
      <3>1. Adopted' = Adopted
        BY <2>9 DEF dropHolder, Adopted
      <3>2. Active' \subseteq Active
        BY <2>9, <1>4 DEF dropHolder, Active, IInv, TypeOK
      <3> QED
        BY <3>1, <3>2, <2>1, <2>2 DEF WithinLimits
    <2>10. ASSUME NEW l \in Lease, release(l) PROVE WithinLimits'
      BY <2>8, <2>9, <2>10 DEF release, Held
    <2> QED
      BY <1>4, <2>4, <2>5, <2>6, <2>7, <2>8, <2>10 DEF Next
  <1>5. IInv /\ WithinLimits /\ [Next]_vars => WithinLimits'
    BY <1>4
  <1> QED
    BY <1>3, <1>5, Invariance, PTL DEF Spec

\* The generations of an authority are numbers or undefined.
LEMMA AuthorityGenerations ==
    ASSUME NEW a \in Authority, NEW f \in GenField
    PROVE  a.gen[f] \in Int
  <1>1. PICK c \in Candidate : a = requireAuthority(c)
    BY DEF Authority
  <1>2. c.gen[f] \in Nat \cup {Undefined}
    BY CandidateAssumption
  <1>3. a.gen[f] = IF ~IsV3(c) /\ f = "fenceGeneration" THEN Undefined ELSE c.gen[f]
    BY <1>1 DEF requireAuthority
  <1> QED
    BY <1>2, <1>3 DEF Undefined

\* A bound workspace only moves forward.
THEOREM AuthoritiesMoveForward == Spec => AuthorityMovesForward
  <1> DEFINE Forward(w) ==
        authorities[w] # None /\ authorities'[w] # None =>
           /\ \A f \in GenField : ~Less(authorities'[w].gen[f], authorities[w].gen[f])
           /\ authorities'[w].ident # authorities[w].ident =>
                 mappingAdvanced(authorities[w], authorities'[w])
  <1>1. ASSUME IInv, NEW w \in Workspace, authorities'[w] = authorities[w]
        PROVE  Forward(w)
    <2>1. CASE authorities[w] = None
      BY <2>1
    <2>2. CASE authorities[w] # None
      <3>1. authorities[w] \in Authority
        BY <2>2, <1>1 DEF IInv, TypeOK
      <3>2. \A f \in GenField : ~Less(authorities[w].gen[f], authorities[w].gen[f])
        BY <3>1, AuthorityGenerations DEF Less
      <3> QED
        BY <3>2, <1>1
    <2> QED
      BY <2>1, <2>2
  <1>2. ASSUME IInv, [Next]_vars, NEW w \in Workspace, authorities'[w] # authorities[w]
        PROVE  Forward(w)
    <2>1. ASSUME NEW c \in Candidate, adoptBinding(c) PROVE Forward(w)
      <3> DEFINE a == requireAuthority(c)
      <3>1. /\ authorities' = [authorities EXCEPT ![c.workspace] = a]
            /\ a.workspace = c.workspace
        BY <2>1, AuthorityOfCandidate DEF adoptBinding
      <3>2. w = c.workspace /\ authorities'[w] = a
        BY <3>1, <1>2 DEF IInv, TypeOK
      <3> HIDE DEF a
      <3>3. CASE adoptFirst(a)
        BY <3>1, <3>2, <3>3 DEF adoptFirst
      <3>4. CASE adoptSuccessor(a)
        <4>1. ~regresses(authorities[w], a)
          BY <3>1, <3>2, <3>4 DEF adoptSuccessor
        <4>2. a.ident # authorities[w].ident => mappingAdvanced(authorities[w], a)
          BY <3>1, <3>2, <3>4 DEF adoptSuccessor, authorityChanged
        <4> QED
          BY <4>1, <4>2, <3>2 DEF regresses
      <3> QED
        BY <3>3, <3>4, <2>1 DEF adoptBinding, a
    <2>2. CASE invalidateAll
      BY <2>2 DEF invalidateAll
    <2>3. ASSUME NEW c \in Candidate, retireBinding(c) PROVE Forward(w)
      <3>1. authorities'[w] = None
        BY <2>3, <1>2 DEF retireBinding, IInv, TypeOK
      <3> QED
        BY <3>1
    <2>4. ASSUME UNCHANGED authorities PROVE Forward(w)
      BY <2>4, <1>2
    <2> QED
      BY <1>2, <2>1, <2>2, <2>3, <2>4
      DEF Next, vars, acquireActivity, release, dropHolder
  <1>3. IInv /\ [Next]_vars => [\A w \in Workspace : Forward(w)]_vars
    BY <1>1, <1>2
  <1> QED
    BY <1>3, Invariance, PTL DEF Spec, AuthorityMovesForward

-----------------------------------------------------------------------------
(* Refinement of WorkspaceFence. *)

\* An unreleased lease is current until its entry is invalidated.
LEMMA CurrentWhileValid ==
    ASSUME IInv, NEW l \in Lease, Held(l)
    PROVE  isCurrent(l) <=> ~entries[leases[l].entry].invalidated
  BY HeldLease DEF isCurrent, sameAuthority, IInv, CurrentUnlessInvalidated

\* The grant of an unreleased lease: stale once its entry is invalidated.
Granted(l, stale) == [authority |-> leases[l].authority,
                      exclusive |-> leases[l].exclusive,
                      stale     |-> stale]

\* What the fence sees of a lease: nothing once it is released, else its grant.
LEMMA GrantValue ==
    ASSUME IInv, NEW l \in Lease
    PROVE  /\ ~Held(l) => GrantOf(l) = None
           /\ Held(l) /\ isCurrent(l) => GrantOf(l) = Granted(l, FALSE)
           /\ Held(l) /\ ~isCurrent(l) => GrantOf(l) = Granted(l, TRUE)
           /\ GrantOf(l) # None => Held(l)
           /\ Held(l) => /\ GrantOf(l) \in GrantRec
                         /\ GrantOf(l) # None
                         /\ GrantOf(l).authority = leases[l].authority
                         /\ Fence!Stale(GrantOf(l)) = Granted(l, TRUE)
                         /\ ~isCurrent(l) => GrantOf(l).stale
  <1>1. ~Held(l) => GrantOf(l) = None
    BY DEF GrantOf
  <1>2. Held(l) /\ isCurrent(l) => GrantOf(l) = Granted(l, FALSE)
    BY DEF GrantOf, Granted
  <1>3. Held(l) /\ ~isCurrent(l) => GrantOf(l) = Granted(l, TRUE)
    BY DEF GrantOf, Granted
  <1>4. ASSUME Held(l), NEW b \in BOOLEAN
        PROVE  /\ Granted(l, b) \in GrantRec
               /\ Granted(l, b).authority = leases[l].authority
               /\ Granted(l, b).stale = b
               /\ Fence!Stale(Granted(l, b)) = Granted(l, TRUE)
    <2>1. leases[l].authority \in Authority /\ leases[l].exclusive \in BOOLEAN
      BY <1>4, HeldLease DEF LeaseRec
    <2> QED
      BY <2>1 DEF Granted, GrantRec, Fence!Stale
  <1>5. ASSUME Held(l)
        PROVE  /\ GrantOf(l) \in GrantRec
               /\ GrantOf(l).authority = leases[l].authority
               /\ Fence!Stale(GrantOf(l)) = Granted(l, TRUE)
               /\ ~isCurrent(l) => GrantOf(l).stale
    BY <1>2, <1>3, <1>4, <1>5
  <1> QED
    BY <1>1, <1>2, <1>3, <1>5, NoneAssumption

\* Replacing or withdrawing authorities with their activities invalidated is
\* making the grants of these workspaces stale.
LEMMA InvalidateRefines ==
    ASSUME IInv, IInv', NEW W \in SUBSET Workspace, Invalidate(W), UNCHANGED leases
    PROVE  Fence!MakeStale(W)
  <1>1. ASSUME NEW l \in Lease
        PROVE  GrantOf(l)' = IF \E w \in W : l \in Fence!InWorkspace(w)
                             THEN Fence!Stale(GrantOf(l)) ELSE GrantOf(l)
    <2>0. Held(l)' <=> Held(l)
      BY DEF Held
    <2>1. CASE ~Held(l)
      BY <2>0, <2>1, GrantValue DEF Fence!InWorkspace, GrantOf
    <2>2. CASE Held(l) /\ leases[l].authority.workspace \in W
      <3>1. entries'[leases[l].entry].invalidated
        BY <2>2, HeldLease, NoneAssumption, InvalidateEffect
      <3>2. ~isCurrent(l)'
        BY <3>1 DEF isCurrent
      <3>3. GrantOf(l)' = Granted(l, TRUE)
        BY <3>2, <2>0, <2>2 DEF GrantOf, Granted
      <3>4. l \in Fence!InWorkspace(leases[l].authority.workspace)
        BY <2>2, GrantValue DEF Fence!InWorkspace
      <3> QED
        BY <2>2, <3>3, <3>4, GrantValue
    <2>3. CASE Held(l) /\ leases[l].authority.workspace \notin W
      <3>1. entries'[leases[l].entry] = entries[leases[l].entry]
        BY <2>3, HeldLease DEF Invalidate, IInv, EntryOfOneWorkspace
      <3>2. isCurrent(l)' <=> ~entries'[leases[l].entry].invalidated
        <4>1. /\ entries'[leases'[l].entry].invalidated => ~isCurrent(l)'
          BY DEF isCurrent
        <4>2. ~entries'[leases'[l].entry].invalidated => isCurrent(l)'
          BY <2>0, <2>3 DEF isCurrent, sameAuthority, IInv, CurrentUnlessInvalidated,
             HolderEntryMapped
        <4> QED
          BY <4>1, <4>2
      <3>3. isCurrent(l)' <=> isCurrent(l)
        BY <3>1, <3>2, <2>3, CurrentWhileValid
      <3>4. GrantOf(l)' = GrantOf(l)
        BY <3>3, <2>0, <2>3 DEF GrantOf
      <3>5. \A w \in W : l \notin Fence!InWorkspace(w)
        BY <2>3, GrantValue DEF Fence!InWorkspace
      <3> QED
        BY <3>4, <3>5
    <2> QED
      BY <2>1, <2>2, <2>3
  <1> QED
    BY <1>1 DEF Fence!MakeStale

\* adoptBinding is Bind.
LEMMA AdoptRefines ==
    ASSUME IInv, IInv', NEW c \in Candidate, adoptBinding(c)
    PROVE  Fence!Next
  <1> DEFINE a == requireAuthority(c)
  <1>1. /\ a \in Authority /\ a.workspace = c.workspace /\ c.workspace \in Workspace
        /\ authorities' = [authorities EXCEPT ![c.workspace] = a]
        /\ UNCHANGED leases
    BY AuthorityOfCandidate DEF adoptBinding
  <1> HIDE DEF a
  <1>2. CASE adoptFirst(a)
    <2>1. UNCHANGED <<activities, entries>> /\ authorities[c.workspace] = None
      BY <1>1, <1>2 DEF adoptFirst
    <2>2. ASSUME NEW l \in Lease
          PROVE  GrantOf(l)' = IF \E w \in {c.workspace} : l \in Fence!InWorkspace(w)
                               THEN Fence!Stale(GrantOf(l)) ELSE GrantOf(l)
      <3>0. Held(l)' <=> Held(l)
        BY <1>1 DEF Held
      <3>1. CASE ~Held(l)
        BY <3>0, <3>1, GrantValue DEF Fence!InWorkspace, GrantOf
      <3>2. CASE Held(l) /\ leases[l].authority.workspace = c.workspace
        <4>1. entries[leases[l].entry].invalidated
          BY <2>1, <3>2, HeldLease, NoneAssumption DEF IInv, CurrentUnlessInvalidated
        <4>2. ~isCurrent(l)'
          BY <4>1, <2>1, <1>1 DEF isCurrent
        <4>3. GrantOf(l)' = Granted(l, TRUE)
          BY <4>2, <3>0, <3>2, <1>1 DEF GrantOf, Granted
        <4>4. l \in Fence!InWorkspace(c.workspace)
          BY <3>2, GrantValue DEF Fence!InWorkspace
        <4> QED
          BY <3>2, <4>3, <4>4, GrantValue
      <3>3. CASE Held(l) /\ leases[l].authority.workspace # c.workspace
        <4>1. isCurrent(l)' <=> isCurrent(l)
          BY <3>0, <3>3, <2>1, <1>1, HeldLease DEF isCurrent, sameAuthority, IInv, TypeOK
        <4>2. GrantOf(l)' = GrantOf(l)
          BY <4>1, <3>0, <3>3, <1>1 DEF GrantOf
        <4>3. l \notin Fence!InWorkspace(c.workspace)
          BY <3>3, GrantValue DEF Fence!InWorkspace
        <4> QED
          BY <4>2, <4>3
      <3> QED
        BY <3>1, <3>2, <3>3
    <2>3. Fence!MakeStale({c.workspace})
      BY <2>2 DEF Fence!MakeStale
    <2> QED
      BY <2>1, <2>3, <1>1, NoneAssumption DEF Fence!Next, Fence!Bind
  <1>3. CASE adoptSuccessor(a)
    <2>1. authorities[c.workspace] # a /\ Invalidate({c.workspace})
      BY <1>1, <1>3 DEF adoptSuccessor, sameAuthority
    <2>2. Fence!MakeStale({c.workspace})
      BY <2>1, <1>1, InvalidateRefines
    <2> QED
      BY <2>1, <2>2, <1>1 DEF Fence!Next, Fence!Bind
  <1> QED
    BY <1>2, <1>3 DEF adoptBinding, a

\* invalidateAll and retireBinding are Withdraw.
LEMMA WithdrawRefines ==
    ASSUME IInv, IInv', invalidateAll \/ \E c \in Candidate : retireBinding(c)
    PROVE  Fence!Next
  <1>1. CASE invalidateAll
    <2>1. Fence!MakeStale(Workspace)
      BY <1>1, InvalidateRefines DEF invalidateAll
    <2> QED
      BY <1>1, <2>1 DEF invalidateAll, Fence!Next, Fence!Withdraw
  <1>2. ASSUME NEW c \in Candidate, retireBinding(c) PROVE Fence!Next
    <2>1. c.workspace \in Workspace
      BY AuthorityOfCandidate
    <2>2. Fence!MakeStale({c.workspace})
      BY <2>1, <1>2, InvalidateRefines DEF retireBinding
    <2>3. authorities' = [w \in Workspace |->
                             IF w \in {c.workspace} THEN None ELSE authorities[w]]
      BY <2>1, <1>2 DEF retireBinding, IInv, TypeOK
    <2> QED
      BY <2>1, <2>2, <2>3 DEF Fence!Next, Fence!Withdraw
  <1> QED
    BY <1>1, <1>2

\* A lease whose object and entry's flag are unchanged keeps its grant.
LEMMA SameGrant ==
    ASSUME IInv, IInv', NEW k \in Lease, leases'[k] = leases[k],
           Held(k) => (entries'[leases[k].entry].invalidated
                         <=> entries[leases[k].entry].invalidated)
    PROVE  GrantOf(k)' = GrantOf(k)
  <1>1. Held(k)' <=> Held(k)
    BY DEF Held
  <1>2. ASSUME Held(k) PROVE isCurrent(k)' <=> isCurrent(k)
    <2>1. isCurrent(k) <=> ~entries[leases[k].entry].invalidated
      BY <1>2, CurrentWhileValid
    <2>2. isCurrent(k)' <=> ~entries'[leases[k].entry].invalidated
      <3>1. entries'[leases[k].entry].invalidated => ~isCurrent(k)'
        BY DEF isCurrent
      <3>2. ~entries'[leases[k].entry].invalidated => isCurrent(k)'
        BY <1>1, <1>2 DEF isCurrent, sameAuthority, IInv, CurrentUnlessInvalidated,
           HolderEntryMapped
      <3> QED
        BY <3>1, <3>2
    <2> QED
      BY <2>1, <2>2, <1>2
  <1> QED
    BY <1>1, <1>2 DEF GrantOf

\* acquireActivity is Admit.
LEMMA AcquireRefines ==
    ASSUME IInv, IInv', NEW l \in Lease, NEW c \in Candidate, NEW exclusive \in BOOLEAN,
           NEW e \in Entry, acquireActivity(l, c, exclusive, e)
    PROVE  Fence!Next
  <1> DEFINE a == requireAuthority(c)
             new == [authority |-> a, exclusive |-> exclusive, stale |-> FALSE]
  <1>1. /\ a \in Authority /\ a.workspace = c.workspace
        /\ a = authorities[c.workspace] /\ c.workspace \in Workspace
    BY AuthorityOfCandidate DEF acquireActivity, sameAuthority
  <1> HIDE DEF a
  <1>2. GrantOf(l) = None
    BY AcquireEffect, GrantValue
  <1>3. ~entries'[e].invalidated /\ entries'[e] # None
    <2>1. CASE joinEntry(c, exclusive, e)
      BY <2>1, JoinEffect, NoneAssumption
    <2>2. CASE newEntry(c, exclusive, e)
      <3> DEFINE x == [identity |-> EntryIdentity(c), holders |-> 1,
                       exclusive |-> exclusive, invalidated |-> FALSE]
      <3>1. x \in EntryRec /\ ~x.invalidated
        BY AuthorityOfCandidate DEF EntryRec
      <3>2. entries'[e] = x
        BY <2>2 DEF newEntry, IInv, TypeOK
      <3> HIDE DEF x
      <3> QED
        BY <3>1, <3>2, NoneAssumption
    <2> QED
      BY <2>1, <2>2 DEF acquireActivity
  <1>4. GrantOf(l)' = new
    <2>1. isCurrent(l)'
      BY <1>3, AcquireEffect DEF isCurrent, sameAuthority, IInv, HolderEntryMapped,
         CurrentUnlessInvalidated
    <2>2. leases'[l].authority = a /\ leases'[l].exclusive = exclusive /\ Held(l)'
      BY <1>1, AcquireEffect
    <2> QED
      BY <2>1, <2>2 DEF GrantOf
  <1>5. ASSUME NEW k \in Lease \ {l} PROVE GrantOf(k)' = GrantOf(k)
    <2>1. leases'[k] = leases[k]
      BY AcquireEffect
    <2>2. ASSUME Held(k)
          PROVE  entries'[leases[k].entry].invalidated <=> entries[leases[k].entry].invalidated
      <3>1. CASE leases[k].entry = e
        <4>1. joinEntry(c, exclusive, e)
          BY <3>1, <2>2, HeldLease, NoneAssumption DEF acquireActivity, newEntry
        <4> QED
          BY <3>1, <4>1, <1>3 DEF joinEntry, Mismatched
      <3>2. CASE leases[k].entry # e
        BY <3>2, <2>2, HeldLease DEF acquireActivity, joinEntry, newEntry, IInv, TypeOK
      <3> QED
        BY <3>1, <3>2
    <2> QED
      BY <2>1, <2>2, SameGrant
  <1>6. ASSUME NEW k \in Fence!InWorkspace(c.workspace)
        PROVE  ~GrantOf(k).stale /\ ~GrantOf(k).exclusive /\ ~exclusive
    <2>1. k \in Lease /\ Held(k) /\ leases[k].authority.workspace = c.workspace
      BY <1>6, GrantValue DEF Fence!InWorkspace
    <2>2. activities[c.workspace] = leases[k].entry /\ activities[c.workspace] # None
      BY <2>1, HeldLease, NoneAssumption
    <2>3. joinEntry(c, exclusive, e)
      BY <2>2, <1>1, MappedHasHolder DEF acquireActivity, newEntry, EntryRec
    <2>4. /\ leases[k].entry = e
          /\ ~entries[e].invalidated /\ ~entries[e].exclusive /\ ~exclusive
      BY <2>2, <2>3, <1>1, MappedHasHolder DEF joinEntry, Mismatched
    <2>5. isCurrent(k)
      BY <2>1, <2>4, CurrentWhileValid
    <2>6. ~leases[k].exclusive
      BY <2>1, <2>4 DEF IInv, ExclusiveSingle
    <2>7. GrantOf(k) = Granted(k, FALSE)
      BY <2>1, <2>5, GrantValue
    <2> QED
      BY <2>4, <2>6, <2>7 DEF Granted
  <1>7. [h \in Lease |-> GrantOf(h)]' = [[h \in Lease |-> GrantOf(h)] EXCEPT ![l] = new]
    BY <1>4, <1>5
  <1>8. Fence!Admit(l, a, exclusive)
    <2>1. \A k \in Fence!InWorkspace(a.workspace) : k \in Lease
      BY DEF Fence!InWorkspace
    <2> QED
      BY <1>1, <1>2, <1>6, <1>7, <2>1, AcquireEffect DEF Fence!Admit
  <1> QED
    BY <1>1, <1>8 DEF Fence!Next

\* release is End.
LEMMA ReleaseRefines ==
    ASSUME IInv, IInv', NEW l \in Lease, Held(l), dropHolder(l)
    PROVE  Fence!Next
  <1>1. GrantOf(l) # None
    BY GrantValue
  <1>2. GrantOf(l)' = None
    BY ReleasedLease DEF GrantOf
  <1>3. ASSUME NEW k \in Lease \ {l} PROVE GrantOf(k)' = GrantOf(k)
    <2>1. leases'[k] = leases[k] /\ (Held(k)' <=> Held(k))
      BY ReleasedLease
    <2>2. ASSUME Held(k)
          PROVE  entries'[leases[k].entry].invalidated <=> entries[leases[k].entry].invalidated
      <3>1. /\ leases[k].entry \in Entry /\ leases[l].entry \in Entry
            /\ entries[leases[k].entry] \in EntryRec
        BY <2>2, HeldLease
      <3>2. entries'[leases[k].entry] # None
        <4>1. activities'[leases[k].authority.workspace] = leases[k].entry
          BY <2>1, <2>2 DEF IInv, HolderEntryMapped
        <4>2. leases[k].authority.workspace \in Workspace
          BY <2>2, HeldLease
        <4> QED
          BY <4>1, <4>2, <3>1, NoneAssumption DEF IInv, MappedInUse, Active
      <3>3. \/ entries' = [entries EXCEPT ![leases[l].entry] = None]
            \/ entries' = [entries EXCEPT ![leases[l].entry].holders = @ - 1]
        BY DEF dropHolder
      <3> QED
        BY <3>1, <3>2, <3>3 DEF IInv, TypeOK, EntryRec
    <2> QED
      BY <2>1, <2>2, SameGrant
  <1>4. [h \in Lease |-> GrantOf(h)]' = [[h \in Lease |-> GrantOf(h)] EXCEPT ![l] = None]
    BY <1>2, <1>3
  <1>5. Fence!End(l)
    BY <1>1, <1>4, ReleasedLease DEF Fence!End
  <1> QED
    BY <1>5 DEF Fence!Next

\* The registry implements the fenced lock.
THEOREM RegistryImplementsFence == Spec => ImplementsFence
  <1>1. Init => Fence!Init
    BY DEF Init, Fence!Init, GrantOf, Held
  <1>2. ASSUME IInv, IInv', [Next]_vars PROVE [Fence!Next]_(Fence!avars)
    <2>1. ASSUME UNCHANGED vars PROVE UNCHANGED Fence!avars
      <3>1. UNCHANGED authorities
        BY <2>1 DEF vars
      <3>2. ASSUME NEW l \in Lease PROVE GrantOf(l)' = GrantOf(l)
        BY <2>1, <1>2, SameGrant DEF vars
      <3>3. [h \in Lease |-> GrantOf(h)]' = [h \in Lease |-> GrantOf(h)]
        BY <3>2
      <3> QED
        BY <3>1, <3>3 DEF Fence!avars
    <2>2. ASSUME NEW l \in Lease, release(l) PROVE [Fence!Next]_(Fence!avars)
      BY <2>1, <2>2, <1>2, ReleaseRefines DEF release, Held
    <2> QED
      BY <1>2, <2>1, <2>2, AdoptRefines, WithdrawRefines, AcquireRefines DEF Next
  <1>3. IInv /\ IInv' /\ [Next]_vars => [Fence!Next]_(Fence!avars)
    BY <1>2
  <1> QED
    BY <1>1, <1>3, Invariance, PTL DEF Spec, ImplementsFence, Fence!Spec

\* The accounts of the registry are exact.
THEOREM AccountsAreExact == Spec => []LeasesAccounted
  BY TypeCorrect, HoldersAreCounted, HoldersAreMapped, LimitsKept, PTL
  DEF LeasesAccounted
=============================================================================
