------------------------ MODULE ReceiptBindingProofs ------------------------
(***************************************************************************)
(* Proofs about module ReceiptBinding, for any number of sockets, bindings *)
(* and admissions, any authorities and inventories.  A binding in the map  *)
(* holds the floor of its workspace, because whatever moves the floor to   *)
(* another authority takes the binding out of the map in the same step.    *)
(* An authority names one socket and one binding id, so what the registry  *)
(* has adopted for a workspace tells whose proof is in force; one socket   *)
(* at a time is connected, so a new proof displaces no other in service.   *)
(* A bind that a cascade overtook gets no proof, because the socket it     *)
(* waits for has been fenced in the same step and never is in service      *)
(* again.                                                                  *)
(***************************************************************************)
EXTENDS ReceiptBinding, TLAPS

-----------------------------------------------------------------------------
(* The inductive invariant.                                                *)

Object == Socket \X BindingId
Presented(o, x) == Registry!requireAuthority(invokeCandidate(x.authority, o[1], o[2], x.proof))
Adopts(auth, o, x) == auth[x.authority.workspace] = Presented(o, x)

\* A socket in service is connected; one that never opened has nothing; when one
\* opens, all before it are closed.
SocketKept(k, earlier) ==
    /\ k.receiptCommitted => k.up \in {"open", "closing"}
    /\ k.up = "unused" => k.bindings = {} /\ k.retired = {}
    /\ k.up # "unused" => \A j \in earlier : j.up = "closed"

Earlier(f, s) == {f[t] : t \in 1 .. s - 1}

\* A binding in the map holds the floor of its workspace; it has a proof only when
\* its reads are over; an authority that is in force for it has it in the map; the
\* proof on a socket in service is the floor's and is in force.
BindingKept(o, x, k, auth) ==
    LET w == x.authority.workspace IN
    /\ k.up # "unused" /\ (k.up # "closed" => o[2] \in k.bindings \cup k.retired)
    /\ x.pc # "done" => x.proof = None
    /\ x.pc = "second" => x.first \in Inventory
    /\ x.cascaded => ~ k.receiptCommitted
    /\ o[2] \in k.bindings => k.floor[w] # None /\ k.floor[w].authority = x.authority
    /\ x.proof # None /\ Adopts(auth, o, x) => o[2] \in k.bindings /\ ~ x.invalidated
    /\ x.proof # None /\ o[2] \in k.bindings /\ k.receiptCommitted =>
          k.floor[w].inventory = x.proof /\ Adopts(auth, o, x)

\* The reads of its binding are over when an admission begins.  It has a lease only
\* after it was verified, under the authority that
\* its binding presents for as long as it has its proof.
AdmissionKept(y, l, f) ==
    /\ y = None \/ y.pc = "verify" => l = None \/ l.released
    /\ y # None => f[y.of] # None /\ f[y.of].pc = "done"
    /\ y # None /\ l # None /\ ~ l.released /\ f[y.of].proof # None =>
          l.authority = Presented(y.of, f[y.of])

Sockets ==
    /\ \A s \in Socket : SocketKept(sock[s], Earlier(sock, s))
    /\ \A o \in Object : o[2] \in sock[o[1]].bindings \cup sock[o[1]].retired => bind[o] # None
Bindings == \A o \in Object : bind[o] # None => BindingKept(o, bind[o], sock[o[1]], authorities)
OneEach ==
    \A o, p \in Object :
        /\ o[1] = p[1] /\ o[2] \in sock[o[1]].bindings /\ p[2] \in sock[p[1]].bindings
        /\ bind[o].authority.workspace = bind[p].authority.workspace
        => o = p
AdmissionsKept == \A a \in Admission : AdmissionKept(admit[a], leases[a], bind)

ReceiptInv ==
    /\ TypeOK /\ leases \in [Admission -> Registry!LeaseRec \cup {None}]
    /\ Sockets /\ Bindings /\ OneEach /\ AdmissionsKept
-----------------------------------------------------------------------------
(* Objects and what they present.                                          *)

\* A binding object is known by its socket and its binding id.
LEMMA ObjectParts ==
    /\ \A o \in Object : o[1] \in Socket /\ o[2] \in BindingId /\ o = <<o[1], o[2]>>
    /\ \A s \in Socket, b \in BindingId : <<s, b>> \in Object
    /\ \A s, b : <<s, b>>[1] = s /\ <<s, b>>[2] = b
BY DEF Object

\* The objects of a socket.
LEMMA ObjectsOf ==
    ASSUME NEW s \in Socket, NEW B \in SUBSET BindingId
    PROVE  /\ Objects(s, B) \subseteq Object
           /\ \A o \in Object : o \in Objects(s, B) <=> o[1] = s /\ o[2] \in B
<1>1. Objects(s, B) \subseteq Object
  BY ObjectParts DEF Objects
<1>2. ASSUME NEW o \in Object, o \in Objects(s, B) PROVE o[1] = s /\ o[2] \in B
  BY <1>2, ObjectParts DEF Objects
<1>3. ASSUME NEW o \in Object, o[1] = s, o[2] \in B PROVE o \in Objects(s, B)
  BY <1>3, ObjectParts DEF Objects
<1> QED
  BY <1>1, <1>2, <1>3

\* What a binding presents to the registry names its workspace, socket and id.
LEMMA Presents ==
    ASSUME NEW o \in Object, NEW a \in BindAuthority, NEW i \in Inventory
    PROVE  LET c == invokeCandidate(a, o[1], o[2], i)
               r == Registry!requireAuthority(c)
           IN  /\ c \in ReceiptCandidate /\ r \in Registry!Authority /\ r # None
               /\ c.workspace = a.workspace /\ r.workspace = a.workspace
               /\ r.binding = o[2] /\ r.gen["socketGeneration"] = o[1]
<1> DEFINE c == invokeCandidate(a, o[1], o[2], i)
           r == Registry!requireAuthority(c)
<1>1. c \in ReceiptCandidate
  BY ObjectParts DEF ReceiptCandidate
<1>2. r \in Registry!Authority /\ r # None
  BY <1>1, NoneAssumption DEF Registry!Authority
<1>3. /\ c.workspace = a.workspace /\ c.binding = o[2] /\ c.gen["socketGeneration"] = o[1]
      /\ c.gen["authorityEpoch"] = a.fence
  BY DEF invokeCandidate
<1> HIDE DEF c
<1>4. Registry!IsV3(c) /\ Registry!HasReceiptIdentity(c)
  <2>1. a.fence \in Nat
    BY ReceiptAssumption
  <2> QED
    BY <1>3, <2>1 DEF Registry!IsV3, Registry!HasReceiptIdentity, Registry!Undefined
<1>5. r.workspace = a.workspace /\ r.binding = o[2] /\ r.gen["socketGeneration"] = o[1]
  BY <1>3, <1>4 DEF Registry!requireAuthority, Registry!GenField
<1> QED
  BY <1>1, <1>2, <1>3, <1>5 DEF c

\* The same for a binding that has a proof.
LEMMA PresentedIs ==
    ASSUME NEW o \in Object, NEW x \in BindRec, x.proof # None
    PROVE  /\ Presented(o, x) \in Registry!Authority /\ Presented(o, x) # None
           /\ Presented(o, x).workspace = x.authority.workspace
           /\ Presented(o, x).binding = o[2]
           /\ Presented(o, x).gen["socketGeneration"] = o[1]
           /\ x.authority.workspace \in Workspace
<1>1. x.authority \in BindAuthority /\ x.proof \in Inventory
  BY DEF BindRec
<1> QED
  BY <1>1, Presents, ReceiptAssumption DEF Presented

\* Two objects that present the same are one.
LEMMA PresentedBy ==
    ASSUME NEW o \in Object, NEW x \in BindRec, x.proof # None,
           NEW p \in Object, NEW y \in BindRec, y.proof # None,
           Presented(o, x) = Presented(p, y)
    PROVE  o = p
<1>1. o[1] = p[1] /\ o[2] = p[2]
  BY PresentedIs
<1> QED
  BY <1>1, ObjectParts

-----------------------------------------------------------------------------
(* What a step has to keep.                                                *)

\* A binding goes on with its reads, is invalidated, or loses its proof.
Follows(x, y) ==
    /\ y.authority = x.authority /\ y.cascaded = x.cascaded
    /\ (y.proof = x.proof /\ y.invalidated = x.invalidated) \/ y.proof = None
    /\ y.pc # "done" => x.pc # "done"
    /\ y.pc = "second" => y.first \in Inventory

\* It still is what the maps say.
LEMMA KeptFollowing ==
    ASSUME NEW o, NEW x, NEW y, NEW k, NEW auth, BindingKept(o, x, k, auth), Follows(x, y)
    PROVE  BindingKept(o, y, k, auth)
BY DEF BindingKept, Follows, Adopts, Presented

\* Its socket becomes m, what is in force becomes auth2.
LEMMA KeptElsewhere ==
    ASSUME NEW o, NEW x, NEW k, NEW m, NEW auth, NEW auth2, BindingKept(o, x, k, auth),
           m.up # "unused",
           m.up # "closed" => k.up # "closed"
               /\ (o[2] \in k.bindings \cup k.retired => o[2] \in m.bindings \cup m.retired),
           m.receiptCommitted => k.receiptCommitted,
           o[2] \in m.bindings => o[2] \in k.bindings
               /\ m.floor[x.authority.workspace] = k.floor[x.authority.workspace],
           x.proof # None /\ Adopts(auth2, o, x) =>
               Adopts(auth, o, x) /\ (o[2] \in k.bindings => o[2] \in m.bindings),
           x.proof # None /\ o[2] \in m.bindings /\ m.receiptCommitted /\ Adopts(auth, o, x) =>
               Adopts(auth2, o, x)
    PROVE  BindingKept(o, x, m, auth2)
BY DEF BindingKept

\* The types of the reader and the poll.
QuietTypes ==
    /\ disk \in Inventory \cup {Missing} /\ key \in Inventory \cup {Missing}
    /\ read \in ReadRec \cup {None}
    /\ snapshot \in [inventory : Inventory, moved : BOOLEAN] \cup {None}
    /\ polling \in BOOLEAN /\ poll \in {"idle", "reading", "cascading"}

\* The parts of the invariant in the state after a step.
LEMMA Together ==
    ASSUME QuietTypes', sock' \in [Socket -> SockRec],
           bind' \in [Object -> BindRec \cup {None}],
           admit' \in [Admission -> AdmitRec \cup {None}],
           authorities' \in [Workspace -> Registry!Authority \cup {None}],
           leases' \in [Admission -> Registry!LeaseRec \cup {None}],
           \A s \in Socket : SocketKept(sock'[s], Earlier(sock', s)),
           \A o \in Object : o[2] \in sock'[o[1]].bindings \cup sock'[o[1]].retired
                                => bind'[o] # None,
           \A o \in Object : bind'[o] # None =>
                                BindingKept(o, bind'[o], sock'[o[1]], authorities'),
           \A o, p \in Object :
              /\ o[1] = p[1] /\ o[2] \in sock'[o[1]].bindings /\ p[2] \in sock'[p[1]].bindings
              /\ bind'[o].authority.workspace = bind'[p].authority.workspace
              => o = p,
           \A a \in Admission : AdmissionKept(admit'[a], leases'[a], bind')
    PROVE  ReceiptInv'
<1>1. TypeOK'
  BY DEF TypeOK, QuietTypes, Object
<1>2. (leases \in [Admission -> Registry!LeaseRec \cup {None}])'
  OBVIOUS
<1>3. Sockets'
  BY DEF Sockets, SocketKept, Earlier
<1>4. Bindings'
  BY DEF Bindings, BindingKept, Adopts, Presented
<1>5. OneEach'
  BY DEF OneEach
<1>6. AdmissionsKept'
  BY DEF AdmissionsKept, AdmissionKept, Presented
<1> QED
  BY <1>1, <1>2, <1>3, <1>4, <1>5, <1>6 DEF ReceiptInv

\* The parts before it.
LEMMA Apart ==
    ASSUME ReceiptInv
    PROVE  /\ QuietTypes /\ sock \in [Socket -> SockRec]
           /\ bind \in [Object -> BindRec \cup {None}]
           /\ admit \in [Admission -> AdmitRec \cup {None}]
           /\ authorities \in [Workspace -> Registry!Authority \cup {None}]
           /\ leases \in [Admission -> Registry!LeaseRec \cup {None}]
           /\ \A s \in Socket : SocketKept(sock[s], Earlier(sock, s))
           /\ \A o \in Object : o[2] \in sock[o[1]].bindings \cup sock[o[1]].retired
                                => bind[o] # None
           /\ \A o \in Object : bind[o] # None =>
                                BindingKept(o, bind[o], sock[o[1]], authorities)
           /\ \A o, p \in Object :
              /\ o[1] = p[1] /\ o[2] \in sock[o[1]].bindings /\ p[2] \in sock[p[1]].bindings
              /\ bind[o].authority.workspace = bind[p].authority.workspace
              => o = p
           /\ \A a \in Admission : AdmissionKept(admit[a], leases[a], bind)
BY DEF ReceiptInv, TypeOK, QuietTypes, Object, Sockets, Bindings, OneEach, AdmissionsKept

-----------------------------------------------------------------------------
(* Steps that prove nothing new.                                           *)

\* A socket closes, is fenced, or gives bindings up.
SocketGoes(k, m) ==
    /\ m.up = "unused" <=> k.up = "unused"
    /\ k.up = "closed" => m.up = "closed"
    /\ m.receiptCommitted => k.receiptCommitted /\ m.up \in {"open", "closing"}
    /\ m.bindings \subseteq k.bindings
    /\ m.bindings \cup m.retired \subseteq k.bindings \cup k.retired
    /\ m.up # "closed" => k.bindings \cup k.retired \subseteq m.bindings \cup m.retired
    /\ m.floor = k.floor

\* A binding goes on while its authority stays as it is in force, ...
GoesOn(o, x, y, k, m, auth, auth2) ==
    /\ Follows(x, y)
    /\ y.proof # None =>
          /\ Adopts(auth2, o, x) <=> Adopts(auth, o, x)
          /\ o[2] \in k.bindings => o[2] \in m.bindings

\* ... or it leaves the map and its authority is not in force any more.
Leaves(o, x, y, m, auth2) ==
    /\ y.authority = x.authority /\ y.cascaded = x.cascaded /\ y.proof = x.proof
    /\ y.pc = x.pc /\ y.first = x.first
    /\ o[2] \notin m.bindings
    /\ x.proof # None => ~ Adopts(auth2, o, x)

\* What ProofsMoveForward says of one step.
Forward ==
    /\ \A s \in Socket, w \in Workspace :
          LET f == sock[s].floor[w]
              g == sock'[s].floor[w]
          IN  f # None =>
                /\ g # None
                /\ ~regressed(g.authority, f.authority)
                /\ f.inventory # None =>
                      g.inventory # None /\ g.inventory.generation >= f.inventory.generation
    /\ \A o \in Object :
          bind[o] # None /\ bind[o].proof = None /\ bind'[o].proof # None =>
              ~bind[o].cascaded /\ sock[o[1]].receiptCommitted

\* Sockets that close, are fenced or give bindings up stay in order.
LEMMA SocketsStay ==
    ASSUME sock \in [Socket -> SockRec], sock' \in [Socket -> SockRec],
           \A s \in Socket : SocketKept(sock[s], Earlier(sock, s)),
           \A s \in Socket : SocketGoes(sock[s], sock'[s])
    PROVE  \A s \in Socket : SocketKept(sock'[s], Earlier(sock', s))
<1> TAKE s \in Socket
<1>1. SocketKept(sock[s], Earlier(sock, s)) /\ SocketGoes(sock[s], sock'[s])
  OBVIOUS
<1>2. ASSUME sock'[s].up # "unused", NEW j \in Earlier(sock', s) PROVE j.up = "closed"
  <2>1. PICK t \in 1 .. s - 1 : j = sock'[t]
    BY <1>2 DEF Earlier
  <2>2. t \in Socket
    BY <2>1, ReceiptAssumption DEF Socket
  <2>3. sock[t].up = "closed"
    BY <1>1, <1>2, <2>1 DEF SocketKept, SocketGoes, Earlier
  <2> QED
    BY <2>1, <2>2, <2>3 DEF SocketGoes
<1>3. sock'[s].up = "unused" => sock'[s].bindings = {} /\ sock'[s].retired = {}
  BY <1>1 DEF SocketKept, SocketGoes
<1>4. sock'[s].receiptCommitted => sock'[s].up \in {"open", "closing"}
  BY <1>1 DEF SocketGoes
<1> QED
  BY <1>2, <1>3, <1>4 DEF SocketKept

\* A floor that stays is no step back.
LEMMA FloorStays ==
    ASSUME sock \in [Socket -> SockRec], NEW s \in Socket, NEW w \in Workspace,
           sock[s].floor[w] # None
    PROVE  /\ ~ regressed(sock[s].floor[w].authority, sock[s].floor[w].authority)
           /\ sock[s].floor[w].inventory # None =>
                 /\ sock[s].floor[w].inventory \in Inventory
                 /\ sock[s].floor[w].inventory.generation \in Nat
                 /\ sock[s].floor[w].inventory.generation >= sock[s].floor[w].inventory.generation
<1>1. PICK f \in FloorRec : f = sock[s].floor[w]
  BY DEF SockRec
<1>2. f.authority \in BindAuthority /\ f.inventory \in Inventory \cup {None}
  BY DEF FloorRec
<1>3. f.authority.fence \in Nat /\ f.authority.mapping \in Nat
  BY <1>2, ReceiptAssumption
<1>4. f.inventory # None => f.inventory.generation \in Nat
  BY <1>2, ReceiptAssumption
<1> QED
  BY <1>1, <1>2, <1>3, <1>4 DEF regressed

\* A binding that goes on stays what the maps say, ...
LEMMA GoingOn ==
    ASSUME NEW o, NEW x, NEW y, NEW k, NEW m, NEW auth, NEW auth2, BindingKept(o, x, k, auth),
           SocketGoes(k, m), GoesOn(o, x, y, k, m, auth, auth2)
    PROVE  BindingKept(o, y, m, auth2)
<1>1. BindingKept(o, y, k, auth)
  BY KeptFollowing DEF GoesOn
<1>2. /\ y.proof # None /\ Adopts(auth2, o, y) => Adopts(auth, o, y)
      /\ y.proof # None /\ Adopts(auth, o, y) => Adopts(auth2, o, y)
  BY DEF GoesOn, Follows, Adopts, Presented
<1>3. y.proof # None => (o[2] \in k.bindings => o[2] \in m.bindings)
  BY DEF GoesOn
<1>4. m.up # "unused"
  BY DEF BindingKept, SocketGoes
<1>5. /\ m.up # "closed" => k.up # "closed"
         /\ (o[2] \in k.bindings \cup k.retired => o[2] \in m.bindings \cup m.retired)
      /\ m.receiptCommitted => k.receiptCommitted
      /\ o[2] \in m.bindings => o[2] \in k.bindings
      /\ m.floor = k.floor
  BY DEF SocketGoes
<1> QED
  BY <1>1, <1>2, <1>3, <1>4, <1>5, KeptElsewhere

\* ... and so does one that leaves.
LEMMA Leaving ==
    ASSUME NEW o, NEW x, NEW y, NEW k, NEW m, NEW auth, NEW auth2, BindingKept(o, x, k, auth),
           SocketGoes(k, m), Leaves(o, x, y, m, auth2)
    PROVE  BindingKept(o, y, m, auth2)
<1>1. y.proof # None => ~ Adopts(auth2, o, y)
  BY DEF Leaves, Adopts, Presented
<1>2. /\ m.up # "unused" /\ (m.up # "closed" => o[2] \in m.bindings \cup m.retired)
      /\ m.receiptCommitted => k.receiptCommitted
  BY DEF BindingKept, SocketGoes
<1>3. /\ y.pc # "done" => y.proof = None
      /\ y.pc = "second" => y.first \in Inventory
      /\ y.cascaded => ~ m.receiptCommitted
  BY <1>2 DEF BindingKept, Leaves
<1> QED
  BY <1>1, <1>2, <1>3 DEF BindingKept, Leaves

\* A step in which every socket goes on and every binding goes on or leaves.
LEMMA Onward ==
    ASSUME ReceiptInv, QuietTypes', sock' \in [Socket -> SockRec],
           bind' \in [Object -> BindRec \cup {None}],
           admit' \in [Admission -> AdmitRec \cup {None}],
           authorities' \in [Workspace -> Registry!Authority \cup {None}],
           leases' \in [Admission -> Registry!LeaseRec \cup {None}],
           \A s \in Socket : SocketGoes(sock[s], sock'[s]),
           \A o \in Object : bind'[o] # None <=> bind[o] # None,
           \A o \in Object : bind[o] # None =>
              \/ GoesOn(o, bind[o], bind'[o], sock[o[1]], sock'[o[1]], authorities, authorities')
              \/ Leaves(o, bind[o], bind'[o], sock'[o[1]], authorities'),
           \A a \in Admission : AdmissionKept(admit'[a], leases'[a], bind)
    PROVE  ReceiptInv' /\ Forward
<1> USE Apart
<1>1. \A s \in Socket : SocketKept(sock'[s], Earlier(sock', s))
  BY SocketsStay
<1>2. \A o \in Object : o[2] \in sock'[o[1]].bindings \cup sock'[o[1]].retired
                            => bind'[o] # None
  BY ObjectParts DEF SocketGoes
<1>3. ASSUME NEW o \in Object, bind'[o] # None
      PROVE  BindingKept(o, bind'[o], sock'[o[1]], authorities')
  <2> DEFINE x == bind[o]
             y == bind'[o]
             k == sock[o[1]]
             m == sock'[o[1]]
  <2>1. x # None /\ BindingKept(o, x, k, authorities) /\ SocketGoes(k, m)
    BY <1>3, ObjectParts
  <2>2. \/ GoesOn(o, x, y, k, m, authorities, authorities')
        \/ Leaves(o, x, y, m, authorities')
    BY <1>3
  <2> HIDE DEF x, y, k, m
  <2>3. BindingKept(o, y, m, authorities')
    BY <2>1, <2>2, GoingOn, Leaving
  <2> QED
    BY <2>3 DEF x, y, k, m
<1>4. \A o \in Object : bind[o] # None =>
         /\ bind'[o].authority = bind[o].authority
         /\ bind'[o].proof = bind[o].proof \/ bind'[o].proof = None
         /\ bind'[o].pc # "done" => bind[o].pc # "done"
  BY DEF GoesOn, Leaves, Follows
<1>5. ASSUME NEW o \in Object, NEW p \in Object, o[1] = p[1],
             o[2] \in sock'[o[1]].bindings, p[2] \in sock'[p[1]].bindings,
             bind'[o].authority.workspace = bind'[p].authority.workspace
      PROVE  o = p
  <2>1. o[2] \in sock[o[1]].bindings /\ p[2] \in sock[p[1]].bindings
    BY <1>5, ObjectParts DEF SocketGoes
  <2>2. bind[o] # None /\ bind[p] # None
    BY <2>1
  <2> QED
    BY <1>4, <1>5, <2>1, <2>2
<1>6. ASSUME NEW a \in Admission PROVE AdmissionKept(admit'[a], leases'[a], bind')
  <2>1. AdmissionKept(admit'[a], leases'[a], bind)
    OBVIOUS
  <2>2. admit'[a] # None => admit'[a].of \in Object
    BY DEF AdmitRec, Object
  <2> QED
    BY <1>4, <2>1, <2>2 DEF AdmissionKept, Presented
<1>7. ReceiptInv'
  BY <1>1, <1>2, <1>3, <1>5, <1>6, Together
<1>8. ASSUME NEW s \in Socket, NEW w \in Workspace, sock[s].floor[w] # None
      PROVE  sock'[s].floor[w] = sock[s].floor[w]
  BY DEF SocketGoes
<1>9. \A o \in Object : bind[o] # None /\ bind[o].proof = None => bind'[o].proof = None
  BY <1>4
<1> QED
  BY <1>7, <1>8, <1>9, FloorStays DEF Forward

-----------------------------------------------------------------------------
(* What the shared operators do.                                           *)

BindMap == [Object -> BindRec \cup {None}]

\* All fields but `moved` stay.
Same(x, y) ==
    /\ y \in BindRec
    /\ y.authority = x.authority /\ y.invalidated = x.invalidated /\ y.phase = x.phase
    /\ y.proof = x.proof /\ y.pc = x.pc /\ y.first = x.first /\ y.cascaded = x.cascaded

\* A read tells the bindings that wait for their second one whether the epoch moved.
LEMMA Moves ==
    ASSUME NEW f \in BindMap
    PROVE  /\ moved(f) \in BindMap
           /\ \A o \in Object : moved(f)[o] # None <=> f[o] # None
           /\ \A o \in Object : f[o] # None => Same(f[o], moved(f)[o])
<1>1. DOMAIN f = Object /\ DOMAIN moved(f) = Object
  BY DEF BindMap, moved
<1>2. ASSUME NEW o \in Object, f[o] # None PROVE Same(f[o], moved(f)[o])
  <2>1. PICK x \in BindRec : x = f[o]
    BY <1>2 DEF BindMap
  <2>2. moved(f)[o] = x \/ moved(f)[o] = [x EXCEPT !.moved = TRUE]
    BY <1>1, <1>2, <2>1 DEF moved
  <2> DEFINE y == [x EXCEPT !.moved = TRUE]
  <2>3. Same(x, x)
    BY DEF Same
  <2>4. Same(x, y)
    BY DEF Same, BindRec
  <2> QED
    BY <2>1, <2>2, <2>3, <2>4
<1>3. ASSUME NEW o \in Object, f[o] = None PROVE moved(f)[o] = None
  BY <1>1, <1>3 DEF moved
<1>4. \A o \in Object : moved(f)[o] # None <=> f[o] # None
  <2> TAKE o \in Object
  <2>1. f[o] # None => moved(f)[o] \in BindRec
    BY <1>2 DEF Same
  <2> QED
    BY <1>3, <2>1, NoneAssumption
<1>5. moved(f) \in BindMap
  <2>1. \A o \in Object : moved(f)[o] \in BindRec \cup {None}
    BY <1>2, <1>3 DEF Same
  <2>2. moved(f) = [o \in Object |-> moved(f)[o]]
    BY <1>1 DEF moved
  <2> QED
    BY <2>1, <2>2 DEF BindMap
<1> QED
  BY <1>2, <1>4, <1>5

\* Bindings that are invalidated differ in nothing else.
LEMMA Invalidates ==
    ASSUME NEW f \in BindMap, NEW O \in SUBSET Object, \A o \in O : f[o] # None
    PROVE  /\ invalidated(f, O) \in BindMap
           /\ \A o \in Object : invalidated(f, O)[o] # None <=> f[o] # None
           /\ \A o \in Object : o \notin O => invalidated(f, O)[o] = f[o]
           /\ \A o \in O : LET y == invalidated(f, O)[o] IN
                /\ y \in BindRec /\ y.invalidated
                /\ y.authority = f[o].authority /\ y.proof = f[o].proof /\ y.pc = f[o].pc
                /\ y.first = f[o].first /\ y.cascaded = f[o].cascaded /\ y.phase = f[o].phase
<1> DEFINE g == invalidated(f, O)
<1>1. DOMAIN f = Object /\ g = [o \in Object |-> IF o \in O THEN [f[o] EXCEPT !.invalidated = TRUE]
                                                 ELSE f[o]]
  BY DEF BindMap, invalidated
<1>2. ASSUME NEW o \in O
      PROVE  /\ g[o] \in BindRec /\ g[o].invalidated
             /\ g[o].authority = f[o].authority /\ g[o].proof = f[o].proof /\ g[o].pc = f[o].pc
             /\ g[o].first = f[o].first /\ g[o].cascaded = f[o].cascaded
             /\ g[o].phase = f[o].phase
  <2>1. PICK x \in BindRec : x = f[o]
    BY DEF BindMap
  <2>2. g[o] = [x EXCEPT !.invalidated = TRUE]
    BY <1>1, <2>1
  <2> HIDE DEF g
  <2> DEFINE y == [x EXCEPT !.invalidated = TRUE]
  <2>3. /\ y \in BindRec /\ y.invalidated
        /\ y.authority = x.authority /\ y.proof = x.proof /\ y.pc = x.pc
        /\ y.first = x.first /\ y.cascaded = x.cascaded /\ y.phase = x.phase
    BY DEF BindRec
  <2> QED
    BY <2>1, <2>2, <2>3
<1>3. \A o \in Object : o \notin O => g[o] = f[o]
  BY <1>1
<1> HIDE DEF g
<1>4. g \in BindMap
  <2>1. \A o \in Object : g[o] \in BindRec \cup {None}
    BY <1>2, <1>3 DEF BindMap
  <2>2. g = [o \in Object |-> g[o]]
    BY <1>1
  <2> QED
    BY <2>1, <2>2 DEF BindMap
<1>5. \A o \in Object : g[o] # None <=> f[o] # None
  BY <1>2, <1>3, NoneAssumption
<1> QED
  BY <1>2, <1>3, <1>4, <1>5 DEF g

\* The reader that goes on leaves the types of the reads and of the snapshot.
LEMMA Read ==
    ASSUME ReceiptInv, NEW who, Resumes(who)
    PROVE  /\ disk' = disk /\ key' \in Inventory \cup {Missing} /\ read' = None
           /\ read \in ReadRec /\ read.result \in Inventory \cup {Missing, Failed}
           /\ snapshotMoved \in [inventory : Inventory, moved : BOOLEAN] \cup {None}
<1>1. QuietTypes
  BY Apart
<1>2. PICK r \in ReadRec : r = read
  BY <1>1 DEF QuietTypes, Resumes
<1>3. r.result \in Inventory \cup {Missing, Failed}
  BY DEF ReadRec
<1>4. key' \in Inventory \cup {Missing}
  BY <1>1, <1>2, <1>3 DEF Resumes, QuietTypes
<1>5. ASSUME snapshot # None
      PROVE  snapshotMoved \in [inventory : Inventory, moved : BOOLEAN]
  <2>1. PICK n \in [inventory : Inventory, moved : BOOLEAN] : n = snapshot
    BY <1>1, <1>5 DEF QuietTypes
  <2>2. snapshotMoved = n \/ snapshotMoved = [n EXCEPT !.moved = TRUE]
    BY <2>1 DEF snapshotMoved
  <2> QED
    BY <2>2
<1>6. snapshot = None => snapshotMoved = None
  BY DEF snapshotMoved
<1> QED
  BY <1>2, <1>3, <1>4, <1>5, <1>6 DEF Resumes

\* Only the adopted proofs of the bindings in O are taken out of force.
LEMMA Retires ==
    ASSUME ReceiptInv, NEW O \in SUBSET Object, \A o \in O : bind[o] # None, retireBindings(O)
    PROVE  /\ authorities' \in [Workspace -> Registry!Authority \cup {None}]
           /\ leases' = leases
           /\ \A o \in Object : bind[o] # None /\ bind[o].proof # None =>
                /\ o \in O => ~ Adopts(authorities', o, bind[o])
                /\ o \notin O =>
                      (Adopts(authorities', o, bind[o]) <=> Adopts(authorities, o, bind[o]))
<1> DEFINE adopted == {o \in O : bind[o].proof # None /\
                          authorities[bind[o].authority.workspace]
                              = Registry!requireAuthority(candidate(o))}
           W == {bind[o].authority.workspace : o \in adopted}
<1>1. /\ authorities' = [w \in Workspace |-> IF w \in W THEN None ELSE authorities[w]]
      /\ leases' = leases
  BY DEF retireBindings
<1>2. \A o \in O : o \in adopted <=> bind[o].proof # None /\ Adopts(authorities, o, bind[o])
  BY DEF Adopts, Presented, candidate
<1>3. \A w \in W : \E p \in O : p \in adopted /\ w = bind[p].authority.workspace
  OBVIOUS
<1>4. \A p \in O : p \in adopted => bind[p].authority.workspace \in W
  OBVIOUS
<1> HIDE DEF adopted, W
<1>5. authorities \in [Workspace -> Registry!Authority \cup {None}] /\ bind \in BindMap
  BY Apart DEF BindMap
<1>6. authorities' \in [Workspace -> Registry!Authority \cup {None}]
  BY <1>1, <1>5
<1>7. ASSUME NEW o \in Object, bind[o] # None, bind[o].proof # None
      PROVE  /\ o \in O => ~ Adopts(authorities', o, bind[o])
             /\ o \notin O =>
                   (Adopts(authorities', o, bind[o]) <=> Adopts(authorities, o, bind[o]))
  <2>1. PICK x \in BindRec : x = bind[o]
    BY <1>5, <1>7 DEF BindMap
  <2>2. Presented(o, x) # None /\ x.authority.workspace \in Workspace
    BY <1>7, <2>1, PresentedIs
  <2> DEFINE w == x.authority.workspace
  <2>3. CASE w \in W
    <3>1. authorities'[w] = None
      BY <1>1, <2>2, <2>3
    <3>2. ~ Adopts(authorities', o, x)
      BY <2>2, <3>1 DEF Adopts
    <3>3. PICK p \in O : p \in adopted /\ w = bind[p].authority.workspace
      BY <1>3, <2>3
    <3>4. PICK y \in BindRec : y = bind[p]
      BY <1>5 DEF BindMap
    <3>5. y.proof # None /\ authorities[w] = Presented(p, y)
      BY <1>2, <3>3, <3>4 DEF Adopts
    <3>6. Adopts(authorities, o, x) => o = p
      <4>1. p \in Object /\ y.proof # None /\ x.proof # None
        BY <1>7, <2>1, <3>5
      <4>2. Adopts(authorities, o, x) => Presented(o, x) = Presented(p, y)
        BY <3>5 DEF Adopts
      <4> QED
        BY <4>1, <4>2, PresentedBy
    <3> QED
      BY <2>1, <3>2, <3>3, <3>6
  <2>4. CASE w \notin W
    <3>1. authorities'[w] = authorities[w]
      BY <1>1, <2>2, <2>4
    <3>2. Adopts(authorities', o, x) <=> Adopts(authorities, o, x)
      BY <3>1 DEF Adopts
    <3>3. o \in O => ~ Adopts(authorities, o, x)
      BY <1>2, <1>4, <1>7, <2>1, <2>4
    <3> QED
      BY <2>1, <3>2, <3>3
  <2> QED
    BY <2>3, <2>4
<1> QED
  BY <1>1, <1>6, <1>7

-----------------------------------------------------------------------------
(* Steps of the readers, of the admissions and of the poll.                *)

\* A socket that stays as it is goes on.
LEMMA SocketStays ==
    ASSUME ReceiptInv
    PROVE  \A s \in Socket : SocketGoes(sock[s], sock[s])
BY Apart DEF SocketGoes, SocketKept

\* Bindings read on, are invalidated or lose their proof while sockets and
\* authorities stay.
LEMMA ReadOn ==
    ASSUME ReceiptInv, QuietTypes', sock' = sock, authorities' = authorities,
           bind' \in BindMap,
           \A o \in Object : bind'[o] # None <=> bind[o] # None,
           \A o \in Object : bind[o] # None => Follows(bind[o], bind'[o]),
           admit' \in [Admission -> AdmitRec \cup {None}],
           leases' \in [Admission -> Registry!LeaseRec \cup {None}],
           \A a \in Admission : AdmissionKept(admit'[a], leases'[a], bind)
    PROVE  ReceiptInv' /\ Forward
<1>1. \A s \in Socket : SocketGoes(sock[s], sock'[s])
  BY SocketStays
<1>2. \A o \in Object : bind[o] # None =>
         GoesOn(o, bind[o], bind'[o], sock[o[1]], sock'[o[1]], authorities, authorities')
  BY DEF GoesOn
<1>3. sock' \in [Socket -> SockRec]
      /\ authorities' \in [Workspace -> Registry!Authority \cup {None}]
  BY Apart
<1> QED
  BY <1>1, <1>2, <1>3, Onward DEF BindMap

\* A binding that only hears of the epoch follows.
LEMMA SameFollows ==
    ASSUME ReceiptInv, NEW o \in Object, bind[o] # None, NEW y, Same(bind[o], y)
    PROVE  Follows(bind[o], y)
<1>1. BindingKept(o, bind[o], sock[o[1]], authorities)
  BY Apart
<1> QED
  BY <1>1 DEF BindingKept, Same, Follows

\* Bindings that hear of the epoch, or of nothing.
LEMMA AllMoved ==
    ASSUME ReceiptInv
    PROVE  /\ bind \in BindMap /\ moved(bind) \in BindMap
           /\ \A o \in Object : moved(bind)[o] # None <=> bind[o] # None
           /\ \A o \in Object : bind[o] # None =>
                 Same(bind[o], moved(bind)[o]) /\ Follows(bind[o], moved(bind)[o])
           /\ \A o \in Object : bind[o] # None =>
                 Same(bind[o], bind[o]) /\ Follows(bind[o], bind[o])
<1>1. bind \in BindMap
  BY Apart DEF BindMap
<1>2. \A o \in Object : bind[o] # None => Same(bind[o], bind[o])
  BY <1>1 DEF BindMap, Same
<1> QED
  BY <1>1, <1>2, Moves, SameFollows

\* The first release of a lease.
LEMMA Releases ==
    ASSUME leases \in [Admission -> Registry!LeaseRec \cup {None}], NEW a \in Admission,
           Registry!release(a)
    PROVE  /\ leases' \in [Admission -> Registry!LeaseRec \cup {None}]
           /\ authorities' = authorities /\ leases'[a].released
           /\ \A b \in Admission : b # a => leases'[b] = leases[b]
<1>1. PICK l \in Registry!LeaseRec : l = leases[a]
  BY DEF Registry!release
<1> DEFINE m == [l EXCEPT !.released = TRUE]
<1>2. m \in Registry!LeaseRec /\ m.released
  BY DEF Registry!LeaseRec
<1>3. CASE l.released
  BY <1>1, <1>3 DEF Registry!release, Registry!vars
<1>4. CASE ~ l.released
  <2>1. leases' = [leases EXCEPT ![a] = m] /\ authorities' = authorities
    BY <1>1, <1>4 DEF Registry!release, Registry!dropHolder
  <2> HIDE DEF m
  <2> QED
    BY <1>2, <2>1
<1> QED
  BY <1>3, <1>4

\* An admission that goes on with the lease it has.
LEMMA AdmissionGoesOn ==
    ASSUME ReceiptInv, NEW a \in Admission, admit[a] # None, NEW pc,
           pc \in {"verify", "pool", "publish", "served", "retiring"},
           pc = "verify" => admit[a].pc = "verify", admit' = [admit EXCEPT ![a].pc = pc]
    PROVE  /\ admit' \in [Admission -> AdmitRec \cup {None}]
           /\ admit'[a] # None /\ admit'[a].pc = pc /\ admit'[a].of = admit[a].of
           /\ \A b \in Admission : b # a => admit'[b] = admit[b]
           /\ admit[a].of \in Object
<1>1. admit \in [Admission -> AdmitRec \cup {None}]
  BY Apart
<1>2. PICK y \in AdmitRec : y = admit[a]
  BY <1>1
<1> DEFINE z == [y EXCEPT !.pc = pc]
<1>3. z \in AdmitRec /\ z.pc = pc /\ z.of = y.of /\ y.of \in Object
  BY DEF AdmitRec, Object
<1>4. admit' = [admit EXCEPT ![a] = z]
  BY <1>2
<1> HIDE DEF z
<1> QED
  BY <1>1, <1>2, <1>3, <1>4, NoneAssumption

\* An admission that is over.
LEMMA AdmissionEnds ==
    ASSUME ReceiptInv, NEW a \in Admission, admit' = Idle(admit, a)
    PROVE  /\ admit' \in [Admission -> AdmitRec \cup {None}]
           /\ admit'[a] = None
           /\ \A b \in Admission : b # a => admit'[b] = admit[b]
BY Apart DEF Idle

\* inventoryChanges, readAccepted and a tick that does not find a snapshot expired.
LEMMA QuietKeep ==
    ASSUME ReceiptInv, QuietTypes', UNCHANGED <<sock, bind, admit, registry>>
    PROVE  ReceiptInv' /\ Forward
<1>1. /\ sock' = sock /\ bind' = bind /\ admit' = admit
      /\ authorities' = authorities /\ leases' = leases
  BY DEF registry
<1>2. bind' \in BindMap /\ \A o \in Object : bind[o] # None => Follows(bind[o], bind'[o])
  BY <1>1, AllMoved
<1> QED
  BY <1>1, <1>2, ReadOn, Apart

\* ensured and released leave the reads alone.
LEMMA EnsuredKeep ==
    ASSUME ReceiptInv, NEW a \in Admission, NEW thrown \in BOOLEAN, ensured(a, thrown)
    PROVE  ReceiptInv' /\ Forward
<1> USE Apart
<1>1. /\ sock' = sock /\ bind' = bind /\ QuietTypes'
  BY DEF ensured, QuietTypes
<1>2. bind' \in BindMap /\ \A o \in Object : bind[o] # None => Follows(bind[o], bind'[o])
  BY <1>1, AllMoved
<1>3. CASE thrown
  <2>1. admit' = Idle(admit, a) /\ Registry!release(a)
    BY <1>3 DEF ensured
  <2> QED
    BY <1>1, <1>2, <2>1, AdmissionEnds, Releases, ReadOn DEF AdmissionKept
<1>4. CASE ~ thrown
  <2>1. /\ admit' = [admit EXCEPT ![a].pc = "publish"] /\ admit[a] # None /\ admit[a].pc = "pool"
        /\ authorities' = authorities /\ leases' = leases
    BY <1>4 DEF ensured, registry
  <2>2. \A b \in Admission : AdmissionKept(admit'[b], leases'[b], bind)
    <3> TAKE b \in Admission
    <3>1. AdmissionKept(admit[b], leases[b], bind)
      OBVIOUS
    <3>2. admit'[a] # None /\ admit'[a].pc = "publish" /\ admit'[a].of = admit[a].of
      BY <2>1, AdmissionGoesOn
    <3>3. b # a => admit'[b] = admit[b]
      BY <2>1, AdmissionGoesOn
    <3>4. b = a => AdmissionKept(admit'[a], leases'[a], bind)
      BY <2>1, <3>1, <3>2 DEF AdmissionKept
    <3> QED
      BY <2>1, <3>1, <3>3, <3>4
  <2> QED
    BY <1>1, <1>2, <2>1, <2>2, AdmissionGoesOn, ReadOn
<1> QED
  BY <1>3, <1>4

\* The request is over.
LEMMA ReleasedKeep ==
    ASSUME ReceiptInv, NEW a \in Admission, released(a)
    PROVE  ReceiptInv' /\ Forward
<1> USE Apart
<1>1. /\ sock' = sock /\ bind' = bind /\ QuietTypes'
      /\ admit' = Idle(admit, a) /\ Registry!release(a)
  BY DEF released, QuietTypes
<1>2. bind' \in BindMap /\ \A o \in Object : bind[o] # None => Follows(bind[o], bind'[o])
  BY <1>1, AllMoved
<1> QED
  BY <1>1, <1>2, AdmissionEnds, Releases, ReadOn DEF AdmissionKept

\* One binding ends without a proof or reads on, the others hear of the epoch.
LEMMA OneReadsOn ==
    ASSUME ReceiptInv, NEW o \in Object, bind[o] # None, NEW y \in BindRec,
           Follows(bind[o], y), bind' = [moved(bind) EXCEPT ![o] = y]
    PROVE  /\ bind' \in BindMap
           /\ \A p \in Object : bind'[p] # None <=> bind[p] # None
           /\ \A p \in Object : bind[p] # None => Follows(bind[p], bind'[p])
<1>1. /\ moved(bind) \in BindMap /\ moved(bind)[o] # None
      /\ \A p \in Object : moved(bind)[p] # None <=> bind[p] # None
      /\ \A p \in Object : bind[p] # None => Follows(bind[p], moved(bind)[p])
  BY AllMoved
<1>2. /\ bind' \in BindMap /\ bind'[o] = y
      /\ \A p \in Object : bind'[p] # None <=> moved(bind)[p] # None
      /\ \A p \in Object : p # o => bind'[p] = moved(bind)[p]
  <2> DEFINE f == moved(bind)
  <2>1. f \in BindMap /\ f[o] # None /\ bind' = [f EXCEPT ![o] = y]
    BY <1>1
  <2> HIDE DEF f
  <2>2. /\ bind' \in BindMap /\ bind'[o] = y
        /\ \A p \in Object : bind'[p] # None <=> f[p] # None
        /\ \A p \in Object : p # o => bind'[p] = f[p]
    <3> DEFINE g == [f EXCEPT ![o] = y]
    <3>1. /\ g \in BindMap /\ g[o] = y
          /\ \A p \in Object : g[p] # None <=> f[p] # None
          /\ \A p \in Object : p # o => g[p] = f[p]
      BY <2>1, NoneAssumption DEF BindMap
    <3> QED
      BY <2>1, <3>1
  <2> QED
    BY <2>2 DEF f
<1>3. ASSUME NEW p \in Object, bind[p] # None PROVE Follows(bind[p], bind'[p])
  BY <1>1, <1>2, <1>3
<1> QED
  BY <1>1, <1>2, <1>3

\* What a reader leaves to the poll and to the admissions.
LEMMA Quietly ==
    ASSUME ReceiptInv, NEW who, Resumes(who), UNCHANGED <<polling, poll>>,
           snapshot' \in [inventory : Inventory, moved : BOOLEAN] \cup {None}
    PROVE  QuietTypes'
BY Apart, Read DEF QuietTypes

\* A negative answer.
LEMMA NegativeIs ==
    ASSUME ReceiptInv, NEW o \in Object, bind[o] # None, bind[o].proof = None, negative(o)
    PROVE  /\ bind' \in BindMap
           /\ \A p \in Object : bind'[p] # None <=> bind[p] # None
           /\ \A p \in Object : bind[p] # None => Follows(bind[p], bind'[p])
<1>1. PICK x \in BindRec : x = moved(bind)[o]
  BY AllMoved DEF Same
<1> DEFINE y == [x EXCEPT !.pc = "done", !.phase = "negative"]
<1>2. y \in BindRec
  BY DEF BindRec
<1>3. Same(bind[o], x)
  BY <1>1, AllMoved
<1>4. Follows(bind[o], y)
  BY <1>3 DEF Same, Follows
<1>5. bind' = [moved(bind) EXCEPT ![o] = y]
  BY <1>1 DEF negative
<1> HIDE DEF y
<1> QED
  BY <1>2, <1>4, <1>5, OneReadsOn

\* A binding in the map has the floor, so a bind that returns is not the current one.
LEMMA ReturnsIs ==
    ASSUME ReceiptInv, NEW o \in Object, bind[o] # None, bind[o].pc # "done", bindReturns(o)
    PROVE  /\ sock' = sock
           /\ bind' \in BindMap
           /\ \A p \in Object : bind'[p] # None <=> bind[p] # None
           /\ \A p \in Object : bind[p] # None => Follows(bind[p], bind'[p])
<1>1. BindingKept(o, bind[o], sock[o[1]], authorities)
  BY Apart
<1>2. ~ (currentReceiptBinding(o) /\ ~ ownsReceiptAuthorityFloor(o))
  BY <1>1 DEF BindingKept, currentReceiptBinding, ownsReceiptAuthorityFloor
<1>3. sock' = sock /\ bind' = [moved(bind) EXCEPT ![o].pc = "done"]
  BY <1>2 DEF bindReturns
<1>4. PICK x \in BindRec : x = moved(bind)[o]
  BY AllMoved DEF Same
<1> DEFINE y == [x EXCEPT !.pc = "done"]
<1>5. y \in BindRec
  BY DEF BindRec
<1>6. Same(bind[o], x)
  BY <1>4, AllMoved
<1>7. Follows(bind[o], y)
  BY <1>6 DEF Same, Follows
<1>8. bind' = [moved(bind) EXCEPT ![o] = y]
  BY <1>3, <1>4
<1> HIDE DEF y
<1> QED
  BY <1>3, <1>5, <1>7, <1>8, OneReadsOn

\* Bindings read on, and nothing else changes.
LEMMA BindsReadOn ==
    ASSUME ReceiptInv, QuietTypes', sock' = sock, bind' \in BindMap,
           \A p \in Object : bind'[p] # None <=> bind[p] # None,
           \A p \in Object : bind[p] # None => Follows(bind[p], bind'[p]),
           admit' = admit, authorities' = authorities, leases' = leases
    PROVE  ReceiptInv' /\ Forward
BY ReadOn, Apart

\* The first read is back.
LEMMA FirstReadKeep ==
    ASSUME ReceiptInv, NEW o \in Object, firstRead(o)
    PROVE  ReceiptInv' /\ Forward
<1>1. /\ bind[o] # None /\ bind[o].pc = "first" /\ Resumes(o)
      /\ admit' = admit /\ UNCHANGED <<polling, poll>>
  BY DEF firstRead
<1>2. BindingKept(o, bind[o], sock[o[1]], authorities)
  BY <1>1, Apart
<1>3. bind[o].proof = None
  BY <1>1, <1>2 DEF BindingKept
<1>4. CASE bindReturns(o)
  <2>1. QuietTypes'
    BY <1>1, <1>4, Quietly, Read DEF bindReturns
  <2>2. authorities' = authorities /\ leases' = leases
    BY <1>4 DEF bindReturns, registry
  <2> QED
    BY <1>1, <1>4, <2>1, <2>2, ReturnsIs, BindsReadOn
<1>5. CASE negative(o) /\ sock' = sock
  <2>1. QuietTypes'
    BY <1>1, <1>5, Quietly, Read DEF negative
  <2>2. authorities' = authorities /\ leases' = leases
    BY <1>5 DEF negative, registry
  <2> QED
    BY <1>1, <1>3, <1>5, <2>1, <2>2, NegativeIs, BindsReadOn
<1>6. ASSUME sock' = sock, read.result \in Inventory, snapshot' = snapshotMoved, UNCHANGED registry,
             bind' = [moved(bind) EXCEPT ![o].pc = "second", ![o].first = read.result]
      PROVE  ReceiptInv' /\ Forward
  <2>1. QuietTypes' /\ authorities' = authorities /\ leases' = leases
    BY <1>1, <1>6, Quietly, Read DEF registry
  <2>2. PICK x \in BindRec : x = moved(bind)[o]
    BY <1>1, AllMoved DEF Same
  <2> DEFINE y == [x EXCEPT !.pc = "second", !.first = read.result]
  <2>3. y \in BindRec
    BY <1>6 DEF BindRec
  <2>4. Same(bind[o], x)
    BY <1>1, <2>2, AllMoved
  <2>5. /\ y.authority = x.authority /\ y.cascaded = x.cascaded /\ y.proof = x.proof
        /\ y.invalidated = x.invalidated /\ y.first = read.result
    BY DEF BindRec
  <2>6. Follows(bind[o], y)
    BY <1>1, <1>6, <2>4, <2>5 DEF Same, Follows
  <2>7. bind' = [moved(bind) EXCEPT ![o] = y]
    BY <1>6, <2>2
  <2> HIDE DEF y
  <2> QED
    BY <1>1, <1>6, <2>1, <2>3, <2>6, <2>7, OneReadsOn, BindsReadOn
<1>7. \/ bindReturns(o)
      \/ negative(o) /\ sock' = sock
      \/ /\ sock' = sock /\ read.result \in Inventory /\ snapshot' = snapshotMoved
         /\ UNCHANGED registry
         /\ bind' = [moved(bind) EXCEPT ![o].pc = "second", ![o].first = read.result]
  BY DEF firstRead
<1> QED
  BY <1>4, <1>5, <1>6, <1>7

\* The read after the session was made is back.
LEMMA PublishedKeep ==
    ASSUME ReceiptInv, NEW a \in Admission, published(a)
    PROVE  ReceiptInv' /\ Forward
<1> USE Apart
<1>1. /\ admit[a] # None /\ admit[a].pc = "publish" /\ Resumes(a) /\ bind' = moved(bind)
      /\ snapshot' = snapshotMoved /\ sock' = sock /\ UNCHANGED <<polling, poll>>
  BY DEF published
<1>2. QuietTypes'
  BY <1>1, Quietly, Read
<1>3. /\ bind' \in BindMap /\ \A p \in Object : bind'[p] # None <=> bind[p] # None
      /\ \A p \in Object : bind[p] # None => Follows(bind[p], bind'[p])
  BY <1>1, AllMoved
<1>4. ASSUME NEW pc \in {"retiring", "served"}, admit' = [admit EXCEPT ![a].pc = pc],
             UNCHANGED registry
      PROVE  ReceiptInv' /\ Forward
  <2>1. authorities' = authorities /\ leases' = leases
    BY <1>4 DEF registry
  <2>2. /\ admit' \in [Admission -> AdmitRec \cup {None}]
        /\ admit'[a] # None /\ admit'[a].pc = pc /\ admit'[a].of = admit[a].of
        /\ \A b \in Admission : b # a => admit'[b] = admit[b]
    BY <1>1, <1>4, AdmissionGoesOn
  <2>3. ASSUME NEW b \in Admission PROVE AdmissionKept(admit'[b], leases'[b], bind)
    <3>1. AdmissionKept(admit[b], leases[b], bind)
      OBVIOUS
    <3>2. b = a => AdmissionKept(admit'[a], leases'[a], bind)
      BY <1>1, <2>1, <2>2, <3>1 DEF AdmissionKept
    <3> QED
      BY <2>1, <2>2, <3>1, <3>2
  <2> QED
    BY <1>1, <1>2, <1>3, <2>1, <2>2, <2>3, ReadOn
<1>5. ASSUME admit' = Idle(admit, a), Registry!release(a)
      PROVE  ReceiptInv' /\ Forward
  BY <1>1, <1>2, <1>3, <1>5, AdmissionEnds, Releases, ReadOn DEF AdmissionKept
<1>6. \/ admit' = [admit EXCEPT ![a].pc = "retiring"] /\ UNCHANGED registry
      \/ admit' = [admit EXCEPT ![a].pc = "served"] /\ UNCHANGED registry
      \/ admit' = Idle(admit, a) /\ Registry!release(a)
  BY DEF published
<1> QED
  BY <1>4, <1>5, <1>6

\* An INVOKE begins its admission.
LEMMA AdmitKeep ==
    ASSUME ReceiptInv, NEW a \in Admission, NEW o \in Object, admitReadyWorkload(a, o)
    PROVE  ReceiptInv' /\ Forward
<1> USE Apart
<1>1. /\ sock' = sock /\ bind' = bind /\ QuietTypes' /\ authorities' = authorities
      /\ leases' = leases /\ admit[a] = None
      /\ o[2] \in sock[o[1]].bindings /\ bind[o].proof # None
  BY DEF admitReadyWorkload, QuietTypes, registry
<1>2. bind' \in BindMap /\ \A p \in Object : bind[p] # None => Follows(bind[p], bind'[p])
  BY <1>1, AllMoved
<1> DEFINE y == [pc |-> "verify", of |-> o, cascaded |-> FALSE]
<1>3. admit' = [admit EXCEPT ![a] = y]
  BY DEF admitReadyWorkload
<1>4. y \in AdmitRec /\ y.pc = "verify" /\ y.of = o
  BY DEF AdmitRec, Object
<1> HIDE DEF y
<1>5. bind[o] # None
  BY <1>1
<1>6. BindingKept(o, bind[o], sock[o[1]], authorities)
  BY <1>5
<1>7. bind[o].pc = "done"
  BY <1>1, <1>6 DEF BindingKept
<1>8. ASSUME NEW b \in Admission PROVE AdmissionKept(admit'[b], leases'[b], bind)
  <2>1. AdmissionKept(admit[b], leases[b], bind)
    OBVIOUS
  <2>2. AdmissionKept(admit[a], leases[a], bind)
    OBVIOUS
  <2>3. leases[a] = None \/ leases[a].released
    BY <1>1, <2>2 DEF AdmissionKept
  <2>4. AdmissionKept(y, leases[a], bind)
    BY <1>4, <1>5, <1>7, <2>3 DEF AdmissionKept
  <2> QED
    BY <1>1, <1>3, <2>1, <2>4
<1>9. admit' \in [Admission -> AdmitRec \cup {None}]
  BY <1>3, <1>4
<1> QED
  BY <1>1, <1>2, <1>8, <1>9, ReadOn

\* The lease an admission takes is under what its binding presents.
LEMMA Acquires ==
    ASSUME ReceiptInv, NEW a \in Admission, NEW o \in Object, bind[o] # None, NEW e \in Entry,
           Registry!acquireActivity(a, candidate(o), FALSE, e)
    PROVE  /\ leases' \in [Admission -> Registry!LeaseRec \cup {None}]
           /\ authorities' = authorities
           /\ leases'[a].authority = Presented(o, bind[o])
           /\ \A b \in Admission : b # a => leases'[b] = leases[b]
<1>1. PICK x \in BindRec : x = bind[o]
  BY AllMoved DEF BindMap
<1>2. candidate(o).workspace = x.authority.workspace
  BY <1>1 DEF candidate, invokeCandidate
<1>3. x.authority.workspace \in Workspace
  BY <1>1, ReceiptAssumption DEF BindRec
<1> DEFINE r == Registry!requireAuthority(candidate(o))
           l == [authority |-> r, entry |-> e, exclusive |-> FALSE, released |-> FALSE]
<1>4. /\ authorities[x.authority.workspace] = r /\ authorities[x.authority.workspace] # None
      /\ leases' = [leases EXCEPT ![a] = l] /\ authorities' = authorities
  BY <1>2 DEF Registry!acquireActivity, Registry!sameAuthority
<1>5. r \in Registry!Authority
  BY <1>3, <1>4, Apart
<1>6. r = Presented(o, bind[o])
  BY DEF Presented, candidate
<1> HIDE DEF r
<1>7. l \in Registry!LeaseRec /\ l.authority = r
  BY <1>5 DEF Registry!LeaseRec
<1> HIDE DEF l
<1>8. leases \in [Admission -> Registry!LeaseRec \cup {None}]
  BY Apart
<1> QED
  BY <1>4, <1>6, <1>7, <1>8

\* A binding whose inventory is stale loses its proof.
LEMMA LosesProof ==
    ASSUME ReceiptInv, NEW o \in Object, bind[o] # None,
           bind' = [moved(invalidated(bind, {o})) EXCEPT ![o].phase = "negative", ![o].proof = None]
    PROVE  /\ bind' \in BindMap
           /\ \A p \in Object : bind'[p] # None <=> bind[p] # None
           /\ \A p \in Object : bind[p] # None => Follows(bind[p], bind'[p])
<1> DEFINE f == invalidated(bind, {o})
           g == moved(f)
<1>0. bind \in BindMap
  BY AllMoved
<1>1. /\ f \in BindMap /\ \A p \in Object : f[p] # None <=> bind[p] # None
      /\ \A p \in Object : p # o => f[p] = bind[p]
      /\ f[o].authority = bind[o].authority /\ f[o].pc = bind[o].pc
      /\ f[o].first = bind[o].first /\ f[o].cascaded = bind[o].cascaded
  <2>1. {o} \in SUBSET Object /\ \A p \in {o} : bind[p] # None
    OBVIOUS
  <2> QED
    BY <1>0, <2>1, Invalidates
<1> HIDE DEF f
<1>2. /\ g \in BindMap /\ \A p \in Object : g[p] # None <=> f[p] # None
      /\ \A p \in Object : f[p] # None => Same(f[p], g[p])
  BY <1>1, Moves
<1>3. bind' = [g EXCEPT ![o].phase = "negative", ![o].proof = None]
  BY DEF f
<1> HIDE DEF g
<1>4. PICK x \in BindRec : x = g[o]
  BY <1>1, <1>2 DEF BindMap
<1> DEFINE y == [x EXCEPT !.phase = "negative", !.proof = None]
<1>5. /\ y \in BindRec /\ y.authority = x.authority /\ y.cascaded = x.cascaded
      /\ y.proof = None /\ y.pc = x.pc /\ y.first = x.first
  BY DEF BindRec
<1>6. bind' = [g EXCEPT ![o] = y]
  BY <1>3, <1>4
<1> HIDE DEF y
<1>7. BindingKept(o, bind[o], sock[o[1]], authorities)
  BY Apart
<1>8. Follows(bind[o], y)
  BY <1>1, <1>2, <1>4, <1>5, <1>7 DEF Same, Follows, BindingKept
<1>9. bind' \in BindMap
  BY <1>2, <1>5, <1>6 DEF BindMap
<1>10. bind'[o] = y /\ \A p \in Object : p # o => bind'[p] = g[p]
  BY <1>2, <1>6 DEF BindMap
<1>11. ASSUME NEW p \in Object
       PROVE  /\ bind'[p] # None <=> bind[p] # None
              /\ bind[p] # None => Follows(bind[p], bind'[p])
  <2>1. CASE p = o
    BY <1>5, <1>8, <1>10, <2>1, NoneAssumption
  <2>2. CASE p # o
    <3>1. f[p] = bind[p] /\ bind'[p] = g[p]
      BY <1>1, <1>10, <2>2
    <3>2. bind'[p] # None <=> bind[p] # None
      BY <1>2, <3>1
    <3>3. bind[p] # None => Same(bind[p], bind'[p])
      BY <1>2, <3>1
    <3> QED
      BY <3>2, <3>3, SameFollows
  <2> QED
    BY <2>1, <2>2
<1> QED
  BY <1>9, <1>11

\* The read before admission is back.
LEMMA VerifiedKeep ==
    ASSUME ReceiptInv, NEW a \in Admission, NEW refused \in BOOLEAN, verified(a, refused)
    PROVE  ReceiptInv' /\ Forward
<1> USE Apart
<1> DEFINE o == admit[a].of
<1>1. /\ admit[a] # None /\ admit[a].pc = "verify" /\ Resumes(a)
      /\ snapshot' = snapshotMoved /\ sock' = sock /\ UNCHANGED <<polling, poll>>
  BY DEF verified
<1>2. QuietTypes'
  BY <1>1, Quietly, Read
<1>3. o \in Object /\ bind[o] # None /\ bind[o].pc = "done"
  <2>1. admit[a] \in AdmitRec /\ AdmissionKept(admit[a], leases[a], bind)
    BY <1>1
  <2> QED
    BY <1>1, <2>1 DEF AdmitRec, AdmissionKept, Object
<1>4. CASE rotated(a) \/ refused
  <2>1. /\ admit' = Idle(admit, a) /\ authorities' = authorities /\ leases' = leases
        /\ \/ bind' = [moved(invalidated(bind, {o})) EXCEPT
                         ![o].phase = "negative", ![o].proof = None]
           \/ bind' = moved(bind)
    BY <1>4 DEF verified, registry
  <2>2. /\ bind' \in BindMap /\ \A p \in Object : bind'[p] # None <=> bind[p] # None
        /\ \A p \in Object : bind[p] # None => Follows(bind[p], bind'[p])
    BY <1>3, <2>1, LosesProof, AllMoved
  <2>3. AdmissionKept(admit[a], leases[a], bind)
    OBVIOUS
  <2>4. leases[a] = None \/ leases[a].released
    BY <1>1, <2>3 DEF AdmissionKept
  <2>5. \A b \in Admission : AdmissionKept(admit'[b], leases'[b], bind)
    BY <2>1, <2>4, AdmissionEnds DEF AdmissionKept
  <2> QED
    BY <1>1, <1>2, <2>1, <2>2, <2>5, AdmissionEnds, ReadOn
<1>5. CASE ~ (rotated(a) \/ refused)
  <2>1. admit' = [admit EXCEPT ![a].pc = "pool"] /\ bind' = moved(bind)
    BY <1>5 DEF verified
  <2>2. PICK e \in Entry : Registry!acquireActivity(a, candidate(o), FALSE, e)
    BY <1>5 DEF verified
  <2>3. /\ leases' \in [Admission -> Registry!LeaseRec \cup {None}]
        /\ authorities' = authorities
        /\ leases'[a].authority = Presented(o, bind[o])
        /\ \A b \in Admission : b # a => leases'[b] = leases[b]
    BY <1>3, <2>2, Acquires
  <2>4. /\ admit' \in [Admission -> AdmitRec \cup {None}]
        /\ admit'[a] # None /\ admit'[a].pc = "pool" /\ admit'[a].of = o
        /\ \A b \in Admission : b # a => admit'[b] = admit[b]
    BY <1>1, <2>1, AdmissionGoesOn
  <2>5. AdmissionKept(admit'[a], leases'[a], bind)
    BY <1>3, <2>3, <2>4 DEF AdmissionKept
  <2>6. \A b \in Admission : AdmissionKept(admit'[b], leases'[b], bind)
    BY <2>3, <2>4, <2>5
  <2>7. /\ bind' \in BindMap /\ \A p \in Object : bind'[p] # None <=> bind[p] # None
        /\ \A p \in Object : bind[p] # None => Follows(bind[p], bind'[p])
    BY <2>1, AllMoved
  <2> QED
    BY <1>1, <1>2, <2>3, <2>4, <2>6, <2>7, ReadOn
<1> QED
  BY <1>4, <1>5

-----------------------------------------------------------------------------
(* Steps of the sockets.                                                   *)

\* A socket that is fenced or that the daemon closes.
LEMMA FencedGoes ==
    ASSUME NEW k \in SockRec, k.up \in {"open", "closing"},
           NEW m \in SockRec, m.up \in {"open", "closing"},
           m.receiptCommitted => k.receiptCommitted,
           m.bindings = k.bindings, m.retired = k.retired, m.floor = k.floor
    PROVE  SocketGoes(k, m)
BY DEF SocketGoes

\* Sockets go on while bindings and the registry stay.
LEMMA SocketsGo ==
    ASSUME ReceiptInv, QuietTypes', sock' \in [Socket -> SockRec],
           \A s \in Socket : SocketGoes(sock[s], sock'[s]),
           \A s \in Socket : sock[s].bindings \subseteq sock'[s].bindings,
           bind' = bind, admit' = admit, UNCHANGED registry
    PROVE  ReceiptInv' /\ Forward
<1>1. authorities' = authorities /\ leases' = leases
  BY DEF registry
<1>2. \A o \in Object : bind[o] # None => Follows(bind[o], bind[o])
  BY AllMoved
<1>3. \A o \in Object : bind[o] # None =>
         GoesOn(o, bind[o], bind'[o], sock[o[1]], sock'[o[1]], authorities, authorities')
  BY <1>1, <1>2, ObjectParts DEF GoesOn
<1> QED
  BY <1>1, <1>3, Apart, Onward

\* The daemon closes a socket.
LEMMA ClosingIs ==
    ASSUME ReceiptInv, NEW s \in Socket, Connected(s), sock' = closing(sock, s)
    PROVE  /\ sock' \in [Socket -> SockRec]
           /\ \A t \in Socket : SocketGoes(sock[t], sock'[t])
           /\ \A t \in Socket : sock[t].bindings = sock'[t].bindings
<1>1. sock \in [Socket -> SockRec]
  BY Apart
<1>2. PICK k \in SockRec : k = sock[s]
  BY <1>1
<1> DEFINE m == [k EXCEPT !.up = "closing"]
<1>3. /\ m \in SockRec /\ m.up = "closing" /\ m.receiptCommitted = k.receiptCommitted
      /\ m.bindings = k.bindings /\ m.retired = k.retired /\ m.floor = k.floor
  BY DEF SockRec
<1>4. sock' = [sock EXCEPT ![s] = m]
  BY <1>2 DEF closing
<1> HIDE DEF m
<1>5. SocketGoes(k, m)
  BY <1>2, <1>3, FencedGoes DEF Connected
<1>6. /\ sock' \in [Socket -> SockRec] /\ sock'[s] = m
      /\ \A t \in Socket : t # s => sock'[t] = sock[t]
  BY <1>1, <1>3, <1>4
<1> QED
  BY <1>2, <1>3, <1>5, <1>6, SocketStays

\* The disposals of a cascade are over.
LEMMA CascadeEndsKeep ==
    ASSUME ReceiptInv, cascadeEnds
    PROVE  ReceiptInv' /\ Forward
<1> USE Apart
<1>1. /\ bind' = bind /\ admit' = admit /\ UNCHANGED registry /\ QuietTypes'
  BY DEF cascadeEnds, QuietTypes
<1>2. ASSUME NEW s \in Socket
      PROVE  /\ sock'[s] \in SockRec /\ SocketGoes(sock[s], sock'[s])
             /\ sock[s].bindings = sock'[s].bindings
  <2>1. PICK k \in SockRec : k = sock[s]
    OBVIOUS
  <2> DEFINE m == [k EXCEPT !.committed = FALSE, !.receiptCommitted = FALSE, !.up = "closing"]
  <2>2. CASE Connected(s)
    <3>1. sock'[s] = m
      BY <2>1, <2>2 DEF cascadeEnds
    <3>2. /\ m \in SockRec /\ m.up = "closing" /\ ~ m.receiptCommitted
          /\ m.bindings = k.bindings /\ m.retired = k.retired /\ m.floor = k.floor
      BY DEF SockRec
    <3> HIDE DEF m
    <3>3. SocketGoes(k, m)
      BY <2>1, <2>2, <3>2, FencedGoes DEF Connected
    <3> QED
      BY <2>1, <3>1, <3>2, <3>3
  <2>3. CASE ~ Connected(s)
    BY <2>3, SocketStays DEF cascadeEnds
  <2> QED
    BY <2>2, <2>3
<1>3. sock' \in [Socket -> SockRec]
  <2>1. sock' = [s \in Socket |-> sock'[s]]
    BY DEF cascadeEnds
  <2> QED
    BY <1>2, <2>1
<1> QED
  BY <1>1, <1>2, <1>3, SocketsGo

\* Bindings that leave the map of their socket while it goes on.
LEMMA LeaveTogether ==
    ASSUME ReceiptInv, QuietTypes', sock' \in [Socket -> SockRec],
           \A s \in Socket : SocketGoes(sock[s], sock'[s]),
           NEW O \in SUBSET Object, \A o \in O : bind[o] # None,
           \A o \in O : o[2] \notin sock'[o[1]].bindings,
           \A o \in Object : o \notin O =>
               (o[2] \in sock[o[1]].bindings => o[2] \in sock'[o[1]].bindings),
           bind' = invalidated(bind, O), retireBindings(O), admit' = admit
    PROVE  ReceiptInv' /\ Forward
<1>1. /\ authorities' \in [Workspace -> Registry!Authority \cup {None}] /\ leases' = leases
      /\ \A o \in Object : bind[o] # None /\ bind[o].proof # None =>
           /\ o \in O => ~ Adopts(authorities', o, bind[o])
           /\ o \notin O =>
                 (Adopts(authorities', o, bind[o]) <=> Adopts(authorities, o, bind[o]))
  BY Retires
<1>2. bind \in BindMap
  BY AllMoved
<1>3. /\ bind' \in BindMap
      /\ \A o \in Object : bind'[o] # None <=> bind[o] # None
      /\ \A o \in Object : o \notin O => bind'[o] = bind[o]
      /\ \A o \in O : /\ bind'[o].authority = bind[o].authority /\ bind'[o].proof = bind[o].proof
                      /\ bind'[o].pc = bind[o].pc /\ bind'[o].first = bind[o].first
                      /\ bind'[o].cascaded = bind[o].cascaded
  BY <1>2, Invalidates
<1>4. ASSUME NEW o \in Object, bind[o] # None
      PROVE  \/ GoesOn(o, bind[o], bind'[o], sock[o[1]], sock'[o[1]], authorities, authorities')
             \/ Leaves(o, bind[o], bind'[o], sock'[o[1]], authorities')
  <2>1. CASE o \in O
    BY <1>1, <1>3, <1>4, <2>1 DEF Leaves
  <2>2. CASE o \notin O
    <3>1. bind'[o] = bind[o] /\ Follows(bind[o], bind'[o])
      BY <1>3, <1>4, <2>2, AllMoved
    <3> QED
      BY <1>1, <1>4, <2>2, <3>1 DEF GoesOn
  <2> QED
    BY <2>1, <2>2
<1> QED
  BY <1>1, <1>3, <1>4, Apart, Onward DEF BindMap

\* The close event.
LEMMA ClosedKeep ==
    ASSUME ReceiptInv, NEW s \in Socket, closed(s)
    PROVE  ReceiptInv' /\ Forward
<1> DEFINE O == Objects(s, sock[s].bindings)
<1>1. /\ Connected(s) /\ admit' = admit /\ QuietTypes'
      /\ sock \in [Socket -> SockRec]
  BY Apart DEF closed, QuietTypes
<1>2. PICK k \in SockRec : k = sock[s]
  BY <1>1
<1> DEFINE receipt == k.receiptCommitted
           m == [k EXCEPT !.up = "closed", !.committed = FALSE, !.receiptCommitted = FALSE,
                          !.bindings = IF receipt THEN {} ELSE k.bindings,
                          !.retired = IF receipt THEN {} ELSE k.retired]
<1>3. sock' = [sock EXCEPT ![s] = m]
  BY <1>2 DEF closed
<1>4. /\ m \in SockRec /\ m.up = "closed" /\ ~ m.receiptCommitted /\ m.floor = k.floor
      /\ m.bindings = (IF receipt THEN {} ELSE k.bindings)
      /\ m.retired = (IF receipt THEN {} ELSE k.retired)
  BY DEF SockRec
<1> HIDE DEF m
<1>5. SocketGoes(k, m)
  BY <1>1, <1>2, <1>4 DEF SocketGoes, Connected
<1>6. /\ sock' \in [Socket -> SockRec] /\ sock'[s] = m
      /\ \A t \in Socket : t # s => sock'[t] = sock[t]
  BY <1>1, <1>3, <1>4
<1>7. \A t \in Socket : SocketGoes(sock[t], sock'[t])
  BY <1>2, <1>5, <1>6, SocketStays
<1>8. CASE receipt
  <2>1. bind' = invalidated(bind, O) /\ retireBindings(O)
    BY <1>2, <1>8 DEF closed
  <2>2. sock[s].bindings \in SUBSET BindingId
    BY <1>2 DEF SockRec
  <2>3. O \in SUBSET Object /\ \A o \in Object : o \in O <=> o[1] = s /\ o[2] \in sock[s].bindings
    BY <2>2, ObjectsOf
  <2> HIDE DEF O
  <2>4. \A o \in O : bind[o] # None
    BY <2>3, Apart
  <2>5. \A o \in O : o[2] \notin sock'[o[1]].bindings
    BY <1>4, <1>6, <1>8, <2>3
  <2>6. \A o \in Object : o \notin O =>
           (o[2] \in sock[o[1]].bindings => o[2] \in sock'[o[1]].bindings)
    BY <1>6, <2>3, ObjectParts
  <2> QED
    BY <1>1, <1>6, <1>7, <2>1, <2>3, <2>4, <2>5, <2>6, LeaveTogether
<1>9. CASE ~ receipt
  <2>1. bind' = bind /\ UNCHANGED registry
    BY <1>2, <1>9 DEF closed
  <2>2. \A t \in Socket : sock[t].bindings \subseteq sock'[t].bindings
    BY <1>2, <1>4, <1>6, <1>9
  <2> QED
    BY <1>1, <1>6, <1>7, <2>1, <2>2, SocketsGo
<1> QED
  BY <1>8, <1>9

\* Bindings of a socket are moved to its retired ones; the socket may be closed.
LEMMA RetiredIs ==
    ASSUME ReceiptInv, NEW s \in Socket, Connected(s), NEW B \in SUBSET sock[s].bindings,
           NEW fails \in BOOLEAN,
           sock' = (IF fails THEN closing(retireSuperseded(sock, s, B), s)
                             ELSE retireSuperseded(sock, s, B))
    PROVE  /\ sock' \in [Socket -> SockRec]
           /\ \A t \in Socket : SocketGoes(sock[t], sock'[t])
           /\ sock'[s].bindings = sock[s].bindings \ B
           /\ \A t \in Socket : t # s => sock'[t] = sock[t]
<1>1. sock \in [Socket -> SockRec]
  BY Apart
<1>2. PICK k \in SockRec : k = sock[s]
  BY <1>1
<1>3. k.bindings \subseteq BindingId /\ k.retired \subseteq BindingId
  BY DEF SockRec
<1> DEFINE n == [k EXCEPT !.bindings = k.bindings \ B, !.retired = k.retired \cup B]
           m == [n EXCEPT !.up = "closing"]
<1>4. /\ n \in SockRec /\ n.up = k.up /\ n.receiptCommitted = k.receiptCommitted
      /\ n.floor = k.floor /\ n.bindings = k.bindings \ B /\ n.retired = k.retired \cup B
  BY <1>2, <1>3 DEF SockRec
<1>5. retireSuperseded(sock, s, B) = [sock EXCEPT ![s] = n]
  BY <1>1, <1>2 DEF retireSuperseded
<1> HIDE DEF n
<1>6. /\ m \in SockRec /\ m.up = "closing" /\ m.receiptCommitted = n.receiptCommitted
      /\ m.floor = n.floor /\ m.bindings = n.bindings /\ m.retired = n.retired
  BY <1>4 DEF SockRec
<1>7. closing(retireSuperseded(sock, s, B), s) = [sock EXCEPT ![s] = m]
  BY <1>1, <1>5 DEF closing
<1> HIDE DEF m
<1>8. PICK j \in {n, m} : sock' = [sock EXCEPT ![s] = j]
  BY <1>5, <1>7
<1>9. /\ j \in SockRec /\ j.up \in {"open", "closing"} /\ j.receiptCommitted = k.receiptCommitted
      /\ j.floor = k.floor /\ j.bindings = k.bindings \ B /\ j.retired = k.retired \cup B
  BY <1>2, <1>4, <1>6, <1>8 DEF Connected
<1>10. SocketGoes(k, j)
  <2>1. k.up \in {"open", "closing"} /\ B \subseteq k.bindings
    BY <1>2 DEF Connected
  <2> QED
    BY <1>9, <2>1 DEF SocketGoes
<1>11. /\ sock' \in [Socket -> SockRec] /\ sock'[s] = j
       /\ \A t \in Socket : t # s => sock'[t] = sock[t]
  BY <1>1, <1>8, <1>9
<1> QED
  BY <1>2, <1>9, <1>10, <1>11, SocketStays

\* UNBIND_WORKSPACE.
LEMMA UnbindKeep ==
    ASSUME ReceiptInv, NEW s \in Socket, NEW b \in BindingId, NEW fails \in BOOLEAN,
           unbindReceiptBinding(s, b, fails)
    PROVE  ReceiptInv' /\ Forward
<1> DEFINE o == <<s, b>>
<1>1. Connected(s) /\ admit' = admit /\ QuietTypes' /\ (b \in sock[s].bindings \/ fails)
  BY Apart DEF unbindReceiptBinding, QuietTypes
<1>2. CASE b \in sock[s].bindings
  <2>1. /\ bind' = invalidated(bind, {o}) /\ retireBindings({o})
        /\ sock' = (IF fails THEN closing(retireSuperseded(sock, s, {b}), s)
                             ELSE retireSuperseded(sock, s, {b}))
    BY <1>2 DEF unbindReceiptBinding
  <2>2. {b} \in SUBSET sock[s].bindings
    BY <1>2
  <2>3. /\ sock' \in [Socket -> SockRec]
        /\ \A t \in Socket : SocketGoes(sock[t], sock'[t])
        /\ sock'[s].bindings = sock[s].bindings \ {b}
        /\ \A t \in Socket : t # s => sock'[t] = sock[t]
    BY <1>1, <2>1, <2>2, RetiredIs
  <2>4. o \in Object /\ o[1] = s /\ o[2] = b
    BY ObjectParts
  <2>5. bind[o] # None
    BY <1>2, <2>4, Apart
  <2>6. \A p \in Object : p # o =>
           (p[2] \in sock[p[1]].bindings => p[2] \in sock'[p[1]].bindings)
    BY <2>3, ObjectParts
  <2> HIDE DEF o
  <2>7. {o} \in SUBSET Object /\ \A p \in {o} : bind[p] # None /\ p[2] \notin sock'[p[1]].bindings
    BY <2>3, <2>4, <2>5
  <2> QED
    BY <1>1, <2>1, <2>3, <2>6, <2>7, LeaveTogether
<1>3. CASE b \notin sock[s].bindings
  <2>1. sock' = closing(sock, s) /\ bind' = bind /\ UNCHANGED registry
    BY <1>1, <1>3 DEF unbindReceiptBinding
  <2> QED
    BY <1>1, <2>1, ClosingIs, SocketsGo
<1> QED
  BY <1>2, <1>3

\* A socket registers.
LEMMA RegisterKeep ==
    ASSUME ReceiptInv, NEW s \in Socket, registerOk(s)
    PROVE  ReceiptInv' /\ Forward
<1> USE Apart
<1>1. /\ sock[s].up = "unused" /\ \A t \in 1 .. s - 1 : sock[t].up = "closed"
      /\ bind' = bind /\ admit' = admit /\ authorities' = authorities /\ leases' = leases
      /\ QuietTypes'
  BY DEF registerOk, registry, QuietTypes
<1>2. PICK k \in SockRec : k = sock[s]
  OBVIOUS
<1> DEFINE m == [k EXCEPT !.up = "open", !.committed = TRUE, !.receiptCommitted = TRUE]
<1>3. sock' = [sock EXCEPT ![s] = m]
  BY <1>2 DEF registerOk
<1>4. /\ m \in SockRec /\ m.up = "open" /\ m.floor = k.floor
      /\ m.bindings = k.bindings /\ m.retired = k.retired
  BY DEF SockRec
<1> HIDE DEF m
<1>5. /\ sock' \in [Socket -> SockRec] /\ sock'[s] = m
      /\ \A t \in Socket : t # s => sock'[t] = sock[t]
  BY <1>3, <1>4
<1>6. k.bindings = {} /\ k.retired = {}
  BY <1>1, <1>2 DEF SocketKept
<1>7. ASSUME NEW t \in Socket PROVE SocketKept(sock'[t], Earlier(sock', t))
  <2>1. SocketKept(sock[t], Earlier(sock, t))
    OBVIOUS
  <2>2. ASSUME sock'[t].up # "unused", NEW j \in Earlier(sock', t) PROVE j.up = "closed"
    <3>1. PICK u \in 1 .. t - 1 : j = sock'[u]
      BY <2>2 DEF Earlier
    <3>2. u \in Socket
      BY <3>1, ReceiptAssumption DEF Socket
    <3>3. CASE t = s
      <4>1. u # s
        BY <3>1, <3>2, <3>3, ReceiptAssumption DEF Socket
      <4> QED
        BY <1>1, <1>5, <3>1, <3>2, <3>3, <4>1
    <3>4. CASE t # s
      <4>1. sock[u].up = "closed"
        BY <1>5, <2>1, <2>2, <3>1, <3>4 DEF SocketKept, Earlier
      <4>2. u # s
        BY <1>1, <4>1
      <4> QED
        BY <1>5, <3>1, <3>2, <4>1, <4>2
    <3> QED
      BY <3>3, <3>4
  <2>3. sock'[t].up = "unused" => sock'[t].bindings = {} /\ sock'[t].retired = {}
    BY <1>4, <1>5, <2>1 DEF SocketKept
  <2>4. sock'[t].receiptCommitted => sock'[t].up \in {"open", "closing"}
    BY <1>4, <1>5, <2>1 DEF SocketKept
  <2> QED
    BY <2>2, <2>3, <2>4 DEF SocketKept
<1>8. \A t \in Socket : /\ sock'[t].bindings = sock[t].bindings
                        /\ sock'[t].retired = sock[t].retired
                        /\ sock'[t].floor = sock[t].floor
  BY <1>2, <1>4, <1>5
<1>9. ASSUME NEW o \in Object, bind'[o] # None
      PROVE  BindingKept(o, bind'[o], sock'[o[1]], authorities')
  <2>1. BindingKept(o, bind[o], sock[o[1]], authorities)
    BY <1>1, <1>9
  <2>2. o[1] # s
    BY <1>1, <2>1 DEF BindingKept
  <2> QED
    BY <1>1, <1>5, <2>1, <2>2, ObjectParts
<1>10. \A o \in Object : o[2] \in sock'[o[1]].bindings \cup sock'[o[1]].retired
                            => bind'[o] # None
  BY <1>1, <1>8, ObjectParts
<1>11. \A o, p \in Object :
          /\ o[1] = p[1] /\ o[2] \in sock'[o[1]].bindings /\ p[2] \in sock'[p[1]].bindings
          /\ bind'[o].authority.workspace = bind'[p].authority.workspace
          => o = p
  BY <1>1, <1>8, ObjectParts
<1>12. ReceiptInv'
  BY <1>1, <1>5, <1>7, <1>9, <1>10, <1>11, Together
<1> QED
  BY <1>1, <1>8, <1>12, FloorStays DEF Forward

\* Sockets whose service does not change stay in order.
LEMMA SocketsAlike ==
    ASSUME ReceiptInv,
           \A t \in Socket : /\ sock'[t].up = sock[t].up
                             /\ sock'[t].receiptCommitted = sock[t].receiptCommitted
                             /\ sock[t].up = "unused" => sock'[t] = sock[t]
    PROVE  \A t \in Socket : SocketKept(sock'[t], Earlier(sock', t))
<1> TAKE t \in Socket
<1>1. SocketKept(sock[t], Earlier(sock, t))
  BY Apart
<1>2. ASSUME sock'[t].up # "unused", NEW j \in Earlier(sock', t) PROVE j.up = "closed"
  <2>1. PICK u \in 1 .. t - 1 : j = sock'[u]
    BY <1>2 DEF Earlier
  <2>2. u \in Socket
    BY <2>1, ReceiptAssumption DEF Socket
  <2>3. sock[u].up = "closed"
    BY <1>1, <1>2, <2>1 DEF SocketKept, Earlier
  <2> QED
    BY <2>1, <2>2, <2>3
<1> QED
  BY <1>1, <1>2 DEF SocketKept

\* One socket is connected at a time.
LEMMA OneConnected ==
    ASSUME ReceiptInv, NEW s \in Socket, NEW t \in Socket, Connected(s), Connected(t)
    PROVE  s = t
<1>1. ASSUME NEW u \in Socket, NEW v \in Socket, u < v, Connected(u), Connected(v) PROVE FALSE
  <2>1. SocketKept(sock[v], Earlier(sock, v))
    BY Apart
  <2>2. u \in 1 .. v - 1
    BY <1>1, ReceiptAssumption DEF Socket
  <2>3. sock[u].up = "closed"
    BY <1>1, <2>1, <2>2 DEF SocketKept, Earlier, Connected
  <2> QED
    BY <1>1, <2>3 DEF Connected
<1> QED
  BY <1>1, ReceiptAssumption DEF Socket

-----------------------------------------------------------------------------
(* A new binding.                                                          *)

\* No binding of the workspace stays beside the new one.
LEMMA SupersedesAll ==
    ASSUME ReceiptInv, NEW s \in Socket, NEW a \in BindAuthority, reservable(s, a)
    PROVE  /\ superseded(s, a) \subseteq sock[s].bindings
           /\ \A p \in Object : p[1] = s /\ p[2] \in sock[s].bindings
                 /\ bind[p].authority.workspace = a.workspace => p[2] \in superseded(s, a)
<1>1. superseded(s, a) \subseteq sock[s].bindings
  BY DEF superseded, OfWorkspace
<1>2. ASSUME NEW p \in Object, p[1] = s, p[2] \in sock[s].bindings,
             bind[p].authority.workspace = a.workspace
      PROVE  p[2] \in superseded(s, a)
  <2>1. bind[p] # None
    BY <1>2, Apart
  <2>2. BindingKept(p, bind[p], sock[p[1]], authorities)
    BY <2>1, Apart
  <2>3. sock[s].floor[a.workspace] # None
    BY <1>2, <2>2 DEF BindingKept
  <2>4. p = <<s, p[2]>>
    BY <1>2, ObjectParts
  <2>5. p[2] \in OfWorkspace(s, a.workspace)
    BY <1>2, <2>4 DEF OfWorkspace
  <2> QED
    BY <2>3, <2>5 DEF reservable, superseded
<1> QED
  BY <1>1, <1>2

\* What the socket keeps of its floors and bindings.
LEMMA ReservedIs ==
    ASSUME ReceiptInv, NEW s \in Socket, NEW b \in BindingId, NEW a \in BindAuthority,
           reservable(s, a), sock' = reserved(s, b, a)
    PROVE  /\ sock' \in [Socket -> SockRec]
           /\ \A t \in Socket : t # s => sock'[t] = sock[t]
           /\ sock'[s].up = sock[s].up /\ sock'[s].receiptCommitted = sock[s].receiptCommitted
           /\ sock'[s].bindings = (sock[s].bindings \ superseded(s, a)) \cup {b}
           /\ sock'[s].retired = sock[s].retired \cup superseded(s, a)
           /\ \A w \in Workspace : w # a.workspace => sock'[s].floor[w] = sock[s].floor[w]
           /\ sock'[s].floor[a.workspace] # None
           /\ sock'[s].floor[a.workspace].authority = a
           /\ sock[s].floor[a.workspace] # None =>
                 sock'[s].floor[a.workspace].inventory = sock[s].floor[a.workspace].inventory
<1> DEFINE w == a.workspace
           S == superseded(s, a)
<1>1. sock \in [Socket -> SockRec] /\ w \in Workspace
  BY Apart, ReceiptAssumption
<1>2. PICK k \in SockRec : k = sock[s]
  BY <1>1
<1>3. /\ k.bindings \subseteq BindingId /\ k.retired \subseteq BindingId
      /\ k.floor \in [Workspace -> FloorRec \cup {None}]
  BY DEF SockRec
<1>4. S \subseteq k.bindings
  BY <1>2, SupersedesAll
<1> DEFINE l == [authority |-> a,
                 inventory |-> IF k.floor[w] = None THEN None ELSE k.floor[w].inventory]
<1>5. /\ l \in FloorRec /\ l # None /\ l.authority = a
      /\ k.floor[w] # None => l.inventory = k.floor[w].inventory
  <2>1. k.floor[w] # None => k.floor[w].inventory \in Inventory \cup {None}
    BY <1>1, <1>3 DEF FloorRec
  <2>2. l \in FloorRec
    BY <2>1 DEF FloorRec
  <2> QED
    BY <2>2, NoneAssumption
<1> DEFINE n == [k EXCEPT !.bindings = k.bindings \ S, !.retired = k.retired \cup S]
<1>6. retireSuperseded(sock, s, S) = [sock EXCEPT ![s] = n]
  BY <1>1, <1>2 DEF retireSuperseded
<1>7. /\ n \in SockRec /\ n.bindings = k.bindings \ S /\ n.retired = k.retired \cup S
      /\ n.up = k.up /\ n.receiptCommitted = k.receiptCommitted /\ n.floor = k.floor
  BY <1>3, <1>4 DEF SockRec
<1>8. sock' = [retireSuperseded(sock, s, S) EXCEPT
                  ![s].bindings = @ \cup {b}, ![s].floor[w] = l]
  BY <1>2 DEF reserved
<1> HIDE DEF n, l, S
<1> DEFINE g == [k.floor EXCEPT ![w] = l]
           m == [n EXCEPT !.bindings = n.bindings \cup {b}, !.floor = g]
<1>9. /\ g \in [Workspace -> FloorRec \cup {None}] /\ g[w] = l
      /\ \A v \in Workspace : v # w => g[v] = k.floor[v]
  BY <1>1, <1>3, <1>5
<1> HIDE DEF g
<1>10. sock' = [sock EXCEPT ![s] = m]
  <2> DEFINE F == [sock EXCEPT ![s] = n]
  <2>1. F[s] = n /\ F \in [Socket -> SockRec]
    BY <1>1, <1>7
  <2>2. sock' = [F EXCEPT ![s].bindings = @ \cup {b}, ![s].floor[w] = l]
    BY <1>6, <1>8
  <2>3. [F EXCEPT ![s] = m] = [sock EXCEPT ![s] = m]
    BY <1>1
  <2> HIDE DEF F
  <2>4. sock' = [F EXCEPT ![s] = [n EXCEPT !.bindings = n.bindings \cup {b},
                                           !.floor = [n.floor EXCEPT ![w] = l]]]
    <3> DEFINE n1 == [n EXCEPT !.bindings = n.bindings \cup {b}]
               F1 == [F EXCEPT ![s] = n1]
               n2 == [n1 EXCEPT !.floor = [n1.floor EXCEPT ![w] = l]]
    <3>1. n1.floor = n.floor
      BY <1>7 DEF SockRec
    <3>2. sock' = [[F EXCEPT ![s].bindings = @ \cup {b}] EXCEPT ![s].floor[w] = l]
      BY <2>2
    <3>3. [F EXCEPT ![s].bindings = @ \cup {b}] = F1
      BY <2>1
    <3>4. F1[s] = n1
      BY <2>1
    <3> HIDE DEF F1
    <3>5. sock' = [F1 EXCEPT ![s].floor[w] = l]
      BY <3>2, <3>3
    <3> HIDE DEF n1
    <3>6. sock' = [F1 EXCEPT ![s] = n2]
      BY <3>4, <3>5
    <3>7. sock' = [F EXCEPT ![s] = n2]
      BY <2>1, <3>6 DEF F1
    <3> QED
      BY <3>1, <3>7 DEF n1
  <2> QED
    BY <1>7, <2>3, <2>4 DEF g
<1>11. /\ m \in SockRec /\ m.bindings = n.bindings \cup {b} /\ m.retired = n.retired
       /\ m.up = n.up /\ m.receiptCommitted = n.receiptCommitted /\ m.floor = g
  <2>1. n.bindings \cup {b} \subseteq BindingId
    BY <1>3, <1>7
  <2> QED
    BY <1>7, <1>9, <2>1 DEF SockRec
<1> HIDE DEF m
<1>12. /\ sock' \in [Socket -> SockRec] /\ sock'[s] = m
       /\ \A t \in Socket : t # s => sock'[t] = sock[t]
  BY <1>1, <1>10, <1>11
<1> QED
  BY <1>2, <1>5, <1>7, <1>9, <1>11, <1>12 DEF S

\* BIND_WORKSPACE.
LEMMA BindAccepted ==
    ASSUME ReceiptInv, NEW s \in Socket, NEW b \in BindingId, NEW a \in BindAuthority,
           Connected(s), QuietTypes', admit' = admit,
           b \notin sock[s].bindings \cup sock[s].retired, reservable(s, a),
           sock' = reserved(s, b, a),
           bind' = [invalidated(bind, Objects(s, superseded(s, a))) EXCEPT
                       ![<<s, b>>] = NewBinding(a)],
           retireBindings(Objects(s, superseded(s, a)))
    PROVE  ReceiptInv' /\ Forward
<1> USE Apart
<1> DEFINE w == a.workspace
           S == superseded(s, a)
           O == Objects(s, S)
           o == <<s, b>>
           f == invalidated(bind, O)
           y == NewBinding(a)
<1>1. /\ S \subseteq sock[s].bindings
      /\ \A p \in Object : p[1] = s /\ p[2] \in sock[s].bindings
            /\ bind[p].authority.workspace = w => p[2] \in S
  BY SupersedesAll
<1>2. o \in Object /\ o[1] = s /\ o[2] = b
  BY ObjectParts
<1>3. /\ sock' \in [Socket -> SockRec]
      /\ \A t \in Socket : t # s => sock'[t] = sock[t]
      /\ sock'[s].up = sock[s].up /\ sock'[s].receiptCommitted = sock[s].receiptCommitted
      /\ sock'[s].bindings = (sock[s].bindings \ S) \cup {b}
      /\ sock'[s].retired = sock[s].retired \cup S
      /\ \A v \in Workspace : v # w => sock'[s].floor[v] = sock[s].floor[v]
      /\ sock'[s].floor[w] # None /\ sock'[s].floor[w].authority = a
      /\ sock[s].floor[w] # None => sock'[s].floor[w].inventory = sock[s].floor[w].inventory
  BY ReservedIs
<1>4. S \in SUBSET BindingId
  <2>1. sock[s].bindings \subseteq BindingId
    BY DEF SockRec
  <2> QED
    BY <1>1, <2>1
<1>5. O \in SUBSET Object /\ \A p \in Object : p \in O <=> p[1] = s /\ p[2] \in S
  BY <1>4, ObjectsOf
<1> HIDE DEF S
<1>6. retireBindings(O) /\ bind' = [f EXCEPT ![o] = y]
  BY DEF S
<1> HIDE DEF O
<1>7. \A p \in O : bind[p] # None
  BY <1>1, <1>5
<1>8. bind[o] = None
  <2>1. bind[o] # None => BindingKept(o, bind[o], sock[o[1]], authorities)
    BY <1>2
  <2> QED
    BY <1>2, <2>1 DEF BindingKept, Connected
<1>9. /\ authorities' \in [Workspace -> Registry!Authority \cup {None}] /\ leases' = leases
      /\ \A p \in Object : bind[p] # None /\ bind[p].proof # None =>
           /\ p \in O => ~ Adopts(authorities', p, bind[p])
           /\ p \notin O =>
                 (Adopts(authorities', p, bind[p]) <=> Adopts(authorities, p, bind[p]))
  BY <1>5, <1>6, <1>7, Retires
<1>10. /\ f \in BindMap
       /\ \A p \in Object : f[p] # None <=> bind[p] # None
       /\ \A p \in Object : p \notin O => f[p] = bind[p]
       /\ \A p \in O : /\ f[p].authority = bind[p].authority /\ f[p].proof = bind[p].proof
                       /\ f[p].pc = bind[p].pc /\ f[p].first = bind[p].first
                       /\ f[p].cascaded = bind[p].cascaded
  BY <1>5, <1>7, AllMoved, Invalidates
<1> HIDE DEF f
<1>11. /\ y \in BindRec /\ y.authority = a /\ y.proof = None /\ y.pc = "first"
       /\ ~ y.cascaded /\ y # None
  <2>1. y \in BindRec
    BY DEF NewBinding, BindRec
  <2> QED
    BY <2>1, NoneAssumption DEF NewBinding
<1> HIDE DEF y, o
<1>12. /\ bind' \in BindMap /\ bind'[o] = y
       /\ \A p \in Object : p # o => bind'[p] = f[p]
  <2>1. bind' = [f EXCEPT ![o] = y]
    BY <1>6
  <2>2. f \in [Object -> BindRec \cup {None}] /\ o \in Object
    BY <1>2, <1>10 DEF BindMap
  <2>3. bind'[o] = y /\ \A p \in Object : p # o => bind'[p] = f[p]
    BY <2>1, <2>2
  <2>4. bind' \in [Object -> BindRec \cup {None}]
    BY <1>11, <2>1, <2>2
  <2> QED
    BY <2>3, <2>4 DEF BindMap
<1>13. ASSUME NEW p \in Object, p # o, bind[p] # None
       PROVE  /\ bind'[p].authority = bind[p].authority /\ bind'[p].proof = bind[p].proof
              /\ bind'[p].pc = bind[p].pc /\ bind'[p].first = bind[p].first
              /\ bind'[p].cascaded = bind[p].cascaded
  BY <1>10, <1>12, <1>13
<1>14. ASSUME NEW p \in Object, p[1] = o[1], p # o PROVE p[2] # b
  BY <1>2, <1>14, ObjectParts
<1>15. ASSUME NEW p \in Object, bind'[p] # None
       PROVE  BindingKept(p, bind'[p], sock'[p[1]], authorities')
  <2>1. CASE p = o
    <3>1. /\ sock'[s].up # "unused" /\ b \in sock'[s].bindings
          /\ sock'[s].floor[y.authority.workspace] # None
          /\ sock'[s].floor[y.authority.workspace].authority = y.authority
      BY <1>3, <1>11 DEF Connected
    <3>2. BindingKept(o, y, sock'[s], authorities')
      BY <1>2, <1>11, <3>1 DEF BindingKept
    <3> QED
      BY <1>2, <1>12, <2>1, <3>2
  <2>2. CASE p # o
    <3>1. bind[p] # None
      BY <1>10, <1>12, <1>15, <2>2
    <3>2. BindingKept(p, bind[p], sock[p[1]], authorities)
      BY <3>1
    <3>3. CASE p \in O
      <4>1. p[1] = s /\ p[2] \in S /\ p[2] # b
        BY <1>2, <1>5, <1>14, <2>2, <3>3
      <4>2. p[2] \notin sock'[s].bindings /\ p[2] \in sock'[s].retired
        BY <1>3, <4>1
      <4>3. bind'[p].proof # None => ~ Adopts(authorities', p, bind'[p])
        BY <1>9, <1>13, <2>2, <3>1, <3>3 DEF Adopts, Presented
      <4>4. sock'[s].up # "unused" /\ (bind'[p].cascaded => ~ sock'[s].receiptCommitted)
        BY <1>3, <1>13, <2>2, <3>1, <3>2, <4>1 DEF BindingKept
      <4> QED
        BY <1>13, <2>2, <3>1, <3>2, <4>1, <4>2, <4>3, <4>4 DEF BindingKept
    <3>4. CASE p \notin O
      <4>1. bind'[p] = bind[p]
        BY <1>10, <1>12, <2>2, <3>4
      <4>2. bind[p].proof # None =>
               (Adopts(authorities', p, bind[p]) <=> Adopts(authorities, p, bind[p]))
        BY <1>9, <3>1, <3>4
      <4>3. CASE p[1] = s
        <5>1. p[2] \in sock'[s].bindings <=> p[2] \in sock[s].bindings
          <6>1. p[2] \notin S /\ p[2] # b
            BY <1>2, <1>5, <1>14, <2>2, <3>4, <4>3
          <6> QED
            BY <1>3, <6>1
        <5>2. p[2] \in sock[s].bindings \cup sock[s].retired
                 => p[2] \in sock'[s].bindings \cup sock'[s].retired
          BY <1>3, <5>1
        <5>3. p[2] \in sock[s].bindings =>
                 sock'[s].floor[bind[p].authority.workspace]
                    = sock[s].floor[bind[p].authority.workspace]
          <6>1. bind[p].authority.workspace \in Workspace
            <7>1. bind[p] \in BindRec
              BY <3>1
            <7> QED
              BY <7>1, ReceiptAssumption DEF BindRec
          <6>2. p[2] \in sock[s].bindings => bind[p].authority.workspace # w
            BY <1>1, <1>5, <3>4, <4>3
          <6> QED
            BY <1>3, <6>1, <6>2
        <5>4. sock'[s].up = sock[s].up /\ sock[s].up # "unused"
          BY <1>3, <3>2, <4>3 DEF BindingKept
        <5>5. BindingKept(p, bind[p], sock'[s], authorities')
          BY <1>3, <3>2, <4>2, <4>3, <5>1, <5>2, <5>3, <5>4, KeptElsewhere
        <5> QED
          BY <4>1, <4>3, <5>5
      <4>4. CASE p[1] # s
        <5>1. sock'[p[1]] = sock[p[1]]
          BY <1>3, <4>4, ObjectParts
        <5>2. BindingKept(p, bind[p], sock[p[1]], authorities')
          BY <3>2, <4>2 DEF BindingKept
        <5> QED
          BY <4>1, <5>1, <5>2
      <4> QED
        BY <4>3, <4>4
    <3> QED
      BY <3>3, <3>4
  <2> QED
    BY <2>1, <2>2
<1>16. ASSUME NEW p \in Object, p[2] \in sock'[p[1]].bindings, p # o
       PROVE  /\ p[2] \in sock[p[1]].bindings /\ bind[p] # None
              /\ p[1] = s => p[2] \notin S
  <2>1. p[1] = s => p[2] # b
    BY <1>2, <1>14, <1>16
  <2>2. p[2] \in sock[p[1]].bindings /\ (p[1] = s => p[2] \notin S)
    BY <1>3, <1>16, <2>1, ObjectParts
  <2> QED
    BY <2>2
<1>17. ASSUME NEW p \in Object, NEW q \in Object, p[1] = q[1],
              p[2] \in sock'[p[1]].bindings, q[2] \in sock'[q[1]].bindings,
              bind'[p].authority.workspace = bind'[q].authority.workspace
       PROVE  p = q
  <2>1. ASSUME NEW r \in Object, r # o, r[1] = s, r[2] \in sock'[r[1]].bindings
        PROVE  bind'[r].authority.workspace # w
    BY <1>1, <1>13, <1>16, <2>1
  <2>2. bind'[o].authority.workspace = w
    BY <1>11, <1>12
  <2>3. CASE p = o \/ q = o
    BY <1>2, <1>17, <2>1, <2>2, <2>3
  <2>4. CASE p # o /\ q # o
    BY <1>13, <1>16, <1>17, <2>4
  <2> QED
    BY <2>3, <2>4
<1>18. ASSUME NEW p \in Object, p[2] \in sock'[p[1]].bindings \cup sock'[p[1]].retired
       PROVE  bind'[p] # None
  <2>1. CASE p = o
    BY <1>11, <1>12, <2>1
  <2>2. CASE p # o
    <3>1. p[1] = s => p[2] # b
      BY <1>2, <1>14, <2>2
    <3>2. p[2] \in sock[p[1]].bindings \cup sock[p[1]].retired
      BY <1>1, <1>3, <1>18, <3>1, ObjectParts
    <3> QED
      BY <1>10, <1>12, <2>2, <3>2
  <2> QED
    BY <2>1, <2>2
<1>19. \A t \in Socket : SocketKept(sock'[t], Earlier(sock', t))
  <2>1. sock[s].up # "unused"
    BY DEF Connected
  <2> QED
    BY <1>3, <2>1, SocketsAlike
<1>20. ASSUME NEW c \in Admission PROVE AdmissionKept(admit'[c], leases'[c], bind')
  <2>1. AdmissionKept(admit[c], leases[c], bind)
    OBVIOUS
  <2>2. admit[c] # None => admit[c].of \in Object /\ admit[c].of # o
    <3>1. admit[c] # None => admit[c].of \in Object
      BY DEF AdmitRec, Object
    <3> QED
      BY <1>8, <2>1, <3>1 DEF AdmissionKept
  <2>3. admit[c] # None => bind'[admit[c].of] # None
    BY <1>10, <1>12, <2>1, <2>2 DEF AdmissionKept
  <2> QED
    BY <1>9, <1>13, <2>1, <2>2, <2>3 DEF AdmissionKept, Presented
<1>21. ReceiptInv'
  <2>1. bind' \in [Object -> BindRec \cup {None}]
    BY <1>12 DEF BindMap
  <2>2. /\ admit' \in [Admission -> AdmitRec \cup {None}]
        /\ leases' \in [Admission -> Registry!LeaseRec \cup {None}]
    BY <1>9
  <2>3. sock' \in [Socket -> SockRec]
        /\ authorities' \in [Workspace -> Registry!Authority \cup {None}]
    BY <1>3, <1>9
  <2> QED
    BY <1>15, <1>17, <1>18, <1>19, <1>20, <2>1, <2>2, <2>3, Together
<1>22. ASSUME NEW t \in Socket, NEW v \in Workspace, sock[t].floor[v] # None
       PROVE  /\ sock'[t].floor[v] # None
              /\ ~ regressed(sock'[t].floor[v].authority, sock[t].floor[v].authority)
              /\ sock[t].floor[v].inventory # None =>
                    /\ sock'[t].floor[v].inventory # None
                    /\ sock'[t].floor[v].inventory.generation
                          >= sock[t].floor[v].inventory.generation
  <2>1. CASE t # s \/ v # w
    <3>1. sock'[t].floor[v] = sock[t].floor[v]
      BY <1>3, <2>1
    <3> QED
      BY <1>22, <3>1, FloorStays
  <2>2. CASE t = s /\ v = w
    <3>1. ~ regressed(a, sock[s].floor[w].authority)
      BY <1>22, <2>2, FloorStays DEF reservable
    <3> QED
      BY <1>3, <1>22, <2>2, <3>1, FloorStays
  <2> QED
    BY <2>1, <2>2
<1>23. \A p \in Object : bind[p] # None /\ bind[p].proof = None => bind'[p].proof = None
  BY <1>8, <1>13
<1> QED
  BY <1>21, <1>22, <1>23 DEF Forward

\* The answer to BIND_WORKSPACE before the first await.
LEMMA AcceptKeep ==
    ASSUME ReceiptInv, NEW s \in Socket, NEW b \in BindingId, NEW a \in BindAuthority,
           acceptReceiptBinding(s, b, a)
    PROVE  ReceiptInv' /\ Forward
<1>1. Connected(s) /\ admit' = admit /\ QuietTypes'
  BY Apart DEF acceptReceiptBinding, QuietTypes
<1>2. CASE sock' = closing(sock, s) /\ bind' = bind /\ UNCHANGED registry
  BY <1>1, <1>2, ClosingIs, SocketsGo
<1>3. CASE /\ b \notin sock[s].bindings \cup sock[s].retired /\ reservable(s, a)
           /\ sock' = reserved(s, b, a)
           /\ bind' = [invalidated(bind, Objects(s, superseded(s, a))) EXCEPT
                          ![<<s, b>>] = NewBinding(a)]
           /\ retireBindings(Objects(s, superseded(s, a)))
  BY <1>1, <1>3, BindAccepted
<1>4. \/ sock' = closing(sock, s) /\ bind' = bind /\ UNCHANGED registry
      \/ /\ b \notin sock[s].bindings \cup sock[s].retired /\ reservable(s, a)
         /\ sock' = reserved(s, b, a)
         /\ bind' = [invalidated(bind, Objects(s, superseded(s, a))) EXCEPT
                        ![<<s, b>>] = NewBinding(a)]
         /\ retireBindings(Objects(s, superseded(s, a)))
  BY DEF acceptReceiptBinding
<1> QED
  BY <1>2, <1>3, <1>4

-----------------------------------------------------------------------------
(* The second read.                                                        *)

\* The inventory of a floor is raised.
LEMMA FloorIs ==
    ASSUME ReceiptInv, NEW s \in Socket, NEW w \in Workspace, NEW i \in Inventory,
           sock[s].floor[w] # None, accepts(sock[s].floor[w], i), Connected(s),
           sock' = [sock EXCEPT ![s].floor[w].inventory = i]
    PROVE  /\ sock' \in [Socket -> SockRec]
           /\ \A t \in Socket :
                /\ sock'[t].up = sock[t].up /\ sock'[t].bindings = sock[t].bindings
                /\ sock'[t].retired = sock[t].retired
                /\ sock'[t].receiptCommitted = sock[t].receiptCommitted
           /\ \A t \in Socket : t # s => sock'[t] = sock[t]
           /\ \A v \in Workspace : v # w => sock'[s].floor[v] = sock[s].floor[v]
           /\ sock'[s].floor[w] # None /\ sock'[s].floor[w].inventory = i
           /\ sock'[s].floor[w].authority = sock[s].floor[w].authority
           /\ \A t \in Socket : SocketKept(sock'[t], Earlier(sock', t))
           /\ \A t \in Socket, v \in Workspace :
                 LET f == sock[t].floor[v]
                     g == sock'[t].floor[v]
                 IN  f # None =>
                       /\ g # None /\ ~ regressed(g.authority, f.authority)
                       /\ f.inventory # None =>
                             g.inventory # None
                             /\ g.inventory.generation >= f.inventory.generation
<1>1. sock \in [Socket -> SockRec]
  BY Apart
<1>2. PICK k \in SockRec : k = sock[s]
  BY <1>1
<1>3. k.floor \in [Workspace -> FloorRec \cup {None}]
  BY DEF SockRec
<1>4. PICK l \in FloorRec : l = k.floor[w]
  BY <1>2, <1>3
<1> DEFINE n == [l EXCEPT !.inventory = i]
           g == [k.floor EXCEPT ![w] = n]
           m == [k EXCEPT !.floor = g]
<1>5. n \in FloorRec /\ n.inventory = i /\ n.authority = l.authority
  BY DEF FloorRec
<1>6. sock' = [sock EXCEPT ![s] = m]
  BY <1>2, <1>4
<1> HIDE DEF n
<1>7. /\ g \in [Workspace -> FloorRec \cup {None}] /\ g[w] = n
      /\ \A v \in Workspace : v # w => g[v] = k.floor[v]
  BY <1>3, <1>5
<1> HIDE DEF g
<1>8. /\ m \in SockRec /\ m.up = k.up /\ m.bindings = k.bindings /\ m.retired = k.retired
      /\ m.receiptCommitted = k.receiptCommitted /\ m.floor = g
  BY <1>7 DEF SockRec
<1> HIDE DEF m
<1>9. /\ sock' \in [Socket -> SockRec] /\ sock'[s] = m
      /\ \A t \in Socket : t # s => sock'[t] = sock[t]
  BY <1>1, <1>6, <1>8
<1>10. /\ \A t \in Socket :
            /\ sock'[t].up = sock[t].up /\ sock'[t].bindings = sock[t].bindings
            /\ sock'[t].retired = sock[t].retired
            /\ sock'[t].receiptCommitted = sock[t].receiptCommitted
       /\ \A v \in Workspace : v # w => sock'[s].floor[v] = sock[s].floor[v]
       /\ sock'[s].floor[w] = n
  BY <1>2, <1>7, <1>8, <1>9
<1>11. sock[s].up # "unused"
  BY DEF Connected
<1>12. \A t \in Socket : SocketKept(sock'[t], Earlier(sock', t))
  BY <1>9, <1>10, <1>11, SocketsAlike
<1>13. sock'[s].floor[w] # None
  BY <1>5, <1>10, NoneAssumption
<1>14. ASSUME NEW t \in Socket, NEW v \in Workspace, sock[t].floor[v] # None
       PROVE  /\ sock'[t].floor[v] # None
              /\ ~ regressed(sock'[t].floor[v].authority, sock[t].floor[v].authority)
              /\ sock[t].floor[v].inventory # None =>
                    /\ sock'[t].floor[v].inventory # None
                    /\ sock'[t].floor[v].inventory.generation
                          >= sock[t].floor[v].inventory.generation
  <2>1. CASE t # s \/ v # w
    <3>1. sock'[t].floor[v] = sock[t].floor[v]
      BY <1>9, <1>10, <2>1
    <3> QED
      BY <1>1, <1>14, <3>1, FloorStays
  <2>2. CASE t = s /\ v = w
    <3>1. /\ sock'[s].floor[w].authority = sock[s].floor[w].authority
          /\ sock'[s].floor[w].inventory = i
      BY <1>2, <1>4, <1>5, <1>10
    <3>2. i # None /\ i.generation \in Nat
      BY ReceiptAssumption
    <3>3. sock[s].floor[w].inventory # None =>
             i.generation >= sock[s].floor[w].inventory.generation
      BY <1>1, <1>14, <2>2, <3>2, FloorStays DEF accepts
    <3> QED
      BY <1>1, <1>13, <1>14, <2>2, <3>1, <3>2, <3>3, FloorStays
  <2> QED
    BY <2>1, <2>2
<1> QED
  BY <1>2, <1>4, <1>5, <1>9, <1>10, <1>12, <1>13, <1>14

\* A binding whose second read agrees has its proof adopted, or none.
LEMMA ProvedIs ==
    ASSUME ReceiptInv, NEW o \in Object, bind[o] # None, bind[o].pc = "second",
           NEW i \in Inventory, proved(o, i), NEW who, Resumes(who), UNCHANGED <<polling, poll>>
    PROVE  /\ QuietTypes' /\ leases' = leases
           /\ \E y \in BindRec :
                /\ bind' = [moved(bind) EXCEPT ![o] = y]
                /\ y.authority = bind[o].authority /\ y.cascaded = bind[o].cascaded
                /\ y.invalidated = bind[o].invalidated /\ y.pc = "done"
                /\ \/ y.proof = None /\ authorities' = authorities
                   \/ /\ y.proof = i
                      /\ authorities' = [authorities EXCEPT
                            ![bind[o].authority.workspace] = Presented(o, y)]
<1> DEFINE c == invokeCandidate(bind[o].authority, o[1], o[2], i)
           w == bind[o].authority.workspace
<1>1. PICK x \in BindRec : x = moved(bind)[o]
  BY AllMoved DEF Same
<1>2. Same(bind[o], x) /\ x.proof = None
  <2>1. BindingKept(o, bind[o], sock[o[1]], authorities)
    BY Apart
  <2> QED
    BY <1>1, <2>1, AllMoved DEF BindingKept, Same
<1>3. w \in Workspace
  <2>1. bind[o] \in BindRec
    BY AllMoved DEF BindMap
  <2> QED
    BY <2>1, ReceiptAssumption DEF BindRec
<1>4. CASE negative(o)
  <2> DEFINE y == [x EXCEPT !.pc = "done", !.phase = "negative"]
  <2>1. /\ y \in BindRec /\ y.authority = x.authority /\ y.cascaded = x.cascaded
        /\ y.invalidated = x.invalidated /\ y.pc = "done" /\ y.proof = x.proof
    BY DEF BindRec
  <2>2. bind' = [moved(bind) EXCEPT ![o] = y] /\ authorities' = authorities /\ leases' = leases
    BY <1>1, <1>4 DEF negative, registry
  <2>3. QuietTypes'
    BY <1>4, Quietly, Read DEF negative
  <2> HIDE DEF y
  <2> QED
    BY <1>2, <2>1, <2>2, <2>3 DEF Same
<1>5. CASE /\ bind' = [moved(bind) EXCEPT ![o].pc = "done", ![o].phase = "positive",
                                          ![o].proof = i]
           /\ snapshot' = (IF snapshot = None THEN [inventory |-> i, moved |-> FALSE]
                                              ELSE snapshotMoved)
           /\ IF authorities[w] = Registry!requireAuthority(c)
              THEN UNCHANGED registry ELSE Registry!adoptBinding(c)
  <2> DEFINE y == [x EXCEPT !.pc = "done", !.phase = "positive", !.proof = i]
  <2>1. /\ y \in BindRec /\ y.authority = x.authority /\ y.cascaded = x.cascaded
        /\ y.invalidated = x.invalidated /\ y.pc = "done" /\ y.proof = i
    BY DEF BindRec
  <2>2. bind' = [moved(bind) EXCEPT ![o] = y]
    BY <1>1, <1>5
  <2> HIDE DEF y
  <2>3. Presented(o, y) = Registry!requireAuthority(c)
    BY <1>2, <2>1 DEF Presented, Same
  <2>4. c.workspace = w
    BY DEF invokeCandidate
  <2> HIDE DEF c
  <2>5. /\ leases' = leases
        /\ authorities' = [authorities EXCEPT ![w] = Registry!requireAuthority(c)]
    <3>1. CASE authorities[w] = Registry!requireAuthority(c)
      <4>1. authorities' = authorities /\ leases' = leases
        BY <1>5, <3>1 DEF registry
      <4>2. authorities \in [Workspace -> Registry!Authority \cup {None}]
        BY Apart
      <4> QED
        BY <1>3, <3>1, <4>1, <4>2
    <3>2. CASE authorities[w] # Registry!requireAuthority(c)
      BY <1>5, <2>4, <3>2 DEF Registry!adoptBinding
    <3> QED
      BY <3>1, <3>2
  <2>6. snapshot' \in [inventory : Inventory, moved : BOOLEAN] \cup {None}
    BY <1>5, Read
  <2>7. QuietTypes'
    BY <2>6, Quietly
  <2> QED
    BY <1>2, <2>1, <2>2, <2>3, <2>5, <2>7 DEF Same
<1> QED
  BY <1>4, <1>5 DEF proved

\* The proof is the floor's and in force, and nothing else of the socket in service
\* relied on what was in force before.
LEMMA ProvedKeep ==
    ASSUME ReceiptInv, NEW o \in Object, bind[o] # None, bind[o].pc = "second",
           currentReceiptBinding(o), ownsReceiptAuthorityFloor(o), admit' = admit,
           NEW i \in Inventory, accepts(sock[o[1]].floor[bind[o].authority.workspace], i),
           proved(o, i), NEW who, Resumes(who), UNCHANGED <<polling, poll>>
    PROVE  ReceiptInv' /\ Forward
<1> USE Apart
<1> DEFINE w == bind[o].authority.workspace
           s == o[1]
<1>1. /\ QuietTypes' /\ leases' = leases
      /\ \E y \in BindRec :
           /\ bind' = [moved(bind) EXCEPT ![o] = y]
           /\ y.authority = bind[o].authority /\ y.cascaded = bind[o].cascaded
           /\ y.invalidated = bind[o].invalidated /\ y.pc = "done"
           /\ \/ y.proof = None /\ authorities' = authorities
              \/ /\ y.proof = i
                 /\ authorities' = [authorities EXCEPT ![w] = Presented(o, y)]
  BY ProvedIs
<1>2. PICK y \in BindRec :
        /\ bind' = [moved(bind) EXCEPT ![o] = y]
        /\ y.authority = bind[o].authority /\ y.cascaded = bind[o].cascaded
        /\ y.invalidated = bind[o].invalidated /\ y.pc = "done"
        /\ \/ y.proof = None /\ authorities' = authorities
           \/ /\ y.proof = i
              /\ authorities' = [authorities EXCEPT ![w] = Presented(o, y)]
  BY <1>1
<1>3. s \in Socket /\ w \in Workspace /\ w = y.authority.workspace
  BY <1>2, ObjectParts, ReceiptAssumption DEF BindRec
<1>4. sock[s].floor[w] # None /\ sock[s].floor[w].authority = bind[o].authority
  BY DEF ownsReceiptAuthorityFloor
<1>5. /\ Connected(s) /\ sock[s].receiptCommitted /\ o[2] \in sock[s].bindings
      /\ ~ bind[o].invalidated
  BY DEF currentReceiptBinding
<1>6. /\ sock' \in [Socket -> SockRec]
      /\ \A t \in Socket :
           /\ sock'[t].up = sock[t].up /\ sock'[t].bindings = sock[t].bindings
           /\ sock'[t].retired = sock[t].retired
           /\ sock'[t].receiptCommitted = sock[t].receiptCommitted
      /\ \A t \in Socket : t # s => sock'[t] = sock[t]
      /\ \A v \in Workspace : v # w => sock'[s].floor[v] = sock[s].floor[v]
      /\ sock'[s].floor[w] # None /\ sock'[s].floor[w].inventory = i
      /\ sock'[s].floor[w].authority = sock[s].floor[w].authority
      /\ \A t \in Socket : SocketKept(sock'[t], Earlier(sock', t))
      /\ \A t \in Socket, v \in Workspace :
            LET f == sock[t].floor[v]
                g == sock'[t].floor[v]
            IN  f # None =>
                  /\ g # None /\ ~ regressed(g.authority, f.authority)
                  /\ f.inventory # None =>
                        g.inventory # None
                        /\ g.inventory.generation >= f.inventory.generation
  <2>1. sock' = [sock EXCEPT ![s].floor[w].inventory = i]
    BY DEF proved
  <2> QED
    BY <1>3, <1>4, <1>5, <2>1, FloorIs
<1>7. y # None
  BY NoneAssumption
<1>8. /\ moved(bind) \in BindMap
      /\ \A p \in Object : moved(bind)[p] # None <=> bind[p] # None
      /\ \A p \in Object : bind[p] # None =>
            Same(bind[p], moved(bind)[p]) /\ Follows(bind[p], moved(bind)[p])
  BY AllMoved
<1>9. /\ bind' \in BindMap /\ bind'[o] = y
      /\ \A p \in Object : p # o => bind'[p] = moved(bind)[p]
  BY <1>2, <1>8 DEF BindMap
<1>10. ASSUME NEW p \in Object, p # o, bind[p] # None, p[1] = s, p[2] \in sock[s].bindings
       PROVE  bind[p].authority.workspace # w
  BY <1>5, <1>10
<1>11. ASSUME NEW p \in Object, p # o, bind'[p] # None, bind'[p].proof # None
       PROVE  /\ Adopts(authorities', p, bind'[p]) => Adopts(authorities, p, bind'[p])
              /\ bind'[p].authority.workspace # w => authorities'[bind'[p].authority.workspace]
                    = authorities[bind'[p].authority.workspace]
  <2>1. CASE y.proof = None /\ authorities' = authorities
    BY <2>1 DEF Adopts
  <2>2. CASE y.proof = i /\ authorities' = [authorities EXCEPT ![w] = Presented(o, y)]
    <3>1. PICK z \in BindRec : z = bind'[p]
      BY <1>9, <1>11 DEF BindMap
    <3>2. y.proof # None /\ z.proof # None /\ z.authority.workspace \in Workspace
      BY <1>11, <2>2, <3>1, ReceiptAssumption DEF BindRec
    <3>3. CASE z.authority.workspace = w
      <4>1. authorities'[w] = Presented(o, y)
        BY <1>3, <2>2
      <4>2. Presented(p, z) # Presented(o, y)
        BY <1>11, <3>2, PresentedBy
      <4> QED
        BY <3>1, <3>3, <4>1, <4>2 DEF Adopts
    <3>4. CASE z.authority.workspace # w
      BY <2>2, <3>1, <3>2, <3>4 DEF Adopts
    <3> QED
      BY <3>3, <3>4
  <2> QED
    BY <1>2, <2>1, <2>2
<1>12. ASSUME NEW p \in Object, bind'[p] # None
       PROVE  BindingKept(p, bind'[p], sock'[p[1]], authorities')
  <2>1. CASE p = o
    <3>1. BindingKept(o, bind[o], sock[s], authorities)
      OBVIOUS
    <3>2. sock'[s].up # "unused" /\ o[2] \in sock'[s].bindings /\ sock'[s].receiptCommitted
      BY <1>3, <1>5, <1>6 DEF Connected
    <3>3. y.cascaded => ~ sock'[s].receiptCommitted
      BY <1>2, <1>5, <3>1 DEF BindingKept
    <3>4. sock'[s].floor[y.authority.workspace].authority = y.authority
      BY <1>2, <1>3, <1>4, <1>6
    <3>5. y.proof # None => sock'[s].floor[y.authority.workspace].inventory = y.proof
                            /\ Adopts(authorities', o, y)
      <4>1. y.proof # None => y.proof = i /\ authorities'[w] = Presented(o, y)
        BY <1>2, <1>3
      <4> QED
        BY <1>3, <1>6, <4>1 DEF Adopts
    <3>6. BindingKept(o, y, sock'[s], authorities')
      BY <1>2, <1>3, <1>5, <1>6, <3>2, <3>3, <3>4, <3>5 DEF BindingKept
    <3> QED
      BY <1>9, <2>1, <3>6
  <2>2. CASE p # o
    <3> DEFINE z == bind'[p]
               k == sock[p[1]]
               m == sock'[p[1]]
    <3>1. z = moved(bind)[p] /\ bind[p] # None /\ z # None
      BY <1>8, <1>9, <1>12, <2>2
    <3>2. z.authority = bind[p].authority /\ Follows(bind[p], z)
      BY <1>8, <3>1 DEF Same
    <3>3. BindingKept(p, bind[p], k, authorities)
      BY <3>1
    <3>4. BindingKept(p, z, k, authorities)
      BY <3>2, <3>3, KeptFollowing
    <3>5. /\ m.up = k.up /\ m.bindings = k.bindings /\ m.retired = k.retired
          /\ m.receiptCommitted = k.receiptCommitted
      BY <1>6, ObjectParts
    <3>6. z.authority.workspace \in Workspace
      <4>1. z \in BindRec
        BY <1>9, <3>1 DEF BindMap
      <4> QED
        BY <4>1, ReceiptAssumption DEF BindRec
    <3>7. p[2] \in k.bindings => m.floor[z.authority.workspace] = k.floor[z.authority.workspace]
      <4>1. CASE p[1] = s
        BY <1>6, <1>10, <2>2, <3>1, <3>2, <3>6, <4>1
      <4>2. CASE p[1] # s
        BY <1>6, <4>2, ObjectParts
      <4> QED
        BY <4>1, <4>2
    <3>8. p[2] \in k.bindings /\ k.receiptCommitted => z.authority.workspace # w
      <4>1. SocketKept(k, Earlier(sock, p[1]))
        BY ObjectParts
      <4>2. k.receiptCommitted => p[1] = s
        BY <1>3, <1>5, <4>1, OneConnected, ObjectParts DEF SocketKept, Connected
      <4> QED
        BY <1>10, <2>2, <3>1, <3>2, <4>2
    <3>9. /\ z.proof # None /\ Adopts(authorities', p, z) => Adopts(authorities, p, z)
          /\ z.proof # None /\ z.authority.workspace # w /\ Adopts(authorities, p, z)
                => Adopts(authorities', p, z)
      BY <1>11, <2>2, <3>1 DEF Adopts
    <3>10. m.up # "unused"
      BY <3>3, <3>5 DEF BindingKept
    <3> HIDE DEF z, k, m
    <3>11. BindingKept(p, z, m, authorities')
      BY <3>4, <3>5, <3>7, <3>8, <3>9, <3>10, KeptElsewhere
    <3> QED
      BY <3>11 DEF z, m
  <2> QED
    BY <2>1, <2>2
<1>13. \A p \in Object : /\ bind'[p] # None <=> bind[p] # None
                         /\ bind[p] # None => bind'[p].authority = bind[p].authority
                         /\ bind[p] # None /\ p # o => bind'[p].proof = bind[p].proof
                                                       /\ bind'[p].pc = bind[p].pc
  BY <1>2, <1>7, <1>8, <1>9 DEF Same
<1>14. \A p \in Object : p[2] \in sock'[p[1]].bindings \cup sock'[p[1]].retired
                            => bind'[p] # None
  BY <1>6, <1>13, ObjectParts
<1>15. ASSUME NEW p \in Object, NEW q \in Object, p[1] = q[1],
              p[2] \in sock'[p[1]].bindings, q[2] \in sock'[q[1]].bindings,
              bind'[p].authority.workspace = bind'[q].authority.workspace
       PROVE  p = q
  <2>1. p[2] \in sock[p[1]].bindings /\ q[2] \in sock[q[1]].bindings
    BY <1>6, <1>15, ObjectParts
  <2>2. bind[p] # None /\ bind[q] # None
    BY <2>1
  <2> QED
    BY <1>13, <1>15, <2>1, <2>2
<1>16. ASSUME NEW a \in Admission PROVE AdmissionKept(admit'[a], leases'[a], bind')
  <2>1. AdmissionKept(admit[a], leases[a], bind)
    OBVIOUS
  <2>2. admit[a] # None => admit[a].of \in Object /\ admit[a].of # o
    <3>1. admit[a] # None => admit[a].of \in Object
      BY DEF AdmitRec, Object
    <3> QED
      BY <2>1, <3>1 DEF AdmissionKept
  <2> QED
    BY <1>1, <1>13, <2>1, <2>2 DEF AdmissionKept, Presented
<1>17. authorities' \in [Workspace -> Registry!Authority \cup {None}]
  <2>1. CASE y.proof = None /\ authorities' = authorities
    BY <2>1
  <2>2. CASE y.proof = i /\ authorities' = [authorities EXCEPT ![w] = Presented(o, y)]
    <3>1. Presented(o, y) \in Registry!Authority
      BY <2>2, PresentedIs, ReceiptAssumption
    <3> QED
      BY <2>2, <3>1
  <2> QED
    BY <1>2, <2>1, <2>2
<1>18. ReceiptInv'
  <2>1. bind' \in [Object -> BindRec \cup {None}]
    BY <1>9 DEF BindMap
  <2>2. /\ admit' \in [Admission -> AdmitRec \cup {None}]
        /\ leases' \in [Admission -> Registry!LeaseRec \cup {None}]
    BY <1>1
  <2> QED
    BY <1>1, <1>6, <1>12, <1>14, <1>15, <1>16, <1>17, <2>1, <2>2, Together
<1>19. ASSUME NEW p \in Object, bind[p] # None, bind[p].proof = None, bind'[p].proof # None
       PROVE  ~ bind[p].cascaded /\ sock[p[1]].receiptCommitted
  <2>1. p = o
    BY <1>13, <1>19
  <2>2. BindingKept(o, bind[o], sock[s], authorities)
    OBVIOUS
  <2> QED
    BY <1>5, <2>1, <2>2 DEF BindingKept
<1> QED
  BY <1>6, <1>18, <1>19 DEF Forward

\* The second read is back.
LEMMA SecondReadKeep ==
    ASSUME ReceiptInv, NEW o \in Object, secondRead(o)
    PROVE  ReceiptInv' /\ Forward
<1> DEFINE i == bind[o].first
           floor == sock[o[1]].floor[bind[o].authority.workspace]
<1>1. /\ bind[o] # None /\ bind[o].pc = "second" /\ Resumes(o)
      /\ admit' = admit /\ UNCHANGED <<polling, poll>>
  BY DEF secondRead
<1>2. BindingKept(o, bind[o], sock[o[1]], authorities)
  BY <1>1, Apart
<1>3. bind[o].proof = None /\ i \in Inventory
  BY <1>1, <1>2 DEF BindingKept
<1>4. CASE bindReturns(o)
  <2>1. QuietTypes'
    BY <1>1, <1>4, Quietly, Read DEF bindReturns
  <2>2. authorities' = authorities /\ leases' = leases
    BY <1>4 DEF bindReturns, registry
  <2> QED
    BY <1>1, <1>4, <2>1, <2>2, ReturnsIs, BindsReadOn
<1>5. CASE negative(o) /\ sock' = sock
  <2>1. QuietTypes'
    BY <1>1, <1>5, Quietly, Read DEF negative
  <2>2. authorities' = authorities /\ leases' = leases
    BY <1>5 DEF negative, registry
  <2> QED
    BY <1>1, <1>3, <1>5, <2>1, <2>2, NegativeIs, BindsReadOn
<1>6. CASE /\ currentReceiptBinding(o) /\ ownsReceiptAuthorityFloor(o)
           /\ accepts(floor, i) /\ proved(o, i)
  BY <1>1, <1>3, <1>6, ProvedKeep
<1> QED
  BY <1>4, <1>5, <1>6 DEF secondRead

-----------------------------------------------------------------------------
(* The poll and the cascade.                                               *)

\* A cascade leaves no authority in force, no socket in service, and no binding of
\* a connected socket its proof.
LEMMA CascadeKeep ==
    ASSUME ReceiptInv, cascadeInventoryInvalidation,
           disk' \in Inventory \cup {Missing}, key' \in Inventory \cup {Missing},
           read' \in ReadRec \cup {None}, polling' = polling
    PROVE  ReceiptInv' /\ Forward
<1> USE Apart
<1>1. QuietTypes'
  BY DEF QuietTypes, cascadeInventoryInvalidation
<1>2. /\ authorities' = [w \in Workspace |-> None] /\ leases' = leases
  BY DEF cascadeInventoryInvalidation, Registry!invalidateAll
<1>3. ASSUME NEW s \in Socket
      PROVE  /\ sock'[s] \in SockRec /\ SocketGoes(sock[s], sock'[s])
             /\ ~ sock'[s].receiptCommitted
             /\ sock'[s].up = sock[s].up /\ sock'[s].bindings = sock[s].bindings
             /\ sock'[s].retired = sock[s].retired /\ sock'[s].floor = sock[s].floor
  <2>1. PICK k \in SockRec : k = sock[s]
    OBVIOUS
  <2> DEFINE m == [k EXCEPT !.receiptCommitted = FALSE]
  <2>2. CASE Connected(s)
    <3>1. sock'[s] = m
      BY <2>1, <2>2 DEF cascadeInventoryInvalidation
    <3>2. /\ m \in SockRec /\ m.up = k.up /\ ~ m.receiptCommitted
          /\ m.bindings = k.bindings /\ m.retired = k.retired /\ m.floor = k.floor
      BY DEF SockRec
    <3> HIDE DEF m
    <3>3. SocketGoes(k, m)
      BY <2>1, <2>2, <3>2, FencedGoes DEF Connected
    <3> QED
      BY <2>1, <3>1, <3>2, <3>3
  <2>3. CASE ~ Connected(s)
    <3>1. sock'[s] = sock[s]
      BY <2>3 DEF cascadeInventoryInvalidation
    <3>2. ~ sock[s].receiptCommitted
      BY <2>3 DEF SocketKept, Connected
    <3> QED
      BY <3>1, <3>2, SocketStays
  <2> QED
    BY <2>2, <2>3
<1>4. sock' \in [Socket -> SockRec]
  <2>1. sock' = [s \in Socket |-> sock'[s]]
    BY DEF cascadeInventoryInvalidation
  <2> QED
    BY <1>3, <2>1
<1>5. \A s \in Socket : SocketKept(sock'[s], Earlier(sock', s))
  BY <1>3, <1>4, SocketsStay
<1>6. DOMAIN bind = Object /\ bind \in BindMap
  BY DEF BindMap
<1>7. ASSUME NEW o \in Object, bind[o] # None
      PROVE  /\ bind'[o] \in BindRec /\ bind'[o].authority = bind[o].authority
             /\ bind'[o].pc = bind[o].pc /\ bind'[o].first = bind[o].first
             /\ bind'[o].proof = bind[o].proof \/ bind'[o].proof = None
  <2>1. PICK x \in BindRec : x = bind[o]
    BY <1>7
  <2> DEFINE y == [x EXCEPT !.invalidated = TRUE, !.phase = "negative", !.proof = None,
                            !.cascaded = TRUE]
             z == [x EXCEPT !.cascaded = TRUE]
  <2>2. bind'[o] = y \/ bind'[o] = z
    BY <1>6, <1>7, <2>1 DEF cascadeInventoryInvalidation
  <2>3. /\ y \in BindRec /\ y.authority = x.authority /\ y.pc = x.pc /\ y.first = x.first
        /\ y.proof = None
        /\ z \in BindRec /\ z.authority = x.authority /\ z.pc = x.pc /\ z.first = x.first
        /\ z.proof = x.proof
    BY DEF BindRec
  <2> HIDE DEF y, z
  <2> QED
    BY <2>1, <2>2, <2>3
<1>8. ASSUME NEW o \in Object, bind[o] = None PROVE bind'[o] = None
  BY <1>6, <1>8 DEF cascadeInventoryInvalidation
<1>9. \A o \in Object : bind'[o] # None <=> bind[o] # None
  BY <1>7, <1>8, NoneAssumption
<1>10. bind' \in [Object -> BindRec \cup {None}]
  <2>1. bind' = [o \in Object |-> bind'[o]]
    BY <1>6 DEF cascadeInventoryInvalidation
  <2>2. \A o \in Object : bind'[o] \in BindRec \cup {None}
    BY <1>7, <1>8
  <2> QED
    BY <2>1, <2>2
<1>11. ASSUME NEW o \in Object, bind'[o] # None
       PROVE  BindingKept(o, bind'[o], sock'[o[1]], authorities')
  <2>1. bind[o] # None
    BY <1>9, <1>11
  <2>2. BindingKept(o, bind[o], sock[o[1]], authorities)
    BY <2>1
  <2>3. bind'[o].proof # None => ~ Adopts(authorities', o, bind'[o])
    <3>1. bind'[o] \in BindRec
      BY <1>7, <2>1
    <3>2. bind'[o].proof # None => Presented(o, bind'[o]) # None
                                   /\ bind'[o].authority.workspace \in Workspace
      BY <3>1, PresentedIs
    <3> QED
      BY <1>2, <3>2 DEF Adopts
  <2>4. o[1] \in Socket
    BY ObjectParts
  <2>5. /\ ~ sock'[o[1]].receiptCommitted /\ sock'[o[1]].up = sock[o[1]].up
        /\ sock'[o[1]].bindings = sock[o[1]].bindings
        /\ sock'[o[1]].retired = sock[o[1]].retired /\ sock'[o[1]].floor = sock[o[1]].floor
    BY <1>3, <2>4
  <2> QED
    BY <1>7, <2>1, <2>2, <2>3, <2>5 DEF BindingKept
<1>12. \A o \in Object : o[2] \in sock'[o[1]].bindings \cup sock'[o[1]].retired
                            => bind'[o] # None
  BY <1>3, <1>9, ObjectParts
<1>13. ASSUME NEW p \in Object, NEW q \in Object, p[1] = q[1],
              p[2] \in sock'[p[1]].bindings, q[2] \in sock'[q[1]].bindings,
              bind'[p].authority.workspace = bind'[q].authority.workspace
       PROVE  p = q
  <2>1. p[2] \in sock[p[1]].bindings /\ q[2] \in sock[q[1]].bindings
    BY <1>3, <1>13, ObjectParts
  <2>2. bind[p] # None /\ bind[q] # None
    BY <2>1
  <2> QED
    BY <1>7, <1>13, <2>1, <2>2
<1>14. ASSUME NEW a \in Admission
       PROVE  /\ admit'[a] \in AdmitRec \cup {None}
              /\ admit[a] = None => admit'[a] = None
              /\ admit[a] # None => admit'[a] # None /\ admit'[a].pc = admit[a].pc
                                    /\ admit'[a].of = admit[a].of /\ admit[a].of \in Object
  <2>1. CASE admit[a] = None
    BY <2>1 DEF cascadeInventoryInvalidation
  <2>2. CASE admit[a] # None
    <3>1. PICK x \in AdmitRec : x = admit[a]
      BY <2>2
    <3> DEFINE y == [x EXCEPT !.cascaded = TRUE]
    <3>2. admit'[a] = y
      BY <2>2, <3>1 DEF cascadeInventoryInvalidation
    <3>3. y \in AdmitRec /\ y.pc = x.pc /\ y.of = x.of /\ x.of \in Object
      BY DEF AdmitRec, Object
    <3> HIDE DEF y
    <3> QED
      BY <2>2, <3>1, <3>2, <3>3, NoneAssumption
  <2> QED
    BY <2>1, <2>2
<1>15. admit' \in [Admission -> AdmitRec \cup {None}]
  <2>1. admit' = [a \in Admission |-> admit'[a]]
    BY DEF cascadeInventoryInvalidation
  <2> QED
    BY <1>14, <2>1
<1>16. ASSUME NEW a \in Admission PROVE AdmissionKept(admit'[a], leases'[a], bind')
  <2>1. AdmissionKept(admit[a], leases[a], bind)
    OBVIOUS
  <2> QED
    BY <1>2, <1>7, <1>9, <1>14, <2>1 DEF AdmissionKept, Presented
<1>17. authorities' \in [Workspace -> Registry!Authority \cup {None}]
  BY <1>2
<1>18. ReceiptInv'
  BY <1>1, <1>2, <1>4, <1>5, <1>10, <1>11, <1>12, <1>13, <1>15, <1>16, <1>17, Together
<1>19. \A o \in Object : bind[o] # None /\ bind[o].proof = None => bind'[o].proof = None
  BY <1>7
<1> QED
  BY <1>3, <1>18, <1>19, FloorStays DEF Forward

\* A tick of the timer.
LEMMA TickKeep ==
    ASSUME ReceiptInv, NEW expired \in BOOLEAN, runInventoryPoll(expired)
    PROVE  ReceiptInv' /\ Forward
<1>1. QuietTypes
  BY Apart
<1>2. CASE cascadeInventoryInvalidation
  BY <1>1, <1>2, CascadeKeep DEF runInventoryPoll, QuietTypes
<1>3. CASE UNCHANGED <<sock, bind, admit, registry>>
           /\ \/ snapshot' = None /\ UNCHANGED poll
              \/ poll' = "reading" /\ UNCHANGED snapshot
  <2>1. QuietTypes'
    BY <1>1, <1>3 DEF runInventoryPoll, QuietTypes
  <2> QED
    BY <1>3, <2>1, QuietKeep
<1> QED
  BY <1>2, <1>3 DEF runInventoryPoll

\* The read of a tick is back.
LEMMA PolledKeep ==
    ASSUME ReceiptInv, polled
    PROVE  ReceiptInv' /\ Forward
<1>1. QuietTypes /\ Resumes(Poller)
  BY Apart DEF polled
<1>2. /\ disk' = disk /\ key' \in Inventory \cup {Missing} /\ read' = None
      /\ polling' = polling
  BY <1>1, Read DEF polled
<1>3. CASE drifted
  BY <1>1, <1>2, <1>3, CascadeKeep DEF polled, QuietTypes
<1>4. CASE ~ drifted
  <2>1. /\ poll' = "idle" /\ snapshot' = [inventory |-> read.result, moved |-> FALSE]
        /\ bind' = moved(bind) /\ sock' = sock /\ admit' = admit
        /\ authorities' = authorities /\ leases' = leases
    BY <1>4 DEF polled, registry
  <2>2. read.result \in Inventory
    BY <1>4 DEF drifted
  <2>3. QuietTypes'
    BY <1>1, <1>2, <2>1, <2>2 DEF QuietTypes
  <2> QED
    BY <2>1, <2>3, AllMoved, BindsReadOn
<1> QED
  BY <1>3, <1>4

-----------------------------------------------------------------------------
(* The theorems.                                                           *)

\* When the daemon starts there are no sockets, bindings or admissions.
LEMMA ReceiptStarts == Init => ReceiptInv
<1> SUFFICES ASSUME Init PROVE ReceiptInv
  OBVIOUS
<1> USE DEF Init
<1> DEFINE k == [up |-> "unused", committed |-> FALSE, receiptCommitted |-> FALSE,
                 floor |-> [w \in Workspace |-> None], bindings |-> {}, retired |-> {}]
<1>1. k \in SockRec
  BY DEF SockRec
<1>2. sock = [s \in Socket |-> k]
  OBVIOUS
<1>3. \A s \in Socket : sock[s] = k
  BY <1>2
<1>4. authorities = [w \in Workspace |-> None] /\ leases = [a \in Admission |-> None]
  BY DEF Registry!Init
<1>5. /\ k.up = "unused" /\ ~ k.receiptCommitted /\ k.bindings = {} /\ k.retired = {}
  OBVIOUS
<1>6. TypeOK
  <2>1. sock \in [Socket -> SockRec]
    BY <1>1, <1>2
  <2> QED
    BY <1>4, <2>1 DEF TypeOK
<1> HIDE DEF k
<1>7. Sockets
  BY <1>3, <1>5, ObjectParts DEF Sockets, SocketKept
<1>8. Bindings
  BY DEF Bindings, Object
<1>9. OneEach
  BY <1>3, <1>5, ObjectParts DEF OneEach
<1>10. AdmissionsKept
  BY <1>4 DEF AdmissionsKept, AdmissionKept
<1> QED
  BY <1>4, <1>6, <1>7, <1>8, <1>9, <1>10 DEF ReceiptInv

\* Every step keeps the invariant and moves proofs forward.
LEMMA ReceiptStep ==
    ASSUME ReceiptInv, Next
    PROVE  ReceiptInv' /\ Forward
<1> USE DEF Object
<1>1. CASE \E d \in Inventory \cup {Missing} : inventoryChanges(d)
  <2>1. PICK d \in Inventory \cup {Missing} : inventoryChanges(d)
    BY <1>1
  <2>2. QuietTypes'
    BY <2>1, Apart DEF inventoryChanges, QuietTypes
  <2> QED
    BY <2>1, <2>2, QuietKeep DEF inventoryChanges
<1>2. CASE Reads
  <2>1. PICK who \in Object \cup Admission \cup {Poller} :
           \E result \in {disk, Missing, Failed} : readAccepted(who, result)
    BY <1>2 DEF Reads
  <2>2. PICK result \in {disk, Missing, Failed} : readAccepted(who, result)
    BY <2>1
  <2>3. QuietTypes
    BY Apart
  <2>4. result \in Inventory \cup {Missing, Failed}
    BY <2>3 DEF QuietTypes
  <2>5. read' \in ReadRec
    BY <2>2, <2>4 DEF readAccepted, ReadRec
  <2>6. QuietTypes'
    BY <2>2, <2>3, <2>5 DEF readAccepted, QuietTypes
  <2> QED
    BY <2>2, <2>6, QuietKeep DEF readAccepted
<1>3. CASE \E s \in Socket : registerOk(s) \/ closed(s)
  BY <1>3, RegisterKeep, ClosedKeep
<1>4. CASE \E s \in Socket, b \in BindingId, a \in BindAuthority : acceptReceiptBinding(s, b, a)
  BY <1>4, AcceptKeep
<1>5. CASE \E s \in Socket, b \in BindingId, fails \in BOOLEAN : unbindReceiptBinding(s, b, fails)
  BY <1>5, UnbindKeep
<1>6. CASE BindSteps
  BY <1>6, FirstReadKeep, SecondReadKeep DEF BindSteps
<1>7. CASE \E a \in Admission, o \in Object : admitReadyWorkload(a, o)
  BY <1>7, AdmitKeep
<1>8. CASE \E a \in Admission : Admissions(a)
  BY <1>8, VerifiedKeep, EnsuredKeep, PublishedKeep, ReleasedKeep DEF Admissions
<1>9. CASE Polls
  BY <1>9, PolledKeep, TickKeep DEF Polls
<1>10. CASE cascadeEnds
  BY <1>10, CascadeEndsKeep
<1> QED
  BY <1>1, <1>2, <1>3, <1>4, <1>5, <1>6, <1>7, <1>8, <1>9, <1>10 DEF Next

\* The inductive invariant: what sockets, bindings, floors, admissions and the lease
\* registry say of each other between any two steps of the daemon.
THEOREM ReceiptInvariance == Spec => []ReceiptInv
<1>1. Init => ReceiptInv
  BY ReceiptStarts
<1>2. ReceiptInv /\ [Next]_vars => ReceiptInv'
  <2>1. ASSUME ReceiptInv, UNCHANGED vars PROVE ReceiptInv'
    <3>1. QuietTypes' /\ UNCHANGED <<sock, bind, admit, registry>>
      BY <2>1, Apart DEF vars, registry, QuietTypes
    <3> QED
      BY <2>1, <3>1, QuietKeep
  <2> QED
    BY <2>1, ReceiptStep
<1> QED
  BY <1>1, <1>2, PTL DEF Spec

\* The invariant says what the run checks.
LEMMA ReceiptInvAgrees == ASSUME ReceiptInv PROVE ReceiptsAgree
<1> USE Apart
<1>1. TypeOK
  BY DEF ReceiptInv
<1>2. OneBindingPerWorkspace
  <2> SUFFICES ASSUME NEW s \in Socket, NEW b \in sock[s].bindings
               PROVE  /\ \A d \in sock[s].bindings :
                            bind[<<s, b>>].authority.workspace
                               = bind[<<s, d>>].authority.workspace => b = d
                      /\ ownsReceiptAuthorityFloor(<<s, b>>)
    BY DEF OneBindingPerWorkspace
  <2>1. sock[s].bindings \subseteq BindingId
    BY DEF SockRec
  <2>2. ASSUME NEW d \in sock[s].bindings
        PROVE  <<s, d>> \in Object /\ <<s, d>>[1] = s /\ <<s, d>>[2] = d
    BY <2>1, ObjectParts
  <2>3. ASSUME NEW d \in sock[s].bindings,
               bind[<<s, b>>].authority.workspace = bind[<<s, d>>].authority.workspace
        PROVE  b = d
    <3>1. <<s, b>> = <<s, d>>
      BY <2>2, <2>3
    <3> QED
      BY <3>1
  <2>4. bind[<<s, b>>] # None
    BY <2>2
  <2>5. BindingKept(<<s, b>>, bind[<<s, b>>], sock[s], authorities)
    BY <2>2, <2>4
  <2> QED
    BY <2>2, <2>3, <2>5 DEF BindingKept, ownsReceiptAuthorityFloor
<1>3. ProofIsAdopted
  <2> SUFFICES ASSUME NEW o \in Object, Bound(o), sock[o[1]].receiptCommitted,
                      bind[o].proof # None
               PROVE  /\ sock[o[1]].floor[bind[o].authority.workspace].inventory = bind[o].proof
                      /\ authorities[bind[o].authority.workspace]
                            = Registry!requireAuthority(candidate(o))
    BY DEF ProofIsAdopted, Object
  <2>1. bind[o] # None
    BY DEF Bound
  <2>2. BindingKept(o, bind[o], sock[o[1]], authorities)
    BY <2>1
  <2> QED
    BY <2>2 DEF BindingKept, Bound, Adopts, Presented, candidate
<1>4. CurrentLeaseIsBound
  <2> SUFFICES ASSUME NEW a \in Admission, admit[a] # None, Registry!Held(a),
                      Registry!isCurrent(a), bind[admit[a].of].proof # None
               PROVE  Bound(admit[a].of) /\ ~ bind[admit[a].of].invalidated
    BY DEF CurrentLeaseIsBound
  <2> DEFINE o == admit[a].of
  <2>1. AdmissionKept(admit[a], leases[a], bind)
    OBVIOUS
  <2>2. o \in Object
    BY DEF AdmitRec, Object
  <2>3. bind[o] # None /\ leases[a].authority = Presented(o, bind[o])
    BY <2>1 DEF AdmissionKept, Registry!Held
  <2>4. Presented(o, bind[o]).workspace = bind[o].authority.workspace
    <3>1. bind[o] \in BindRec
      BY <2>2, <2>3
    <3> QED
      BY <2>2, <3>1, PresentedIs
  <2>5. Adopts(authorities, o, bind[o])
    BY <2>3, <2>4 DEF Adopts, Registry!isCurrent, Registry!sameAuthority
  <2>6. BindingKept(o, bind[o], sock[o[1]], authorities)
    BY <2>2, <2>3
  <2> QED
    BY <2>5, <2>6 DEF BindingKept, Bound
<1> QED
  BY <1>1, <1>2, <1>3, <1>4 DEF ReceiptsAgree

\* Between any two steps of binds, unbinds, successors, reads of the inventory,
\* admissions and cascades: one binding per workspace, which holds its floor; the
\* proof in service is the floor's and the one the registry adopted; and a current
\* lease is that of a binding still in the map.
THEOREM ReceiptsAlwaysAgree == Spec => []ReceiptsAgree
<1>1. ReceiptInv => ReceiptsAgree
  BY ReceiptInvAgrees
<1> QED
  BY <1>1, ReceiptInvariance, PTL

\* The floor of a workspace never goes back on a socket, and a bind that a cascade
\* overtook never gets a proof.
THEOREM ProofsOnlyMoveForward == Spec => ProofsMoveForward
<1>1. ReceiptInv /\ [Next]_vars =>
        [\A s \in Socket, w \in Workspace :
            LET f == sock[s].floor[w]
                g == sock'[s].floor[w]
            IN  f # None =>
                  /\ g # None
                  /\ ~regressed(g.authority, f.authority)
                  /\ f.inventory # None =>
                        g.inventory # None
                        /\ g.inventory.generation >= f.inventory.generation]_vars
  BY ReceiptStep DEF Forward
<1>2. ReceiptInv /\ [Next]_vars =>
        [\A o \in Socket \X BindingId :
            bind[o] # None /\ bind[o].proof = None /\ bind'[o].proof # None =>
                ~bind[o].cascaded /\ sock[o[1]].receiptCommitted]_vars
  BY ReceiptStep DEF Forward, Object
<1> QED
  BY <1>1, <1>2, ReceiptInvariance, PTL
     DEF Spec, ProofsMoveForward, FloorMovesForward, NoProofAcrossCascade
=============================================================================
