---------------------- MODULE WorkspaceLifecycleProofs ----------------------
(***************************************************************************)
(* Proofs about module WorkspaceLifecycle, for any number of operations,   *)
(* generations, contents, epochs and faults.  The slot, the manual-cleanup *)
(* record, the journal and the candidate directories are separate files    *)
(* that only the order of the writes keeps together; the inductive         *)
(* invariant LifecycleInv says of every station of every operation what    *)
(* those files hold, of a disk that has just lost its power as well as of  *)
(* one in use, and that no directory an operation makes, fills or removes  *)
(* is another's.                                                           *)
(***************************************************************************)
EXTENDS WorkspaceLifecycle, TLAPS

-----------------------------------------------------------------------------
(* Shapes.                                                                 *)

Content == Contents \cup {Staged, "none", "partial"}
Fingerprint == {f \in Seq(Nat \X Content) : \A i \in 1..Len(f) : f[i][1] = i}
Pointer == {p \in [k : {"ptr"}, gen : Gens, content : Content, priorFp : Fingerprint] :
              p.gen = Len(p.priorFp) + 1}
Tombstone == {buildTombstone(p) : p \in Pointer}

IsSlot(s) == \/ s = NoSlot
             \/ s.k = "ptr" /\ s \in Pointer
             \/ s.k = "tomb" /\ s.prior \in Pointer /\ s = buildTombstone(s.prior)

\* The first fingerprint is the beginning of the second.
Begins(f, h) == Len(f) <= Len(h) /\ \A i \in 1..Len(f) : f[i] = h[i]

\* The stations at which an operation owns a candidate directory, those after the
\* last look at the fence, and those at which its pointer may be live.
OwnPcs == {"copy", "contain", "graph", "manifest", "attest", "j-prepare", "cas", "temp",
           "replace"}
LatePcs == {"j-prepare", "cas", "temp", "replace"}
PtrPcs == {"attest"} \cup LatePcs \cup MayBeLive
ClearPcs == {"clear-unlink", "clear-flush"}
TombPcs == {"tomb-cas", "tomb-temp", "tomb-replace"}
PrepPcs == {"prep-flush", "recheck"} \cup TombPcs

Pcs(op) ==
    CASE op = "none"    -> {"idle"}
      [] op = "create"  -> {"paths", "exists", "mkdir"} \cup OwnPcs \cup MayBeLive
      [] op = "refresh" -> {"read-base", "paths", "fence", "expect-base", "exists", "mkdir"}
                             \cup OwnPcs \cup MayBeLive
      [] op = "restore" -> {"fence", "accepted-base", "provenance", "exists", "mkdir"}
                             \cup OwnPcs \cup MayBeLive
      [] op = "reset"   -> {"fence", "quiesce", "disposition", "backup", "residual",
                            "prep-replace", "tomb-flush", "commit"} \cup PrepPcs \cup ClearPcs
      [] op = "replay"  -> {"cas", "temp", "replace", "flushParent"}

Ops == {"none", "create", "refresh", "restore", "reset", "replay"}
AllPcs == UNION {Pcs(op) : op \in Ops}

TaskRecord ==
    [op : Ops, pc : AllPcs,
     cand : Nat, gen : Nat, held : Nat, base : {NoSlot} \cup Pointer,
     ptr : {NoSlot} \cup Pointer, own : BOOLEAN, undo : BOOLEAN]

\* What the record of an operation says by itself.
BaseKnown(x) ==
    \/ x.op = "refresh" /\ x.pc # "read-base"
    \/ x.op = "restore" /\ x.pc \notin {"fence", "accepted-base"}
    \/ x.op = "reset" /\ x.pc \notin {"fence", "quiesce", "disposition"}

Fenced(x) ==
    \/ x.op = "refresh" /\ x.pc \notin {"read-base", "paths", "fence"}
    \/ x.op \in ExclusiveOps /\ x.pc # "fence"

RecordOK(x) ==
    /\ x.pc \in Pcs(x.op)
    /\ x.op = "none" => x = Idle
    /\ x.op # "none" => x.gen \in Gens
    /\ x.op = "create" => x.base = NoSlot
    /\ BaseKnown(x) => /\ x.base \in Pointer
                       /\ x.gen = IF x.op = "reset" THEN x.base.gen ELSE x.base.gen + 1
    /\ IF Fenced(x) THEN x.held = x.cand /\ x.held # 0 ELSE x.held = 0
    /\ x.own => x.pc \in OwnPcs \cup MayBeLive
    /\ x.pc \in {"j-prepare", "j-commit"} => journaled
    /\ x.undo => x.op = "reset" /\ x.pc \in ClearPcs
    /\ x.pc \in PtrPcs => x.ptr \in Pointer
    /\ x.pc \in PtrPcs /\ x.op # "replay" => x.ptr.gen = x.gen /\ x.ptr.priorFp = FpOf(x.base)

-----------------------------------------------------------------------------
(* The inductive invariant, LifecycleInv, and its parts.                   *)

Present(p) ==
    /\ dir[p.gen] # "none"
    /\ dir[p.gen] = p.content \/ (spent.power /\ p.content # Staged)
    /\ p.content = Staged => p.gen \in synced

Shapes ==
    /\ IsSlot(live) /\ IsSlot(liveDur)
    /\ rec \in BOOLEAN /\ recDur \in BOOLEAN
    /\ dir \in [Gens -> Content]
    /\ synced \subseteq Gens
    /\ jrn = [phase |-> jrn.phase, cand |-> jrn.cand, prior |-> jrn.prior]
    /\ jrn.phase \in {"none", "prepared", "committed"}
    /\ journaled \in BOOLEAN
    /\ task \in [Tasks -> TaskRecord]
    /\ lease \in [bound : BOOLEAN, epoch : Nat, gen : 0..MaxGen, invoke : Nat]
    /\ lease.bound => lease.epoch # 0 /\ lease.gen # 0
    /\ barred \in BOOLEAN
    /\ mode \in {"down", "boot", "up"}
    /\ spent \in [ops : Nat, faults : Nat, power : BOOLEAN]

\* The operations that run, together.
Together ==
    /\ \A t \in Tasks : Running(t) => mode = IF task[t].op = "replay" THEN "boot" ELSE "up"
    /\ \A t \in Tasks : task[t].op = "replay" => t = BootTask
    /\ \A t, u \in Tasks : t # u /\ task[t].op \in Builders => task[u].op \notin Builders
    /\ \A t, u \in Tasks : t # u /\ task[t].op \in ExclusiveOps /\ task[t].held # 0
          => task[u].held = 0
    /\ \A t \in Tasks : task[t].op \in ExclusiveOps /\ task[t].held # 0 => lease.invoke = 0

\* What a request was derived from.
LeaseTie(x) ==
    x.op \in {"create", "refresh", "restore", "reset"} =>
      /\ x.cand <= lease.epoch
      /\ x.op = "create" => x.gen <= lease.gen
      /\ x.op = "restore" /\ x.cand = lease.epoch => x.gen = lease.gen + 1

\* The slot while an operation relies on what it read from it.
OnBase(x) ==
    \/ x.op = "refresh" /\ x.pc \in {"exists", "mkdir"} \cup OwnPcs
    \/ x.op = "restore" /\ x.pc \in {"provenance", "exists", "mkdir"} \cup OwnPcs
    \/ x.op = "reset" /\ x.pc \in {"backup", "residual", "prep-replace"} \cup PrepPcs
    \/ x.undo

SlotTie(x) ==
    /\ OnBase(x) => live = x.base
    /\ x.op = "create" /\ x.pc \in {"temp", "replace"} => live = NoSlot
    /\ x.op = "replay" /\ x.pc \in {"cas", "temp", "replace"} =>
          live.k # "tomb" /\ FpOf(live) = x.ptr.priorFp
    /\ x.pc = "flushParent" => Begins(Fp(x.ptr), Chain(live))
    /\ x.pc = "j-commit" => Begins(Fp(x.ptr), Chain(liveDur))
    /\ x.pc = "tomb-flush" => live = buildTombstone(x.base)
    /\ x.pc = "commit" \/ (x.pc \in ClearPcs /\ ~x.undo) => live.k = "tomb" /\ liveDur.k = "tomb"

\* The manual-cleanup record while a reset relies on it.
RecTie(x) ==
    /\ x.pc \in PrepPcs \/ x.undo => Terminal \notin told
    /\ x.pc \in PrepPcs \cup {"tomb-flush", "commit"} => rec
    /\ x.pc \in {"recheck", "tomb-flush", "commit"} \cup TombPcs => recDur
    /\ x.pc \in ClearPcs /\ ~x.undo => barred

JournalTie(x) == x.op = "replay" => jrn.phase = "prepared" /\ x.ptr = jrn.cand

\* A candidate that may still be published.  A create of a later generation than
\* the first is refused at its manifest, a restore whose authority was replaced
\* at its attestation.
Solid(x) ==
    /\ x.pc \in OwnPcs
    /\ \/ x.op = "refresh"
       \/ x.op = "create" /\ x.gen = 1
       \/ x.op = "restore" /\ (x.pc \in LatePcs \/ x.cand = lease.epoch)

DirTie(x) ==
    Solid(x) =>
      /\ x.pc = "copy" => dir[x.gen] = "partial"
      /\ x.pc # "copy" =>
           IF x.op = "restore" THEN dir[x.gen] = Staged /\ x.gen \in synced
           ELSE dir[x.gen] \in Contents
      /\ x.pc \in PtrPcs => x.ptr.content = dir[x.gen]

\* An operation that may make, fill or remove the directory of its generation.
Makes(x) ==
    x.op \in {"create", "refresh", "restore"} /\ x.pc \in {"mkdir"} \cup OwnPcs

Ties(x) ==
    /\ RecordOK(x) /\ LeaseTie(x) /\ SlotTie(x)
    /\ RecTie(x) /\ JournalTie(x) /\ DirTie(x)

TaskTies == \A t \in Tasks : Ties(task[t])

\* No directory is anybody else's: neither that of a candidate, nor that of a
\* pointer in the slot or in the journal.
Apart ==
    /\ \A t, u \in Tasks : t # u /\ Solid(task[t]) /\ Makes(task[u]) => task[u].gen # task[t].gen
    /\ \A u \in Tasks : Makes(task[u]) =>
         /\ live.k = "ptr" => live.gen # task[u].gen
         /\ liveDur.k = "ptr" => liveDur.gen # task[u].gen
         /\ jrn.phase = "prepared" =>
              \/ jrn.cand.gen # task[u].gen
              \/ jrn.cand = task[u].ptr /\ task[u].pc \in {"cas", "temp", "replace"}

\* What the slot, the record and the journal say of one another.
Durable ==
    /\ Begins(Chain(liveDur), Chain(live))
    /\ liveDur.k = "tomb" => live = liveDur
    /\ live.k = "ptr" => Present(live)
    /\ liveDur.k = "ptr" => Present(liveDur)
    /\ jrn.phase = "prepared" => jrn.cand \in Pointer /\ Present(jrn.cand)
    /\ TerminalRecordCovers
    /\ mode = "boot" => live.k # "tomb" /\ ~rec
    /\ live.k = "tomb" /\ mode = "up" =>
         barred \/ \E t \in Tasks : task[t].pc \in {"tomb-flush", "commit"}

\* What was reported.
Told ==
    /\ \A r \in told : r = Terminal \/ /\ r = [k |-> "ptr", fp |-> r.fp]
                                       /\ r.fp \in Fingerprint /\ Begins(r.fp, Chain(liveDur))
    /\ TerminalSurvivesRestart
    /\ Terminal \in told => \/ live.k = "tomb" /\ liveDur.k = "tomb"
                            \/ rec /\ recDur

LifecycleInv ==
    Shapes /\ Together /\ TaskTies /\ Apart /\ Durable /\ Told /\ InvokeRoutesToPointer

\* In a script whose stations differ, the one after a station is the next.
LEMMA AfterStep ==
  ASSUME NEW op, Len(Script(op)) \in Nat,
         \A i, j \in 1..Len(Script(op)) : Script(op)[i] = Script(op)[j] => i = j
  PROVE  \A i \in 1..Len(Script(op)) - 1 : After(op, Script(op)[i]) = Script(op)[i + 1]
<1> DEFINE s == Script(op)
           n == Len(s)
<1>1. TAKE i \in 1..n - 1
<1>2. i \in 1..n /\ 1 + i = i + 1
  BY <1>1
<1>3. (CHOOSE j \in 1..n : s[j] = s[i]) = i
  <2> HIDE DEF s, n
  <2>1. \A j \in 1..n : s[j] = s[i] => j = i
    BY <1>2 DEF s, n
  <2> QED  BY <1>2, <2>1
<1>4. After(op, s[i]) = s[1 + (CHOOSE j \in 1..n : s[j] = s[i])]
  BY DEF After
<1> QED  BY <1>2, <1>3, <1>4

\* The stations of runCreateClone, publications not journaled.
LEMMA CreatePlain ==
  ASSUME ~journaled
  PROVE
    /\ Script("create")[1] = "paths"
    /\ After("create", "paths") = "exists" /\ After("create", "exists") = "mkdir"
    /\ After("create", "mkdir") = "copy" /\ After("create", "copy") = "contain"
    /\ After("create", "contain") = "graph" /\ After("create", "graph") = "manifest"
    /\ After("create", "manifest") = "attest" /\ After("create", "attest") = "cas"
    /\ After("create", "cas") = "temp" /\ After("create", "temp") = "replace"
    /\ After("create", "replace") = "flushParent"
    /\ \A pc \in Pcs("create") : IsLast("create", pc) <=> pc = "flushParent"
<1> DEFINE s == Script("create")
<1>1. /\ Len(s) = 12
      /\ s[1] = "paths" /\ s[2] = "exists" /\ s[3] = "mkdir" /\ s[4] = "copy"
      /\ s[5] = "contain" /\ s[6] = "graph" /\ s[7] = "manifest" /\ s[8] = "attest"
      /\ s[9] = "cas" /\ s[10] = "temp" /\ s[11] = "replace" /\ s[12] = "flushParent"
  BY DEF Script, runCreateClone, Materialize, Prove, Publish, Journaled
<1> HIDE DEF s
<1>2. \A i, j \in 1..Len(s) : s[i] = s[j] => i = j
  BY <1>1
<1>3. \A i \in 1..Len(s) - 1 : After("create", s[i]) = s[i + 1]
  BY <1>2, AfterStep DEF s
<1>4. /\ After("create", s[1]) = s[2] /\ After("create", s[2]) = s[3]
      /\ After("create", s[3]) = s[4] /\ After("create", s[4]) = s[5]
      /\ After("create", s[5]) = s[6] /\ After("create", s[6]) = s[7]
      /\ After("create", s[7]) = s[8] /\ After("create", s[8]) = s[9]
      /\ After("create", s[9]) = s[10] /\ After("create", s[10]) = s[11]
      /\ After("create", s[11]) = s[12]
  BY <1>1, <1>3
<1>5. \A pc \in Pcs("create") : IsLast("create", pc) <=> pc = "flushParent"
  BY <1>1 DEF IsLast, s
<1> QED  BY <1>1, <1>4, <1>5 DEF s

\* The stations of runCreateClone, publications journaled.
LEMMA CreateJournaled ==
  ASSUME journaled
  PROVE
    /\ Script("create")[1] = "paths"
    /\ After("create", "paths") = "exists" /\ After("create", "exists") = "mkdir"
    /\ After("create", "mkdir") = "copy" /\ After("create", "copy") = "contain"
    /\ After("create", "contain") = "graph" /\ After("create", "graph") = "manifest"
    /\ After("create", "manifest") = "attest" /\ After("create", "attest") = "j-prepare"
    /\ After("create", "j-prepare") = "cas" /\ After("create", "cas") = "temp"
    /\ After("create", "temp") = "replace" /\ After("create", "replace") = "flushParent"
    /\ After("create", "flushParent") = "j-commit"
    /\ \A pc \in Pcs("create") : IsLast("create", pc) <=> pc = "j-commit"
<1> DEFINE s == Script("create")
<1>1. /\ Len(s) = 14
      /\ s[1] = "paths" /\ s[2] = "exists" /\ s[3] = "mkdir" /\ s[4] = "copy"
      /\ s[5] = "contain" /\ s[6] = "graph" /\ s[7] = "manifest" /\ s[8] = "attest"
      /\ s[9] = "j-prepare" /\ s[10] = "cas" /\ s[11] = "temp" /\ s[12] = "replace"
      /\ s[13] = "flushParent" /\ s[14] = "j-commit"
  BY DEF Script, runCreateClone, Materialize, Prove, Publish, Journaled
<1> HIDE DEF s
<1>2. \A i, j \in 1..Len(s) : s[i] = s[j] => i = j
  BY <1>1
<1>3. \A i \in 1..Len(s) - 1 : After("create", s[i]) = s[i + 1]
  BY <1>2, AfterStep DEF s
<1>4. /\ After("create", s[1]) = s[2] /\ After("create", s[2]) = s[3]
      /\ After("create", s[3]) = s[4] /\ After("create", s[4]) = s[5]
      /\ After("create", s[5]) = s[6] /\ After("create", s[6]) = s[7]
      /\ After("create", s[7]) = s[8] /\ After("create", s[8]) = s[9]
      /\ After("create", s[9]) = s[10] /\ After("create", s[10]) = s[11]
      /\ After("create", s[11]) = s[12] /\ After("create", s[12]) = s[13]
      /\ After("create", s[13]) = s[14]
  BY <1>1, <1>3
<1>5. \A pc \in Pcs("create") : IsLast("create", pc) <=> pc = "j-commit"
  BY <1>1 DEF IsLast, s
<1> QED  BY <1>1, <1>4, <1>5 DEF s

\* The stations of runRefresh, publications not journaled.
LEMMA RefreshPlain ==
  ASSUME ~journaled
  PROVE
    /\ Script("refresh")[1] = "read-base"
    /\ After("refresh", "read-base") = "paths" /\ After("refresh", "paths") = "fence"
    /\ After("refresh", "fence") = "expect-base"
    /\ After("refresh", "expect-base") = "exists" /\ After("refresh", "exists") = "mkdir"
    /\ After("refresh", "mkdir") = "copy" /\ After("refresh", "copy") = "contain"
    /\ After("refresh", "contain") = "graph" /\ After("refresh", "graph") = "manifest"
    /\ After("refresh", "manifest") = "attest" /\ After("refresh", "attest") = "cas"
    /\ After("refresh", "cas") = "temp" /\ After("refresh", "temp") = "replace"
    /\ After("refresh", "replace") = "flushParent"
    /\ \A pc \in Pcs("refresh") : IsLast("refresh", pc) <=> pc = "flushParent"
<1> DEFINE s == Script("refresh")
<1>1. /\ Len(s) = 15
      /\ s[1] = "read-base" /\ s[2] = "paths" /\ s[3] = "fence" /\ s[4] = "expect-base"
      /\ s[5] = "exists" /\ s[6] = "mkdir" /\ s[7] = "copy" /\ s[8] = "contain"
      /\ s[9] = "graph" /\ s[10] = "manifest" /\ s[11] = "attest" /\ s[12] = "cas"
      /\ s[13] = "temp" /\ s[14] = "replace" /\ s[15] = "flushParent"
  BY DEF Script, runRefresh, Materialize, Prove, Publish, Journaled
<1> HIDE DEF s
<1>2. \A i, j \in 1..Len(s) : s[i] = s[j] => i = j
  BY <1>1
<1>3. \A i \in 1..Len(s) - 1 : After("refresh", s[i]) = s[i + 1]
  BY <1>2, AfterStep DEF s
<1>4. /\ After("refresh", s[1]) = s[2] /\ After("refresh", s[2]) = s[3]
      /\ After("refresh", s[3]) = s[4] /\ After("refresh", s[4]) = s[5]
      /\ After("refresh", s[5]) = s[6] /\ After("refresh", s[6]) = s[7]
      /\ After("refresh", s[7]) = s[8] /\ After("refresh", s[8]) = s[9]
      /\ After("refresh", s[9]) = s[10] /\ After("refresh", s[10]) = s[11]
      /\ After("refresh", s[11]) = s[12] /\ After("refresh", s[12]) = s[13]
      /\ After("refresh", s[13]) = s[14] /\ After("refresh", s[14]) = s[15]
  BY <1>1, <1>3
<1>5. \A pc \in Pcs("refresh") : IsLast("refresh", pc) <=> pc = "flushParent"
  BY <1>1 DEF IsLast, s
<1> QED  BY <1>1, <1>4, <1>5 DEF s

\* The stations of runRefresh, publications journaled.
LEMMA RefreshJournaled ==
  ASSUME journaled
  PROVE
    /\ Script("refresh")[1] = "read-base"
    /\ After("refresh", "read-base") = "paths" /\ After("refresh", "paths") = "fence"
    /\ After("refresh", "fence") = "expect-base"
    /\ After("refresh", "expect-base") = "exists" /\ After("refresh", "exists") = "mkdir"
    /\ After("refresh", "mkdir") = "copy" /\ After("refresh", "copy") = "contain"
    /\ After("refresh", "contain") = "graph" /\ After("refresh", "graph") = "manifest"
    /\ After("refresh", "manifest") = "attest"
    /\ After("refresh", "attest") = "j-prepare" /\ After("refresh", "j-prepare") = "cas"
    /\ After("refresh", "cas") = "temp" /\ After("refresh", "temp") = "replace"
    /\ After("refresh", "replace") = "flushParent"
    /\ After("refresh", "flushParent") = "j-commit"
    /\ \A pc \in Pcs("refresh") : IsLast("refresh", pc) <=> pc = "j-commit"
<1> DEFINE s == Script("refresh")
<1>1. /\ Len(s) = 17
      /\ s[1] = "read-base" /\ s[2] = "paths" /\ s[3] = "fence" /\ s[4] = "expect-base"
      /\ s[5] = "exists" /\ s[6] = "mkdir" /\ s[7] = "copy" /\ s[8] = "contain"
      /\ s[9] = "graph" /\ s[10] = "manifest" /\ s[11] = "attest" /\ s[12] = "j-prepare"
      /\ s[13] = "cas" /\ s[14] = "temp" /\ s[15] = "replace" /\ s[16] = "flushParent"
      /\ s[17] = "j-commit"
  BY DEF Script, runRefresh, Materialize, Prove, Publish, Journaled
<1> HIDE DEF s
<1>2. \A i, j \in 1..Len(s) : s[i] = s[j] => i = j
  BY <1>1
<1>3. \A i \in 1..Len(s) - 1 : After("refresh", s[i]) = s[i + 1]
  BY <1>2, AfterStep DEF s
<1>4. /\ After("refresh", s[1]) = s[2] /\ After("refresh", s[2]) = s[3]
      /\ After("refresh", s[3]) = s[4] /\ After("refresh", s[4]) = s[5]
      /\ After("refresh", s[5]) = s[6] /\ After("refresh", s[6]) = s[7]
      /\ After("refresh", s[7]) = s[8] /\ After("refresh", s[8]) = s[9]
      /\ After("refresh", s[9]) = s[10] /\ After("refresh", s[10]) = s[11]
      /\ After("refresh", s[11]) = s[12] /\ After("refresh", s[12]) = s[13]
      /\ After("refresh", s[13]) = s[14] /\ After("refresh", s[14]) = s[15]
      /\ After("refresh", s[15]) = s[16] /\ After("refresh", s[16]) = s[17]
  BY <1>1, <1>3
<1>5. \A pc \in Pcs("refresh") : IsLast("refresh", pc) <=> pc = "j-commit"
  BY <1>1 DEF IsLast, s
<1> QED  BY <1>1, <1>4, <1>5 DEF s

\* The stations of runRestoreMigration, publications not journaled.
LEMMA RestorePlain ==
  ASSUME ~journaled
  PROVE
    /\ Script("restore")[1] = "fence"
    /\ After("restore", "fence") = "accepted-base"
    /\ After("restore", "accepted-base") = "provenance"
    /\ After("restore", "provenance") = "exists" /\ After("restore", "exists") = "mkdir"
    /\ After("restore", "mkdir") = "copy" /\ After("restore", "copy") = "contain"
    /\ After("restore", "contain") = "graph" /\ After("restore", "graph") = "manifest"
    /\ After("restore", "manifest") = "attest" /\ After("restore", "attest") = "cas"
    /\ After("restore", "cas") = "temp" /\ After("restore", "temp") = "replace"
    /\ After("restore", "replace") = "flushParent"
    /\ \A pc \in Pcs("restore") : IsLast("restore", pc) <=> pc = "flushParent"
<1> DEFINE s == Script("restore")
<1>1. /\ Len(s) = 14
      /\ s[1] = "fence" /\ s[2] = "accepted-base" /\ s[3] = "provenance"
      /\ s[4] = "exists" /\ s[5] = "mkdir" /\ s[6] = "copy" /\ s[7] = "contain"
      /\ s[8] = "graph" /\ s[9] = "manifest" /\ s[10] = "attest" /\ s[11] = "cas"
      /\ s[12] = "temp" /\ s[13] = "replace" /\ s[14] = "flushParent"
  BY DEF Script, runRestoreMigration, Materialize, Prove, Publish, Journaled
<1> HIDE DEF s
<1>2. \A i, j \in 1..Len(s) : s[i] = s[j] => i = j
  BY <1>1
<1>3. \A i \in 1..Len(s) - 1 : After("restore", s[i]) = s[i + 1]
  BY <1>2, AfterStep DEF s
<1>4. /\ After("restore", s[1]) = s[2] /\ After("restore", s[2]) = s[3]
      /\ After("restore", s[3]) = s[4] /\ After("restore", s[4]) = s[5]
      /\ After("restore", s[5]) = s[6] /\ After("restore", s[6]) = s[7]
      /\ After("restore", s[7]) = s[8] /\ After("restore", s[8]) = s[9]
      /\ After("restore", s[9]) = s[10] /\ After("restore", s[10]) = s[11]
      /\ After("restore", s[11]) = s[12] /\ After("restore", s[12]) = s[13]
      /\ After("restore", s[13]) = s[14]
  BY <1>1, <1>3
<1>5. \A pc \in Pcs("restore") : IsLast("restore", pc) <=> pc = "flushParent"
  BY <1>1 DEF IsLast, s
<1> QED  BY <1>1, <1>4, <1>5 DEF s

\* The stations of runRestoreMigration, publications journaled.
LEMMA RestoreJournaled ==
  ASSUME journaled
  PROVE
    /\ Script("restore")[1] = "fence"
    /\ After("restore", "fence") = "accepted-base"
    /\ After("restore", "accepted-base") = "provenance"
    /\ After("restore", "provenance") = "exists" /\ After("restore", "exists") = "mkdir"
    /\ After("restore", "mkdir") = "copy" /\ After("restore", "copy") = "contain"
    /\ After("restore", "contain") = "graph" /\ After("restore", "graph") = "manifest"
    /\ After("restore", "manifest") = "attest"
    /\ After("restore", "attest") = "j-prepare" /\ After("restore", "j-prepare") = "cas"
    /\ After("restore", "cas") = "temp" /\ After("restore", "temp") = "replace"
    /\ After("restore", "replace") = "flushParent"
    /\ After("restore", "flushParent") = "j-commit"
    /\ \A pc \in Pcs("restore") : IsLast("restore", pc) <=> pc = "j-commit"
<1> DEFINE s == Script("restore")
<1>1. /\ Len(s) = 16
      /\ s[1] = "fence" /\ s[2] = "accepted-base" /\ s[3] = "provenance"
      /\ s[4] = "exists" /\ s[5] = "mkdir" /\ s[6] = "copy" /\ s[7] = "contain"
      /\ s[8] = "graph" /\ s[9] = "manifest" /\ s[10] = "attest" /\ s[11] = "j-prepare"
      /\ s[12] = "cas" /\ s[13] = "temp" /\ s[14] = "replace" /\ s[15] = "flushParent"
      /\ s[16] = "j-commit"
  BY DEF Script, runRestoreMigration, Materialize, Prove, Publish, Journaled
<1> HIDE DEF s
<1>2. \A i, j \in 1..Len(s) : s[i] = s[j] => i = j
  BY <1>1
<1>3. \A i \in 1..Len(s) - 1 : After("restore", s[i]) = s[i + 1]
  BY <1>2, AfterStep DEF s
<1>4. /\ After("restore", s[1]) = s[2] /\ After("restore", s[2]) = s[3]
      /\ After("restore", s[3]) = s[4] /\ After("restore", s[4]) = s[5]
      /\ After("restore", s[5]) = s[6] /\ After("restore", s[6]) = s[7]
      /\ After("restore", s[7]) = s[8] /\ After("restore", s[8]) = s[9]
      /\ After("restore", s[9]) = s[10] /\ After("restore", s[10]) = s[11]
      /\ After("restore", s[11]) = s[12] /\ After("restore", s[12]) = s[13]
      /\ After("restore", s[13]) = s[14] /\ After("restore", s[14]) = s[15]
      /\ After("restore", s[15]) = s[16]
  BY <1>1, <1>3
<1>5. \A pc \in Pcs("restore") : IsLast("restore", pc) <=> pc = "j-commit"
  BY <1>1 DEF IsLast, s
<1> QED  BY <1>1, <1>4, <1>5 DEF s

\* The stations of runResetDelete.
LEMMA ResetStations ==
    /\ Script("reset")[1] = "fence"
    /\ After("reset", "fence") = "quiesce" /\ After("reset", "quiesce") = "disposition"
    /\ After("reset", "disposition") = "backup" /\ After("reset", "backup") = "residual"
    /\ After("reset", "residual") = "prep-replace"
    /\ After("reset", "prep-replace") = "prep-flush"
    /\ After("reset", "prep-flush") = "recheck" /\ After("reset", "recheck") = "tomb-cas"
    /\ After("reset", "tomb-cas") = "tomb-temp"
    /\ After("reset", "tomb-temp") = "tomb-replace"
    /\ After("reset", "tomb-replace") = "tomb-flush"
    /\ After("reset", "tomb-flush") = "commit"
    /\ After("reset", "commit") = "clear-unlink"
    /\ After("reset", "clear-unlink") = "clear-flush"
    /\ \A pc \in Pcs("reset") : IsLast("reset", pc) <=> pc = "clear-flush"
<1> DEFINE s == Script("reset")
<1>1. /\ Len(s) = 15
      /\ s[1] = "fence" /\ s[2] = "quiesce" /\ s[3] = "disposition" /\ s[4] = "backup"
      /\ s[5] = "residual" /\ s[6] = "prep-replace" /\ s[7] = "prep-flush"
      /\ s[8] = "recheck" /\ s[9] = "tomb-cas" /\ s[10] = "tomb-temp"
      /\ s[11] = "tomb-replace" /\ s[12] = "tomb-flush" /\ s[13] = "commit"
      /\ s[14] = "clear-unlink" /\ s[15] = "clear-flush"
  BY DEF Script, runResetDelete
<1> HIDE DEF s
<1>2. \A i, j \in 1..Len(s) : s[i] = s[j] => i = j
  BY <1>1
<1>3. \A i \in 1..Len(s) - 1 : After("reset", s[i]) = s[i + 1]
  BY <1>2, AfterStep DEF s
<1>4. /\ After("reset", s[1]) = s[2] /\ After("reset", s[2]) = s[3]
      /\ After("reset", s[3]) = s[4] /\ After("reset", s[4]) = s[5]
      /\ After("reset", s[5]) = s[6] /\ After("reset", s[6]) = s[7]
      /\ After("reset", s[7]) = s[8] /\ After("reset", s[8]) = s[9]
      /\ After("reset", s[9]) = s[10] /\ After("reset", s[10]) = s[11]
      /\ After("reset", s[11]) = s[12] /\ After("reset", s[12]) = s[13]
      /\ After("reset", s[13]) = s[14] /\ After("reset", s[14]) = s[15]
  BY <1>1, <1>3
<1>5. \A pc \in Pcs("reset") : IsLast("reset", pc) <=> pc = "clear-flush"
  BY <1>1 DEF IsLast, s
<1> QED  BY <1>1, <1>4, <1>5 DEF s

\* The stations of a publication replayed at boot.
LEMMA ReplayStations ==
    /\ Script("replay")[1] = "cas"
    /\ After("replay", "cas") = "temp" /\ After("replay", "temp") = "replace"
    /\ After("replay", "replace") = "flushParent"
    /\ \A pc \in Pcs("replay") : IsLast("replay", pc) <=> pc = "flushParent"
<1> DEFINE s == Script("replay")
<1>1. /\ Len(s) = 4
      /\ s[1] = "cas" /\ s[2] = "temp" /\ s[3] = "replace" /\ s[4] = "flushParent"
  BY DEF Script, Publish
<1> HIDE DEF s
<1>2. \A i, j \in 1..Len(s) : s[i] = s[j] => i = j
  BY <1>1
<1>3. \A i \in 1..Len(s) - 1 : After("replay", s[i]) = s[i + 1]
  BY <1>2, AfterStep DEF s
<1>4. /\ After("replay", s[1]) = s[2] /\ After("replay", s[2]) = s[3]
      /\ After("replay", s[3]) = s[4]
  BY <1>1, <1>3
<1>5. \A pc \in Pcs("replay") : IsLast("replay", pc) <=> pc = "flushParent"
  BY <1>1 DEF IsLast, s
<1> QED  BY <1>1, <1>4, <1>5 DEF s

\* Where an operation goes from each station that is not its last.
LEMMA Stations ==
  ASSUME journaled \in BOOLEAN, NEW op \in Ops, NEW pc \in Pcs(op)
  PROVE
    /\ pc = "read-base" => After(op, pc) = "paths"
    /\ pc = "paths" => After(op, pc) = IF op = "create" THEN "exists" ELSE "fence"
    /\ pc = "fence" => After(op, pc) = CASE op = "refresh" -> "expect-base"
                                         [] op = "restore" -> "accepted-base"
                                         [] OTHER -> "quiesce"
    /\ pc = "expect-base" => After(op, pc) = "exists"
    /\ pc = "accepted-base" => After(op, pc) = "provenance"
    /\ pc = "provenance" => After(op, pc) = "exists"
    /\ pc = "exists" => After(op, pc) = "mkdir"
    /\ pc = "mkdir" => After(op, pc) = "copy"
    /\ pc = "copy" => After(op, pc) = "contain"
    /\ pc = "contain" => After(op, pc) = "graph"
    /\ pc = "graph" => After(op, pc) = "manifest"
    /\ pc = "manifest" => After(op, pc) = "attest"
    /\ pc = "attest" => After(op, pc) = IF journaled THEN "j-prepare" ELSE "cas"
    /\ pc = "j-prepare" /\ journaled => After(op, pc) = "cas"
    /\ pc = "cas" => After(op, pc) = "temp"
    /\ pc = "temp" => After(op, pc) = "replace"
    /\ pc = "replace" => After(op, pc) = "flushParent"
    /\ pc = "flushParent" => /\ IsLast(op, pc) <=> op = "replay" \/ ~journaled
                             /\ ~IsLast(op, pc) => After(op, pc) = "j-commit"
    /\ pc = "quiesce" => After(op, pc) = "disposition"
    /\ pc = "disposition" => After(op, pc) = "backup"
    /\ pc = "backup" => After(op, pc) = "residual"
    /\ pc = "residual" => After(op, pc) = "prep-replace"
    /\ pc = "prep-replace" => After(op, pc) = "prep-flush"
    /\ pc = "prep-flush" => After(op, pc) = "recheck"
    /\ pc = "recheck" => After(op, pc) = "tomb-cas"
    /\ pc = "tomb-cas" => After(op, pc) = "tomb-temp"
    /\ pc = "tomb-temp" => After(op, pc) = "tomb-replace"
    /\ pc = "tomb-replace" => After(op, pc) = "tomb-flush"
    /\ pc = "tomb-flush" => After(op, pc) = "commit"
    /\ pc = "commit" => After(op, pc) = "clear-unlink"
    /\ pc = "clear-unlink" => After(op, pc) = "clear-flush"
<1> USE DEF Pcs, OwnPcs, MayBeLive, PrepPcs, TombPcs, ClearPcs
<1>1. CASE op = "none"
  BY <1>1
<1>2. CASE op = "create"
  <2>1. CASE journaled
    BY <1>2, <2>1, CreateJournaled
  <2>2. CASE ~journaled
    BY <1>2, <2>2, CreatePlain
  <2> QED  BY <2>1, <2>2
<1>3. CASE op = "refresh"
  <2>1. CASE journaled
    BY <1>3, <2>1, RefreshJournaled
  <2>2. CASE ~journaled
    BY <1>3, <2>2, RefreshPlain
  <2> QED  BY <2>1, <2>2
<1>4. CASE op = "restore"
  <2>1. CASE journaled
    BY <1>4, <2>1, RestoreJournaled
  <2>2. CASE ~journaled
    BY <1>4, <2>2, RestorePlain
  <2> QED  BY <2>1, <2>2
<1>5. CASE op = "reset"
  BY <1>5, ResetStations
<1>6. CASE op = "replay"
  BY <1>6, ReplayStations
<1> QED  BY <1>1, <1>2, <1>3, <1>4, <1>5, <1>6 DEF Ops

\* The station an operation starts at.
LEMMA FirstStations ==
  ASSUME journaled \in BOOLEAN
  PROVE  /\ Script("create")[1] = "paths"
         /\ Script("refresh")[1] = "read-base"
         /\ Script("restore")[1] = "fence"
         /\ Script("reset")[1] = "fence"
BY CreatePlain, CreateJournaled, RefreshPlain, RefreshJournaled, RestorePlain,
   RestoreJournaled, ResetStations

-----------------------------------------------------------------------------
(* Fingerprints and slots.                                                 *)

\* Every fingerprint begins with itself.
LEMMA BeginsReflexive ==
  ASSUME NEW f \in Fingerprint
  PROVE  Begins(f, f)
BY DEF Begins, Fingerprint

\* To begin is transitive.
LEMMA BeginsTransitive ==
  ASSUME NEW f \in Fingerprint, NEW g \in Fingerprint, NEW h \in Fingerprint,
         Begins(f, g), Begins(g, h)
  PROVE  Begins(f, h)
<1>1. Len(f) \in Nat /\ Len(g) \in Nat /\ Len(h) \in Nat
  BY DEF Fingerprint
<1>2. \A i \in 1..Len(f) : i \in 1..Len(g) /\ f[i] = h[i]
  BY <1>1 DEF Begins
<1> QED  BY <1>1, <1>2 DEF Begins

\* A fingerprint that begins another is what is left of it when it is cut.
LEMMA BeginsIsCut ==
  ASSUME NEW f \in Fingerprint, NEW h \in Fingerprint, Begins(f, h)
  PROVE  Len(f) <= Len(h) /\ SubSeq(h, 1, Len(f)) = f
<1>1. Len(f) \in Nat /\ Len(h) \in Nat /\ f \in Seq(Nat \X Content) /\ h \in Seq(Nat \X Content)
  BY DEF Fingerprint
<1>2. Len(f) <= Len(h) /\ \A i \in 1..Len(f) : f[i] = h[i]
  BY DEF Begins
<1>3. SubSeq(h, 1, Len(f)) \in Seq(Nat \X Content)
  BY <1>1, <1>2
<1>4. Len(SubSeq(h, 1, Len(f))) = Len(f)
  BY <1>1, <1>2
<1>5. \A i \in 1..Len(f) : SubSeq(h, 1, Len(f))[i] = f[i]
  BY <1>1, <1>2
<1> QED  BY <1>1, <1>2, <1>3, <1>4, <1>5

\* The empty fingerprint begins every other.
LEMMA EmptyFingerprint ==
  /\ << >> \in Fingerprint /\ Len(<< >>) = 0
  /\ \A f \in Fingerprint : Begins(<< >>, f)
  /\ \A f \in Fingerprint : Len(f) = 0 => f = << >>
BY DEF Fingerprint, Begins

\* A pointer's fingerprint is the chain of its generations, one longer than its
\* prior's.
LEMMA FpChain ==
  ASSUME NEW p \in Pointer
  PROVE  /\ Fp(p) \in Fingerprint /\ Len(Fp(p)) = p.gen /\ Begins(p.priorFp, Fp(p))
         /\ p.k = "ptr" /\ p.gen \in Gens /\ p.content \in Content
         /\ p.priorFp \in Fingerprint /\ p.gen = Len(p.priorFp) + 1
<1>1. /\ p.k = "ptr" /\ p.gen \in Gens /\ p.content \in Content
      /\ p.priorFp \in Fingerprint /\ p.gen = Len(p.priorFp) + 1
  BY DEF Pointer
<1>2. PICK f \in Seq(Nat \X Content) : f = p.priorFp /\ \A i \in 1..Len(f) : f[i][1] = i
  BY <1>1 DEF Fingerprint
<1>3. PICK e \in Nat \X Content : e = <<p.gen, p.content>>
  <2>1. p.gen \in Nat
    BY <1>1 DEF Gens
  <2>2. <<p.gen, p.content>> \in Nat \X Content
    BY <1>1, <2>1
  <2> QED  BY <2>2
<1>4. Fp(p) = Append(f, e)
  BY <1>2, <1>3 DEF Fp
<1>5. /\ Append(f, e) \in Seq(Nat \X Content) /\ Len(Append(f, e)) = Len(f) + 1
      /\ \A i \in 1..Len(f) : Append(f, e)[i] = f[i]
      /\ Append(f, e)[Len(f) + 1] = e
  BY <1>2, <1>3
<1>6. e[1] = Len(f) + 1 /\ Len(f) \in Nat
  BY <1>1, <1>2, <1>3
<1>7. \A i \in 1..Len(f) + 1 : Append(f, e)[i][1] = i
  BY <1>2, <1>5, <1>6
<1>8. Append(f, e) \in Fingerprint
  BY <1>5, <1>7, <1>6 DEF Fingerprint
<1>9. Begins(f, Append(f, e))
  BY <1>5, <1>6 DEF Begins
<1> QED  BY <1>1, <1>2, <1>4, <1>5, <1>6, <1>8, <1>9

\* What a slot stands for.
LEMMA SlotChain ==
  ASSUME NEW s, IsSlot(s)
  PROVE  /\ Chain(s) \in Fingerprint
         /\ s.k \in {"none", "ptr", "tomb"}
         /\ s.k = "none" <=> s = NoSlot
         /\ s.k = "none" => Chain(s) = << >> /\ FpOf(s) = << >>
         /\ s.k = "ptr" => s \in Pointer /\ Chain(s) = Fp(s) /\ FpOf(s) = Fp(s)
         /\ s.k = "tomb" => /\ s.prior \in Pointer /\ s = buildTombstone(s.prior)
                            /\ s.gen = s.prior.gen /\ Chain(s) = Fp(s.prior)
         /\ s.k # "none" => Len(Chain(s)) = s.gen
<1>1. CASE s = NoSlot
  BY <1>1, EmptyFingerprint DEF NoSlot, Chain, FpOf
<1>2. CASE s.k = "ptr" /\ s \in Pointer
  BY <1>2, FpChain DEF NoSlot, Chain, FpOf
<1>3. CASE s.k = "tomb" /\ s.prior \in Pointer /\ s = buildTombstone(s.prior)
  <2>1. s.gen = s.prior.gen
    BY <1>3 DEF buildTombstone
  <2> QED  BY <1>3, <2>1, FpChain DEF NoSlot, Chain, FpOf
<1> QED  BY <1>1, <1>2, <1>3 DEF IsSlot

\* A pointer, or the tombstone over it, in the slot.
LEMMA PointerSlot ==
  ASSUME NEW p \in Pointer
  PROVE  /\ IsSlot(p) /\ Chain(p) = Fp(p) /\ FpOf(p) = Fp(p) /\ p # NoSlot
         /\ IsSlot(buildTombstone(p)) /\ buildTombstone(p).k = "tomb"
         /\ Chain(buildTombstone(p)) = Fp(p)
         /\ buildTombstone(p).gen = p.gen /\ buildTombstone(p).prior = p
BY FpChain DEF IsSlot, Chain, FpOf, NoSlot, buildTombstone

\* What the compare-and-swap lets pass chains onto what is in the slot.
LEMMA SuccessionChains ==
  ASSUME NEW p \in Pointer, NEW s, IsSlot(s), assertSuccession(p, s)
  PROVE  s.k # "tomb" /\ p.priorFp = FpOf(s) /\ (p.gen = 1 => s = NoSlot)
<1>1. CASE p.priorFp = << >>
  BY <1>1, SlotChain DEF assertSuccession
<1>2. CASE p.priorFp # << >>
  <2>1. s.k = "ptr" /\ p.priorFp = Fp(s)
    BY <1>2 DEF assertSuccession
  <2>2. p.gen # 1
    BY <1>2, FpChain, EmptyFingerprint DEF Fingerprint
  <2> QED  BY <2>1, <2>2, SlotChain
<1> QED  BY <1>1, <1>2

\* A pointer over what is in the slot continues its chain.
LEMMA SuccessorContinues ==
  ASSUME NEW p \in Pointer, NEW s, IsSlot(s), s.k # "tomb", p.priorFp = FpOf(s)
  PROVE  Begins(Chain(s), Fp(p))
<1>1. Chain(s) = FpOf(s)
  BY SlotChain
<1> QED  BY <1>1, FpChain

-----------------------------------------------------------------------------
(* Steps of one operation.                                                 *)

\* The record of an operation, and what the invariant says of it.
LEMMA TaskKnown ==
  ASSUME Shapes, TaskTies, NEW t \in Tasks
  PROVE  task[t] \in TaskRecord /\ Ties(task[t])
BY DEF Shapes, TaskTies

\* One operation is written to; the others stay as they are.
LEMMA OthersKept ==
  ASSUME Shapes, NEW t \in Tasks, NEW r, task' = [task EXCEPT ![t] = r]
  PROVE  /\ task'[t] = r
         /\ \A u \in Tasks : u # t => task'[u] = task[u]
BY DEF Shapes

\* The fence keeps an exclusive operation alone, and one builder runs.
FenceKept(t, r) ==
    \/ r.held = 0
    \/ r.held = task[t].held
    \/ /\ \A u \in Tasks \ {t} : task[u].held # 0 =>
             r.op \notin ExclusiveOps /\ task[u].op \notin ExclusiveOps
       /\ r.op \in ExclusiveOps => lease.invoke = 0

\* Who runs together stays right when one operation goes on or ends.
LEMMA TogetherKept ==
  ASSUME Shapes, Together, NEW t \in Tasks, NEW r \in TaskRecord,
         task' = [task EXCEPT ![t] = r],
         r.op = "none" \/ r.op = task[t].op,
         r.op = "none" => r.held = 0,
         FenceKept(t, r),
         lease'.invoke = lease.invoke,
         \/ mode' = mode
         \/ task[t].op = "replay" /\ r.op = "none" /\ mode' = "up"
  PROVE  Together'
<1>1. /\ task'[t] = r
      /\ \A u \in Tasks : u # t => task'[u] = task[u]
  BY OthersKept
<1>2. \A u \in Tasks : Running(u)' => mode' = IF task'[u].op = "replay" THEN "boot" ELSE "up"
  BY <1>1 DEF Together, Running
<1>3. \A u \in Tasks : task'[u].op = "replay" => u = BootTask
  BY <1>1 DEF Together
<1>4. \A u, v \in Tasks : u # v /\ task'[u].op \in Builders => task'[v].op \notin Builders
  BY <1>1 DEF Together, Builders
<1>5. \A u, v \in Tasks : u # v /\ task'[u].op \in ExclusiveOps /\ task'[u].held # 0
          => task'[v].held = 0
  BY <1>1 DEF Together, FenceKept, ExclusiveOps
<1>6. \A u \in Tasks : task'[u].op \in ExclusiveOps /\ task'[u].held # 0 => lease'.invoke = 0
  BY <1>1 DEF Together, FenceKept, ExclusiveOps
<1> QED  BY <1>2, <1>3, <1>4, <1>5, <1>6 DEF Together

\* A record r that makes nothing x did not make.
ApartKept(x, r) ==
    /\ Makes(r) => Makes(x) /\ r.gen = x.gen
    /\ Solid(r) => Solid(x) /\ r.gen = x.gen
    /\ x.pc \in {"cas", "temp", "replace"} /\ Makes(r) =>
          r.ptr = x.ptr /\ r.pc \in {"cas", "temp", "replace"}

\* Directories stay apart when no operation starts to make one and the slot stays.
LEMMA ApartFrame ==
  ASSUME Shapes, Apart, NEW t \in Tasks, NEW r \in TaskRecord,
         task' = [task EXCEPT ![t] = r],
         ApartKept(task[t], r),
         lease'.epoch = lease.epoch, live' = live, liveDur' = liveDur,
         jrn' = jrn \/ jrn'.phase # "prepared"
  PROVE  Apart'
<1>1. /\ task'[t] = r
      /\ \A u \in Tasks : u # t => task'[u] = task[u]
  BY OthersKept
<1>2. \A u \in Tasks : /\ Makes(task[u])' => Makes(task[u]) /\ task'[u].gen = task[u].gen
                       /\ Solid(task[u])' => Solid(task[u]) /\ task'[u].gen = task[u].gen
  <2>1. TAKE u \in Tasks
  <2>2. CASE u = t
    <3>1. Makes(task'[t]) <=> Makes(r)
      BY <1>1
    <3>2. Solid(task[t])' <=> Solid(r)
      BY <1>1 DEF Solid
    <3> QED  BY <2>2, <3>1, <3>2, <1>1 DEF ApartKept
  <2>3. CASE u # t
    BY <2>1, <2>3, <1>1 DEF Solid, Makes
  <2> QED  BY <2>2, <2>3
<1>3. \A u, v \in Tasks : u # v /\ Solid(task[u])' /\ Makes(task[v])' => task'[v].gen # task'[u].gen
  BY <1>2 DEF Apart
<1>4. \A u \in Tasks : Makes(task[u])' =>
         /\ live'.k = "ptr" => live'.gen # task'[u].gen
         /\ liveDur'.k = "ptr" => liveDur'.gen # task'[u].gen
  BY <1>2 DEF Apart
<1>5. \A u \in Tasks : Makes(task[u])' /\ jrn'.phase = "prepared" =>
              \/ jrn'.cand.gen # task'[u].gen
              \/ jrn'.cand = task'[u].ptr /\ task'[u].pc \in {"cas", "temp", "replace"}
  BY <1>1, <1>2 DEF Apart, ApartKept
<1> QED  BY <1>3, <1>4, <1>5 DEF Apart

\* What the operations share, but for the count of faults.
SpentKept == spent' \in [ops : Nat, faults : Nat, power : BOOLEAN] /\ spent'.power = spent.power
Quiet == UNCHANGED <<disk, journaled, lease, barred, mode, told>> /\ SpentKept

-----------------------------------------------------------------------------
(* Steps that change the operation's own record only.                      *)

\* The record r is x at station q.
Moved(x, r, q) ==
    /\ r \in TaskRecord /\ r.pc = q /\ r.op = x.op /\ r.cand = x.cand /\ r.gen = x.gen
    /\ r.held = x.held /\ r.base = x.base /\ r.ptr = x.ptr /\ r.own = x.own /\ r.undo = x.undo

\* A record that only goes to another station has moved.
LEMMA MovedRecord ==
  ASSUME NEW x \in TaskRecord, NEW q \in AllPcs
  PROVE  Moved(x, [x EXCEPT !.pc = q], q)
BY DEF TaskRecord, Moved

\* The stations left without a look at anything.
Passed(x, q) ==
    \/ x.pc = "provenance" /\ q = "exists"
    \/ x.pc = "exists" /\ q = "mkdir"
    \/ x.pc = "contain" /\ q = "graph"
    \/ x.pc = "graph" /\ q = "manifest"
    \/ x.pc = "temp" /\ q = "replace"
    \/ x.pc = "quiesce" /\ q = "disposition"
    \/ x.pc = "backup" /\ q = "residual"
    \/ x.pc = "residual" /\ q = "prep-replace"
    \/ x.pc = "recheck" /\ q = "tomb-cas"
    \/ x.pc = "tomb-cas" /\ q = "tomb-temp"
    \/ x.pc = "tomb-temp" /\ q = "tomb-replace"
    \/ x.pc = "paths" /\ q = (IF x.op = "create" THEN "exists" ELSE "fence")

\* What an operation is tied to at a station it passes without a claim, it is at the next.
LEMMA PassedTies ==
  ASSUME NEW x \in TaskRecord, NEW q, NEW r, Moved(x, r, q), Ties(x), Passed(x, q)
  PROVE  Ties(r)
<1>1. RecordOK(r)
  <2> USE DEF Ties, Moved, Passed, Pcs, OwnPcs, MayBeLive, PrepPcs, TombPcs, ClearPcs
  <2>1. x.op \in Ops
    BY DEF TaskRecord
  <2>2. x.pc \in Pcs(x.op) /\ x.op # "none"
    BY <2>1 DEF RecordOK, Ops
  <2>3. r.pc \in Pcs(r.op)
    BY <2>1, <2>2 DEF Ops
  <2>4. BaseKnown(r) => BaseKnown(x)
    BY <2>2 DEF BaseKnown
  <2>5. Fenced(r) <=> Fenced(x)
    BY <2>2 DEF Fenced, ExclusiveOps
  <2>6. /\ r.own => r.pc \in OwnPcs \cup MayBeLive
        /\ r.pc \notin {"j-prepare", "j-commit"}
        /\ r.undo => r.op = "reset" /\ r.pc \in ClearPcs
        /\ r.pc \in PtrPcs => x.pc \in PtrPcs
    BY <2>2 DEF RecordOK, PtrPcs, LatePcs
  <2> QED  BY <2>2, <2>3, <2>4, <2>5, <2>6 DEF RecordOK
<1>2. LeaseTie(r)
  BY DEF Ties, LeaseTie, Moved
<1>3. SlotTie(r)
  BY DEF Ties, RecordOK, SlotTie, Moved, Passed, OnBase, Pcs, OwnPcs, MayBeLive, PrepPcs, TombPcs, ClearPcs
<1>4. RecTie(r)
  BY DEF Ties, RecTie, Moved, Passed, PrepPcs, TombPcs, ClearPcs
<1>5. JournalTie(r)
  BY DEF Ties, JournalTie, Moved
<1>6. DirTie(r)
  BY DEF Ties, DirTie, Solid, Moved, Passed, OwnPcs, PtrPcs, LatePcs, MayBeLive
<1> QED  BY <1>1, <1>2, <1>3, <1>4, <1>5, <1>6 DEF Ties

-----------------------------------------------------------------------------
(* Steps on the candidate directory, and refusals.                         *)

\* An operation that is not running is tied to nothing.
LEMMA IdleTies ==
  /\ Idle \in TaskRecord
  /\ Ties(Idle) /\ Ties(Idle)'
  /\ ~Makes(Idle) /\ ~Solid(Idle) /\ ~(Solid(Idle))'
  /\ Idle.op = "none" /\ Idle.held = 0
<1>1. Idle \in TaskRecord
  <2>1. "idle" \in AllPcs
    BY DEF AllPcs, Pcs, Ops
  <2> QED  BY <2>1 DEF Idle, TaskRecord, Ops
<1>2. RecordOK(Idle) /\ RecordOK(Idle)'
  BY DEF RecordOK, Idle, Pcs, BaseKnown, Fenced, ExclusiveOps, OwnPcs, MayBeLive, PtrPcs, LatePcs
<1>3. /\ LeaseTie(Idle) /\ LeaseTie(Idle)'
      /\ JournalTie(Idle) /\ JournalTie(Idle)'
  BY DEF LeaseTie, Idle, JournalTie
<1>4. SlotTie(Idle) /\ SlotTie(Idle)'
  BY DEF SlotTie, Idle, OnBase, ClearPcs
<1>5. RecTie(Idle) /\ RecTie(Idle)'
  BY DEF RecTie, Idle, PrepPcs, TombPcs, ClearPcs
<1>6. ~Makes(Idle) /\ ~Solid(Idle) /\ ~(Solid(Idle))'
  BY DEF Makes, Solid, Idle, OwnPcs
<1>7. DirTie(Idle) /\ DirTie(Idle)'
  BY <1>6 DEF DirTie
<1> QED  BY <1>1, <1>2, <1>3, <1>4, <1>5, <1>6, <1>7 DEF Ties, Idle

\* Nothing is touched but what generation g holds.
DirKept(g) ==
    /\ dir' \in [Gens -> Content] /\ synced' \subseteq Gens
    /\ \A h \in Gens \ {g} : dir'[h] = dir[h] /\ (h \in synced => h \in synced')

\* One operation goes on or ends; it may make, fill or remove its own candidate
\* directory, and withdraw its journal.
LEMMA DirMove ==
  ASSUME LifecycleInv, NEW t \in Tasks, NEW r \in TaskRecord,
         task' = [task EXCEPT ![t] = r],
         UNCHANGED <<live, liveDur, rec, recDur, journaled, lease, barred, mode, told>>, SpentKept,
         jrn' = jrn \/ (jrn' = [jrn EXCEPT !.phase = "none"] /\ Running(t)),
         \/ dir' = dir /\ synced' = synced
         \/ /\ Makes(task[t]) /\ DirKept(task[t].gen)
            /\ jrn'.phase = "prepared" => jrn.cand.gen # task[t].gen,
         Ties(r)', r.op = "none" \/ r.op = task[t].op, FenceKept(t, r), Apart',
         task[t].pc \in {"tomb-flush", "commit"} => barred
  PROVE  LifecycleInv'
<1>1. /\ task'[t] = r
      /\ \A u \in Tasks : u # t => task'[u] = task[u]
  BY OthersKept DEF LifecycleInv
<1>2. PICK x \in TaskRecord : x = task[t] /\ Ties(x)
  BY TaskKnown DEF LifecycleInv
<1>3. /\ jrn'.cand = jrn.cand /\ jrn'.prior = jrn.prior /\ jrn'.phase \in {jrn.phase, "none"}
      /\ jrn' = [phase |-> jrn'.phase, cand |-> jrn'.cand, prior |-> jrn'.prior]
  <2>1. jrn = [phase |-> jrn.phase, cand |-> jrn.cand, prior |-> jrn.prior]
    BY DEF LifecycleInv, Shapes
  <2> QED  BY <2>1
<1>4. dir' \in [Gens -> Content] /\ synced' \subseteq Gens
  BY DEF LifecycleInv, Shapes, DirKept
<1>5. \A h \in Gens : \/ dir'[h] = dir[h] /\ (h \in synced => h \in synced')
                      \/ Makes(x) /\ h = x.gen /\ (jrn'.phase = "prepared" => jrn.cand.gen # h)
  BY <1>2 DEF DirKept
<1>6. Shapes'
  <2>1. task' \in [Tasks -> TaskRecord]
    BY DEF LifecycleInv, Shapes
  <2> QED  BY <1>3, <1>4, <2>1 DEF LifecycleInv, Shapes, SpentKept, IsSlot
<1>7. Together'
  <2>1. r.op = "none" => r.held = 0
    BY DEF Ties, RecordOK, Idle
  <2> QED  BY <2>1, TogetherKept DEF LifecycleInv
<1>8. TaskTies'
  <2>1. SUFFICES ASSUME NEW u \in Tasks, u # t
                 PROVE  Ties(task[u])'
    BY <1>1 DEF TaskTies, Ties
  <2>2. PICK y \in TaskRecord : y = task[u] /\ Ties(y) /\ y = task'[u]
    BY <1>1, <2>1, TaskKnown DEF LifecycleInv
  <2>3. RecordOK(y)' /\ LeaseTie(y)' /\ SlotTie(y)' /\ RecTie(y)'
    BY <2>2 DEF Ties, RecordOK, LeaseTie, SlotTie, RecTie
  <2>4. JournalTie(y)'
    <3>1. CASE jrn' = jrn
      BY <3>1, <2>2 DEF Ties, JournalTie
    <3>2. CASE Running(t)
      BY <3>2, <2>1, <2>2 DEF LifecycleInv, Together, Running, JournalTie
    <3> QED  BY <3>1, <3>2
  <2>5. DirTie(y)'
    <3>1. SUFFICES ASSUME Solid(y)
                   PROVE  DirTie(y)'
      BY DEF DirTie, Solid
    <3>2. y.gen \in Gens
      BY <3>1, <2>2 DEF Ties, RecordOK, Solid, Idle, OwnPcs
    <3>3. dir'[y.gen] = dir[y.gen] /\ (y.gen \in synced => y.gen \in synced')
      BY <1>2, <1>5, <2>1, <2>2, <3>1, <3>2 DEF LifecycleInv, Apart
    <3> QED  BY <2>2, <3>1, <3>3 DEF Ties, DirTie
  <2> QED  BY <2>2, <2>3, <2>4, <2>5 DEF Ties
<1>9. Durable'
  <2>1. ASSUME NEW p \in Pointer, Present(p), Makes(x) => x.gen # p.gen
        PROVE  Present(p)'
    <3>1. p.gen \in Gens
      BY FpChain
    <3>2. dir'[p.gen] = dir[p.gen] /\ (p.gen \in synced => p.gen \in synced')
      BY <1>5, <2>1, <3>1
    <3> QED  BY <2>1, <3>2 DEF Present, SpentKept
  <2>2. /\ live.k = "ptr" => live \in Pointer /\ (Makes(x) => x.gen # live.gen)
        /\ liveDur.k = "ptr" => liveDur \in Pointer /\ (Makes(x) => x.gen # liveDur.gen)
    BY <1>2, SlotChain DEF LifecycleInv, Shapes, Apart
  <2>3. (live.k = "ptr" => Present(live))' /\ (liveDur.k = "ptr" => Present(liveDur))'
    BY <2>1, <2>2 DEF LifecycleInv, Durable
  <2>4. (jrn.phase = "prepared" => jrn.cand \in Pointer /\ Present(jrn.cand))'
    <3>1. SUFFICES ASSUME jrn'.phase = "prepared"
                   PROVE  jrn.cand \in Pointer /\ Present(jrn.cand)'
      BY <1>3
    <3>2. jrn.cand \in Pointer /\ Present(jrn.cand) /\ jrn.cand.gen \in Gens
      BY <1>3, <3>1, FpChain DEF LifecycleInv, Durable
    <3>3. /\ dir'[jrn.cand.gen] = dir[jrn.cand.gen]
          /\ jrn.cand.gen \in synced => jrn.cand.gen \in synced'
      BY <1>5, <3>1, <3>2
    <3> QED  BY <1>3, <3>2, <3>3 DEF Present, SpentKept
  <2>5. /\ Begins(Chain(liveDur), Chain(live))'
        /\ (liveDur.k = "tomb" => live = liveDur)'
        /\ TerminalRecordCovers'
        /\ (mode = "boot" => live.k # "tomb" /\ ~rec)'
    BY DEF LifecycleInv, Durable, TerminalRecordCovers
  <2>6. live'.k = "tomb" /\ mode' = "up" =>
         barred' \/ \E u \in Tasks : task'[u].pc \in {"tomb-flush", "commit"}
    BY <1>1 DEF LifecycleInv, Durable
  <2> QED  BY <2>3, <2>4, <2>5, <2>6 DEF Durable
<1>10. Told' /\ InvokeRoutesToPointer'
  BY DEF LifecycleInv, Told, TerminalSurvivesRestart, InvokeRoutesToPointer
<1> QED  BY <1>6, <1>7, <1>8, <1>9, <1>10 DEF LifecycleInv

\* The same, when the operation makes nothing it did not make.
LEMMA DirStep ==
  ASSUME LifecycleInv, NEW t \in Tasks, NEW r \in TaskRecord,
         task' = [task EXCEPT ![t] = r],
         UNCHANGED <<live, liveDur, rec, recDur, journaled, lease, barred, mode, told>>, SpentKept,
         jrn' = jrn \/ (jrn' = [jrn EXCEPT !.phase = "none"] /\ Running(t)),
         \/ dir' = dir /\ synced' = synced
         \/ /\ Makes(task[t]) /\ DirKept(task[t].gen)
            /\ jrn'.phase = "prepared" => jrn.cand.gen # task[t].gen,
         Ties(r)', r.op = "none" \/ r.op = task[t].op, FenceKept(t, r), ApartKept(task[t], r),
         task[t].pc \in {"tomb-flush", "commit"} => barred
  PROVE  LifecycleInv'
<1>1. jrn' = jrn \/ jrn'.phase # "prepared"
  <2>1. jrn = [phase |-> jrn.phase, cand |-> jrn.cand, prior |-> jrn.prior]
    BY DEF LifecycleInv, Shapes
  <2> QED  BY <2>1
<1>2. Apart'
  BY <1>1, ApartFrame DEF LifecycleInv
<1> QED  BY <1>2, DirMove

\* A refused or failed operation lets go of its lease and of the candidate it
\* made, and of nothing else.
LEMMA RefuseStep ==
  ASSUME LifecycleInv, NEW t \in Tasks, Running(t), refuse(t),
         UNCHANGED <<journaled, lease, barred, mode, told>>, SpentKept,
         task[t].pc \in {"tomb-flush", "commit"} => barred
  PROVE  LifecycleInv'
<1>1. PICK x \in TaskRecord : x = task[t] /\ Ties(x) /\ x.op # "none"
  BY TaskKnown DEF LifecycleInv, Running
<1>2. /\ task' = [task EXCEPT ![t] = Idle] /\ jrn' = Withdrawn(t)
      /\ UNCHANGED <<live, liveDur, rec, recDur, synced>>
      /\ \/ Removable(t) /\ dir' = [dir EXCEPT ![x.gen] = "none"]
         \/ dir' = dir
  BY <1>1 DEF refuse, finally, Become
<1>3. /\ jrn' = jrn \/ jrn' = [jrn EXCEPT !.phase = "none"]
      /\ jrn' = jrn => ~(/\ x.op \in {"create", "refresh", "restore", "replay"}
                         /\ x.pc \notin MayBeLive /\ jrn.phase = "prepared" /\ jrn.cand = x.ptr)
  <2>1. jrn = [phase |-> jrn.phase, cand |-> jrn.cand, prior |-> jrn.prior]
    BY DEF LifecycleInv, Shapes
  <2> QED  BY <1>1, <1>2, <2>1 DEF Withdrawn, IsPublishing
<1>4. CASE dir' = dir
  BY <1>1, <1>2, <1>3, <1>4, IdleTies, DirStep DEF FenceKept, ApartKept
<1>5. CASE Removable(t) /\ dir' = [dir EXCEPT ![x.gen] = "none"]
  <2>1. Makes(x) /\ x.pc \notin MayBeLive
    BY <1>1, <1>5 DEF Removable, Makes, Builders, Ties, RecordOK, OwnPcs, MayBeLive
  <2>2. x.gen \in Gens
    BY <1>1 DEF Ties, RecordOK
  <2>3. DirKept(x.gen)
    BY <1>2, <1>5, <2>2 DEF DirKept, LifecycleInv, Shapes, Content
  <2>4. jrn'.phase = "prepared" => jrn.cand.gen # x.gen
    <3>1. SUFFICES ASSUME jrn'.phase = "prepared", jrn.cand.gen = x.gen
                   PROVE  FALSE
      OBVIOUS
    <3>2. jrn' = jrn
      <4>1. jrn = [phase |-> jrn.phase, cand |-> jrn.cand, prior |-> jrn.prior]
        BY DEF LifecycleInv, Shapes
      <4> QED  BY <1>3, <3>1, <4>1
    <3>3. jrn.cand = x.ptr /\ x.pc \in {"cas", "temp", "replace"}
      BY <1>1, <2>1, <3>1, <3>2 DEF LifecycleInv, Apart
    <3> QED  BY <1>3, <2>1, <3>1, <3>2, <3>3 DEF Makes
  <2> QED  BY <1>1, <1>2, <1>3, <2>1, <2>3, <2>4, IdleTies, DirStep DEF FenceKept, ApartKept
<1> QED  BY <1>2, <1>4, <1>5

\* An operation that ends without touching the disk.
LEMMA LeaveStep ==
  ASSUME LifecycleInv, NEW t \in Tasks, finally(t), Quiet,
         task[t].pc \in {"tomb-flush", "commit"} => barred
  PROVE  LifecycleInv'
BY IdleTies, DirStep DEF finally, Become, Quiet, disk, FenceKept, ApartKept

-----------------------------------------------------------------------------
(* One lemma per step.                                                     *)

\* A quiet step leaves every tie as it was.
LEMMA QuietTies ==
  ASSUME Quiet, NEW y, Ties(y)
  PROVE  Ties(y)'
<1>1. UNCHANGED <<live, liveDur, rec, recDur, dir, synced, jrn, journaled, lease, barred, mode, told>>
  BY DEF Quiet, disk
<1> QED  BY <1>1 DEF Ties, RecordOK, LeaseTie, SlotTie, RecTie, JournalTie, DirTie, Solid

\* A step that reads, and leaves the disk alone, is quiet.
LEMMA ReadsQuiet ==
  ASSUME LifecycleInv, Reads, UNCHANGED disk
  PROVE  Quiet
BY DEF LifecycleInv, Shapes, Reads, Memory, Quiet, SpentKept

\* The record with which a running operation goes on, and where it goes.
LEMMA Advancing ==
  ASSUME LifecycleInv, NEW t \in Tasks, Running(t), NEW x \in TaskRecord, Advance(t, x),
         x.op = task[t].op, x.pc = task[t].pc, ~IsLast(x.op, x.pc) \/ x.pc # "flushParent",
         x.pc \notin {"j-commit", "clear-flush"}
  PROVE  /\ x.op \in Ops /\ x.op # "none" /\ x.pc \in Pcs(x.op)
         /\ x.pc \in {"j-prepare", "j-commit"} => journaled
         /\ journaled \in BOOLEAN
         /\ After(x.op, x.pc) \in AllPcs
         /\ \E r \in TaskRecord : /\ Moved(x, r, After(x.op, x.pc))
                                  /\ task' = [task EXCEPT ![t] = r]
<1>1. task[t] \in TaskRecord /\ Ties(task[t])
  BY TaskKnown DEF LifecycleInv
<1>2. x.op \in Ops /\ x.op # "none" /\ x.pc \in Pcs(x.op)
  BY <1>1 DEF Running, TaskRecord, Ties, RecordOK
<1>3. x.pc \in {"j-prepare", "j-commit"} => journaled
  BY <1>1 DEF Ties, RecordOK
<1>4. journaled \in BOOLEAN
  BY DEF LifecycleInv, Shapes
<1>5. After(x.op, x.pc) \in AllPcs
  <2> USE DEF Pcs, OwnPcs, MayBeLive, PrepPcs, TombPcs, ClearPcs
  <2>1. After(x.op, x.pc) \in Pcs(x.op)
    <3>1. CASE x.op = "create"
      BY <1>2, <1>3, <1>4, <3>1, Stations
    <3>2. CASE x.op = "refresh"
      BY <1>2, <1>3, <1>4, <3>2, Stations
    <3>3. CASE x.op = "restore"
      BY <1>2, <1>3, <1>4, <3>3, Stations
    <3>4. CASE x.op = "reset"
      BY <1>2, <1>3, <1>4, <3>4, Stations
    <3>5. CASE x.op = "replay"
      BY <1>2, <1>3, <1>4, <3>5, Stations
    <3> QED  BY <1>2, <3>1, <3>2, <3>3, <3>4, <3>5 DEF Ops
  <2> QED  BY <1>2, <2>1 DEF AllPcs
<1>6. PICK r \in TaskRecord : r = [x EXCEPT !.pc = After(x.op, x.pc)] /\ Moved(x, r, After(x.op, x.pc))
  BY <1>5, MovedRecord DEF Moved
<1>7. task' = [task EXCEPT ![t] = r]
  BY <1>6 DEF Advance, Become
<1> QED  BY <1>2, <1>3, <1>4, <1>5, <1>6, <1>7

\* A station passed without a claim keeps the invariant.
LEMMA PassedStep ==
  ASSUME LifecycleInv, NEW t \in Tasks, Running(t), NEW q, Passed(task[t], q), q # "mkdir",
         Advance(t, task[t]), Quiet
  PROVE  LifecycleInv'
<1>1. PICK x \in TaskRecord : x = task[t] /\ Ties(x)
  BY TaskKnown DEF LifecycleInv
<1>2. PICK r \in TaskRecord : Moved(x, r, After(x.op, x.pc)) /\ task' = [task EXCEPT ![t] = r]
  BY <1>1, Advancing DEF Passed
<1>3. After(x.op, x.pc) = q
  BY <1>1, Advancing, Stations DEF Passed
<1>4. Ties(r)'
  BY <1>1, <1>2, <1>3, PassedTies, QuietTies
<1>5. ApartKept(x, r)
  BY <1>1, <1>2, <1>3 DEF ApartKept, Moved, Passed, Makes, Solid, OwnPcs, LatePcs
<1>6. FenceKept(t, r) /\ r.op = x.op /\ x.pc \notin {"tomb-flush", "commit"}
  BY <1>1, <1>2 DEF FenceKept, Moved, Passed
<1> QED  BY <1>1, <1>2, <1>4, <1>5, <1>6, DirStep DEF Quiet, disk

\* A record read, or not found, and the step that depends on it.
LEMMA TestStep ==
  ASSUME LifecycleInv, NEW t \in Tasks, Running(t), Reads, NEW q, Passed(task[t], q), q # "mkdir",
         NEW ok, Test(t, ok, task[t])
  PROVE  LifecycleInv'
<1>1. CASE ok
  BY <1>1, PassedStep, ReadsQuiet DEF Test, Pass
<1>2. CASE ~ok
  <2>1. SpentKept /\ UNCHANGED <<journaled, lease, barred, mode, told>>
    BY DEF LifecycleInv, Shapes, Reads, Memory, SpentKept
  <2>2. task[t].pc \notin {"tomb-flush", "commit"}
    BY DEF Passed
  <2> QED  BY <1>2, <2>1, <2>2, RefuseStep DEF Test
<1> QED  BY <1>1, <1>2

\* The steps that only look and either pass or refuse.
LEMMA PassStep ==
  ASSUME LifecycleInv, NEW t \in Tasks,
         \/ resolveManifestPaths(t) \/ verifyRestoreProvenance(t) \/ verifyContained(t)
         \/ verifyRepositoryGraph(t) \/ writeTemp(t) \/ assertQuiescent(t)
         \/ computeDirtyBackup(t) \/ assertResidualProcessAbsence(t)
  PROVE  LifecycleInv'
<1>1. \E q : Passed(task[t], q) /\ q # "mkdir"
  BY DEF resolveManifestPaths, verifyRestoreProvenance, verifyContained, verifyRepositoryGraph,
         writeTemp, assertQuiescent, computeDirtyBackup, assertResidualProcessAbsence, At, Passed
<1>2. CASE resolveManifestPaths(t)
  BY <1>1, <1>2, TestStep DEF resolveManifestPaths, At
<1>3. CASE verifyRestoreProvenance(t)
  BY <1>1, <1>3, PassedStep, ReadsQuiet DEF verifyRestoreProvenance, At, Pass
<1>4. CASE verifyContained(t)
  BY <1>1, <1>4, PassedStep, ReadsQuiet DEF verifyContained, At, Pass
<1>5. CASE verifyRepositoryGraph(t)
  BY <1>1, <1>5, PassedStep, ReadsQuiet DEF verifyRepositoryGraph, At, Pass
<1>6. CASE writeTemp(t)
  BY <1>1, <1>6, PassedStep, ReadsQuiet DEF writeTemp, At, Pass
<1>7. CASE assertQuiescent(t)
  BY <1>1, <1>7, TestStep DEF assertQuiescent, At
<1>8. CASE computeDirtyBackup(t)
  BY <1>1, <1>8, TestStep DEF computeDirtyBackup, At
<1>9. CASE assertResidualProcessAbsence(t)
  BY <1>1, <1>9, TestStep DEF assertResidualProcessAbsence, At
<1> QED  BY <1>2, <1>3, <1>4, <1>5, <1>6, <1>7, <1>8, <1>9

\* A refresh derives its successor from the pointer it reads.
LEMMA ReadBaseStep ==
  ASSUME LifecycleInv, NEW t \in Tasks, readBase(t)
  PROVE  LifecycleInv'
<1>1. PICK x \in TaskRecord : x = task[t] /\ Ties(x) /\ x.pc = "read-base" /\ x.op = "refresh"
  <2>1. task[t] \in TaskRecord /\ Ties(task[t]) /\ task[t].pc = "read-base"
    BY TaskKnown DEF LifecycleInv, readBase, At
  <2> QED  BY <2>1 DEF TaskRecord, Ops, Ties, RecordOK, Pcs, OwnPcs, MayBeLive, PrepPcs, TombPcs, ClearPcs
<1>2. CASE ~(live.k = "ptr" /\ live.gen < MaxGen)
  BY <1>1, <1>2, RefuseStep DEF readBase, Test, At, Reads, Memory, SpentKept, LifecycleInv, Shapes
<1>3. CASE live.k = "ptr" /\ live.gen < MaxGen
  <2>1. live \in Pointer /\ live.gen \in Gens /\ live.gen + 1 \in Gens /\ live.gen + 1 \in Nat
    BY <1>3, SlotChain, FpChain, WorkspaceAssumption DEF LifecycleInv, Shapes, Gens
  <2>2. PICK y \in TaskRecord : y = [x EXCEPT !.base = live, !.gen = live.gen + 1]
    BY <2>1 DEF TaskRecord
  <2>3. /\ y.op = x.op /\ y.pc = x.pc /\ y.cand = x.cand /\ y.gen = live.gen + 1 /\ y.held = x.held
        /\ y.base = live /\ y.ptr = x.ptr /\ y.own = x.own /\ y.undo = x.undo
    BY <2>2 DEF TaskRecord
  <2>4. Advance(t, y) /\ Quiet /\ Running(t)
    BY <1>1, <1>3, <2>2, ReadsQuiet DEF readBase, Test, Pass, At
  <2>5. PICK r \in TaskRecord : Moved(y, r, After(y.op, y.pc)) /\ task' = [task EXCEPT ![t] = r]
    BY <1>1, <2>3, <2>4, Advancing
  <2>6. After(y.op, y.pc) = "paths"
    BY <1>1, <2>3, <2>4, Advancing, Stations
  <2>7. Ties(r)
    <3>1. RecordOK(r)
      BY <1>1, <2>1, <2>3, <2>5, <2>6 DEF Ties, RecordOK, Moved, Pcs, OwnPcs, PtrPcs, LatePcs,
         MayBeLive, BaseKnown, Fenced, ExclusiveOps
    <3>2. LeaseTie(r) /\ SlotTie(r) /\ RecTie(r) /\ JournalTie(r) /\ DirTie(r)
      BY <1>1, <2>3, <2>5, <2>6, <3>1 DEF Ties, RecordOK, LeaseTie, SlotTie, OnBase, RecTie, JournalTie, DirTie, Moved,
         OwnPcs, PrepPcs, TombPcs, ClearPcs, Solid
    <3> QED  BY <3>1, <3>2 DEF Ties
  <2>8. ApartKept(x, r) /\ FenceKept(t, r)
    BY <1>1, <2>3, <2>5, <2>6 DEF ApartKept, Moved, Makes, Solid, OwnPcs, FenceKept
  <2> QED  BY <1>1, <2>3, <2>4, <2>5, <2>7, <2>8, QuietTies, DirStep DEF Quiet, disk, Moved
<1> QED  BY <1>2, <1>3

\* Which operation stands at a station.
LEMMA Standing ==
  ASSUME LifecycleInv, NEW t \in Tasks
  PROVE  \E x \in TaskRecord :
           /\ x = task[t] /\ Ties(x) /\ x.op \in Ops
           /\ x.pc \in {"read-base", "expect-base"} => x.op = "refresh"
           /\ x.pc \in {"accepted-base", "provenance"} => x.op = "restore"
           /\ x.pc = "paths" => x.op \in Builders
           /\ x.pc = "fence" => x.op \in {"refresh", "restore", "reset"}
           /\ x.pc \in {"exists", "mkdir", "copy", "contain", "graph", "manifest", "attest",
                        "j-prepare", "j-commit"} => x.op \in {"create", "refresh", "restore"}
           /\ x.pc \in {"cas", "temp", "replace", "flushParent"} =>
                 x.op \in {"create", "refresh", "restore", "replay"}
           /\ x.pc \in {"quiesce", "disposition", "backup", "residual", "prep-replace",
                        "tomb-flush", "commit"} \cup PrepPcs \cup ClearPcs => x.op = "reset"
<1>1. task[t] \in TaskRecord /\ Ties(task[t])
  BY TaskKnown DEF LifecycleInv
<1>2. task[t].op \in Ops /\ task[t].pc \in Pcs(task[t].op)
  BY <1>1 DEF TaskRecord, Ties, RecordOK
<1> QED
  BY <1>1, <1>2 DEF Ops, Pcs, OwnPcs, MayBeLive, PrepPcs, TombPcs, ClearPcs, Builders

\* A step that reads and refuses, with the removal its cleanup makes.
LEMMA RefusedStep ==
  ASSUME LifecycleInv, NEW t \in Tasks, Running(t), Reads, refuse(t),
         task[t].pc \notin {"tomb-flush", "commit"}
  PROVE  LifecycleInv'
BY RefuseStep DEF Reads, Memory, SpentKept, LifecycleInv, Shapes

\* The fence is taken, alone by a reset or restore, or the operation refuses.
LEMMA FenceStep ==
  ASSUME LifecycleInv, NEW t \in Tasks, fence(t)
  PROVE  LifecycleInv'
<1>1. PICK x \in TaskRecord : /\ x = task[t] /\ Ties(x) /\ x.pc = "fence"
                              /\ x.op \in {"refresh", "restore", "reset"}
  BY Standing DEF fence, At
<1>2. CASE ~acquireFence(t)
  BY <1>1, <1>2, RefusedStep DEF fence, Test, At
<1>3. CASE acquireFence(t)
  <2>1. /\ lease.epoch \in Nat /\ lease.epoch # 0 /\ x.cand = lease.epoch
        /\ lease.invoke \in {0, lease.epoch}
        /\ \A u \in Tasks : task[u].held # 0 => task[u].held = lease.epoch /\ task[u].op \notin ExclusiveOps
        /\ x.op \in ExclusiveOps => lease.invoke = 0 /\ \A u \in Tasks : task[u].held = 0
    BY <1>1, <1>3 DEF acquireFence, LifecycleInv, Shapes, Holders
  <2>2. PICK y \in TaskRecord : y = [x EXCEPT !.held = lease.epoch]
    BY <2>1 DEF TaskRecord
  <2>3. /\ y.op = x.op /\ y.pc = x.pc /\ y.cand = x.cand /\ y.gen = x.gen /\ y.held = lease.epoch
        /\ y.base = x.base /\ y.ptr = x.ptr /\ y.own = x.own /\ y.undo = x.undo
    BY <2>2 DEF TaskRecord
  <2>4. Advance(t, y) /\ Quiet /\ Running(t)
    BY <1>1, <1>3, <2>2, ReadsQuiet DEF fence, Test, Pass, At
  <2>5. PICK r \in TaskRecord : Moved(y, r, After(y.op, y.pc)) /\ task' = [task EXCEPT ![t] = r]
    BY <1>1, <2>3, <2>4, Advancing
  <2>6. After(y.op, y.pc) = CASE x.op = "refresh" -> "expect-base"
                              [] x.op = "restore" -> "accepted-base"
                              [] OTHER -> "quiesce"
    BY <1>1, <2>3, <2>4, Advancing, Stations
  <2>7. Ties(r)
    <3>1. RecordOK(r)
      BY <1>1, <2>1, <2>3, <2>5, <2>6 DEF Ties, RecordOK, Moved, Pcs, OwnPcs, PtrPcs, LatePcs,
         MayBeLive, BaseKnown, Fenced, ExclusiveOps, ClearPcs
    <3>2. LeaseTie(r) /\ SlotTie(r) /\ RecTie(r) /\ JournalTie(r) /\ DirTie(r)
      BY <1>1, <2>3, <2>5, <2>6, <3>1 DEF Ties, RecordOK, LeaseTie, SlotTie, OnBase, RecTie, JournalTie, DirTie, Moved,
         OwnPcs, PrepPcs, TombPcs, ClearPcs, Solid
    <3> QED  BY <3>1, <3>2 DEF Ties
  <2>8. ApartKept(x, r)
    BY <1>1, <2>3, <2>5, <2>6 DEF ApartKept, Moved, Makes, Solid, OwnPcs
  <2>9. FenceKept(t, r)
    BY <1>1, <2>1, <2>3, <2>5 DEF FenceKept, Moved
  <2> QED  BY <1>1, <2>3, <2>4, <2>5, <2>7, <2>8, <2>9, QuietTies, DirStep DEF Quiet, disk, Moved
<1> QED  BY <1>2, <1>3

\* A refresh compares the pointer it read with the live one, under its fence.
LEMMA ExpectedBaseStep ==
  ASSUME LifecycleInv, NEW t \in Tasks, assertExpectedBase(t)
  PROVE  LifecycleInv'
<1>1. PICK x \in TaskRecord : x = task[t] /\ Ties(x) /\ x.pc = "expect-base" /\ x.op = "refresh"
  BY Standing DEF assertExpectedBase, At
<1>2. CASE ~(live = x.base /\ isCurrent(t))
  BY <1>1, <1>2, RefusedStep DEF assertExpectedBase, Test, At
<1>3. CASE live = x.base /\ isCurrent(t)
  <2>1. Advance(t, x) /\ Quiet /\ Running(t)
    BY <1>1, <1>3, ReadsQuiet DEF assertExpectedBase, Test, Pass, At
  <2>2. PICK r \in TaskRecord : Moved(x, r, After(x.op, x.pc)) /\ task' = [task EXCEPT ![t] = r]
    BY <1>1, <2>1, Advancing
  <2>3. After(x.op, x.pc) = "exists"
    BY <1>1, <2>1, Advancing, Stations
  <2>4. Ties(r)
    <3>1. RecordOK(r)
      BY <1>1, <2>2, <2>3 DEF Ties, RecordOK, Moved, Pcs, OwnPcs, PtrPcs, LatePcs,
         MayBeLive, BaseKnown, Fenced, ExclusiveOps
    <3>2. LeaseTie(r) /\ SlotTie(r) /\ RecTie(r) /\ JournalTie(r) /\ DirTie(r)
      BY <1>1, <1>3, <2>2, <2>3, <3>1 DEF Ties, RecordOK, LeaseTie, SlotTie, OnBase, RecTie, JournalTie, DirTie, Moved,
         OwnPcs, PrepPcs, TombPcs, ClearPcs, Solid
    <3> QED  BY <3>1, <3>2 DEF Ties
  <2>5. ApartKept(x, r) /\ FenceKept(t, r)
    BY <1>1, <2>2, <2>3 DEF ApartKept, Moved, Makes, Solid, OwnPcs, FenceKept
  <2> QED  BY <1>1, <2>1, <2>2, <2>4, <2>5, QuietTies, DirStep DEF Quiet, disk, Moved
<1> QED  BY <1>2, <1>3

\* An exclusive operation takes the pointer in the slot as its base.
LEMMA AcceptedStep ==
  ASSUME LifecycleInv, NEW t \in Tasks, assertAcceptedBase(t) \/ readLiveDisposition(t)
  PROVE  LifecycleInv'
<1>1. PICK x \in TaskRecord : /\ x = task[t] /\ Ties(x) /\ x.pc \in {"accepted-base", "disposition"}
                              /\ x.op = IF x.pc = "disposition" THEN "reset" ELSE "restore"
  BY Standing DEF assertAcceptedBase, readLiveDisposition, At
<1>2. PICK g : /\ g = IF x.op = "reset" THEN x.gen ELSE x.gen - 1
               /\ Accepted(t, g)
  BY <1>1 DEF assertAcceptedBase, readLiveDisposition, At
<1>3. Running(t) /\ Reads
  BY DEF assertAcceptedBase, readLiveDisposition, At
<1>4. CASE ~(isCurrent(t) /\ live.k = "ptr" /\ live.gen = g)
  BY <1>1, <1>2, <1>3, <1>4, RefusedStep DEF Accepted, Test
<1>5. CASE isCurrent(t) /\ live.k = "ptr" /\ live.gen = g
  <2>1. live \in Pointer /\ live.gen \in Gens /\ x.gen \in Gens
    BY <1>1, <1>5, SlotChain, FpChain DEF LifecycleInv, Shapes, Ties, RecordOK
  <2>2. PICK y \in TaskRecord : y = [x EXCEPT !.base = live]
    BY <2>1 DEF TaskRecord
  <2>3. /\ y.op = x.op /\ y.pc = x.pc /\ y.cand = x.cand /\ y.gen = x.gen /\ y.held = x.held
        /\ y.base = live /\ y.ptr = x.ptr /\ y.own = x.own /\ y.undo = x.undo
    BY <2>2 DEF TaskRecord
  <2>4. Advance(t, y) /\ Quiet
    BY <1>1, <1>2, <1>3, <1>5, <2>2, ReadsQuiet DEF Accepted, Test, Pass
  <2>5. PICK r \in TaskRecord : Moved(y, r, After(y.op, y.pc)) /\ task' = [task EXCEPT ![t] = r]
    BY <1>1, <1>3, <2>3, <2>4, Advancing
  <2>6. After(y.op, y.pc) = IF x.op = "reset" THEN "backup" ELSE "provenance"
    BY <1>1, <1>3, <2>3, <2>4, Advancing, Stations
  <2>7. x.gen = IF x.op = "reset" THEN live.gen ELSE live.gen + 1
    BY <1>1, <1>2, <1>5, <2>1 DEF Gens
  <2>8. Ties(r)
    <3>1. RecordOK(r)
      BY <1>1, <2>1, <2>3, <2>5, <2>6, <2>7 DEF Ties, RecordOK, Moved, Pcs, OwnPcs, PtrPcs, LatePcs,
         MayBeLive, BaseKnown, Fenced, ExclusiveOps, ClearPcs
    <3>2. LeaseTie(r) /\ SlotTie(r) /\ RecTie(r) /\ JournalTie(r) /\ DirTie(r)
      BY <1>1, <2>3, <2>5, <2>6, <3>1 DEF Ties, RecordOK, LeaseTie, SlotTie, OnBase, RecTie, JournalTie, DirTie, Moved,
         OwnPcs, PrepPcs, TombPcs, ClearPcs, Solid
    <3> QED  BY <3>1, <3>2 DEF Ties
  <2>9. ApartKept(x, r) /\ FenceKept(t, r)
    BY <1>1, <2>3, <2>5, <2>6 DEF ApartKept, Moved, Makes, Solid, OwnPcs, FenceKept
  <2> QED  BY <1>1, <2>3, <2>4, <2>5, <2>8, <2>9, QuietTies, DirStep DEF Quiet, disk, Moved
<1> QED  BY <1>4, <1>5

\* A candidate that may still be published is there.
LEMMA SolidHeld ==
  ASSUME NEW x, Solid(x), DirTie(x)
  PROVE  dir[x.gen] # "none" /\ (x.pc # "copy" => dir[x.gen] \in Contents \cup {Staged})
BY WorkspaceAssumption DEF Solid, DirTie

\* The target directory is looked up and is no pointer's.
LEMMA TargetFreeStep ==
  ASSUME LifecycleInv, NEW t \in Tasks, assertTargetFree(t)
  PROVE  LifecycleInv'
<1>1. PICK x \in TaskRecord : /\ x = task[t] /\ Ties(x) /\ x.pc = "exists"
                              /\ x.op \in {"create", "refresh", "restore"}
  BY Standing DEF assertTargetFree, At
<1>2. PICK ok \in BOOLEAN : Test(t, ok, x) /\ (ok => dir[x.gen] = "none")
  BY <1>1 DEF assertTargetFree
<1>3. CASE ~ok
  BY <1>1, <1>2, <1>3, RefusedStep DEF assertTargetFree, Test, At
<1>4. CASE ok
  <2>1. Advance(t, x) /\ Quiet /\ Running(t) /\ dir[x.gen] = "none"
    BY <1>1, <1>2, <1>4, ReadsQuiet DEF assertTargetFree, Test, Pass, At
  <2>2. PICK r \in TaskRecord : Moved(x, r, After(x.op, x.pc)) /\ task' = [task EXCEPT ![t] = r]
    BY <1>1, <2>1, Advancing
  <2>3. After(x.op, x.pc) = "mkdir"
    BY <1>1, <2>1, Advancing, Stations
  <2>4. Ties(r)
    BY <1>1, <2>2, <2>3, PassedTies DEF Passed
  <2>5. Apart'
    <3>1. /\ task'[t] = r
          /\ \A u \in Tasks : u # t => task'[u] = task[u]
      BY <2>2, OthersKept DEF LifecycleInv
    <3>2. UNCHANGED <<live, liveDur, jrn, lease>>
      BY <2>1 DEF Quiet, disk
    <3>3. ~Solid(r) /\ r.gen = x.gen
      BY <2>2, <2>3 DEF Moved, Solid, OwnPcs
    <3>4. ASSUME NEW u \in Tasks, u # t, Solid(task[u])
          PROVE  task[u].gen # x.gen
      <4>1. DirTie(task[u])
        BY TaskKnown DEF LifecycleInv, Ties
      <4> QED  BY <2>1, <3>4, <4>1, SolidHeld
    <3>5. \A u, v \in Tasks : u # v /\ Solid(task[u])' /\ Makes(task[v])' => task'[v].gen # task'[u].gen
      <4>1. SUFFICES ASSUME NEW u \in Tasks, NEW v \in Tasks, u # v, Solid(task[u])', Makes(task[v])'
                     PROVE  task'[v].gen # task'[u].gen
        OBVIOUS
      <4>2. u # t /\ task'[u] = task[u] /\ Solid(task[u])
        BY <3>1, <3>2, <3>3, <4>1 DEF Solid
      <4>3. CASE v = t
        BY <3>1, <3>3, <3>4, <4>1, <4>2, <4>3
      <4>4. CASE v # t
        BY <3>1, <4>1, <4>2, <4>4 DEF LifecycleInv, Apart
      <4> QED  BY <4>3, <4>4
    <3>6. /\ live.k = "ptr" => live.gen # x.gen
          /\ liveDur.k = "ptr" => liveDur.gen # x.gen
          /\ jrn.phase = "prepared" => jrn.cand.gen # x.gen
      BY <2>1 DEF LifecycleInv, Durable, Present
    <3>7. \A u \in Tasks : Makes(task[u])' =>
             /\ live'.k = "ptr" => live'.gen # task'[u].gen
             /\ liveDur'.k = "ptr" => liveDur'.gen # task'[u].gen
             /\ jrn'.phase = "prepared" =>
                  \/ jrn'.cand.gen # task'[u].gen
                  \/ jrn'.cand = task'[u].ptr /\ task'[u].pc \in {"cas", "temp", "replace"}
      <4>1. SUFFICES ASSUME NEW u \in Tasks, Makes(task[u])'
                     PROVE  /\ live'.k = "ptr" => live'.gen # task'[u].gen
                            /\ liveDur'.k = "ptr" => liveDur'.gen # task'[u].gen
                            /\ jrn'.phase = "prepared" =>
                                 \/ jrn'.cand.gen # task'[u].gen
                                 \/ jrn'.cand = task'[u].ptr /\ task'[u].pc \in {"cas", "temp", "replace"}
        OBVIOUS
      <4>2. CASE u = t
        BY <3>1, <3>2, <3>3, <3>6, <4>2
      <4>3. CASE u # t
        BY <3>1, <3>2, <4>1, <4>3 DEF LifecycleInv, Apart
      <4> QED  BY <4>2, <4>3
    <3> QED  BY <3>5, <3>7 DEF Apart
  <2>6. FenceKept(t, r) /\ r.op = x.op
    BY <1>1, <2>2 DEF FenceKept, Moved
  <2> QED  BY <1>1, <2>1, <2>2, <2>4, <2>5, <2>6, QuietTies, DirMove DEF Quiet, disk
<1> QED  BY <1>3, <1>4

\* The pointer is built from the candidate as it is now.
LEMMA ManifestStep ==
  ASSUME LifecycleInv, NEW t \in Tasks, computeManifestEntries(t)
  PROVE  LifecycleInv'
<1>1. PICK x \in TaskRecord : /\ x = task[t] /\ Ties(x) /\ x.pc = "manifest"
                              /\ x.op \in {"create", "refresh", "restore"}
  BY Standing DEF computeManifestEntries, At
<1>2. PICK p : p = buildGenerationPointer(x.gen, dir[x.gen], FpOf(x.base))
  OBVIOUS
<1>3. CASE ~validateGenerationPointer(p)
  BY <1>1, <1>2, <1>3, RefusedStep DEF computeManifestEntries, Test, At
<1>4. CASE validateGenerationPointer(p)
  <2>1. /\ p.gen = x.gen /\ p.content = dir[x.gen] /\ p.priorFp = FpOf(x.base)
        /\ p \in Pointer
    <3>1. x.gen \in Gens /\ dir[x.gen] \in Content
      BY <1>1 DEF Ties, RecordOK, LifecycleInv, Shapes
    <3>2. FpOf(x.base) \in Fingerprint
      <4>1. x.base = NoSlot \/ x.base \in Pointer
        BY DEF TaskRecord
      <4> QED  BY <4>1, PointerSlot, FpChain, EmptyFingerprint DEF FpOf, NoSlot
    <3> QED  BY <1>2, <1>4, <3>1, <3>2 DEF buildGenerationPointer, validateGenerationPointer, Pointer
  <2>2. PICK y \in TaskRecord : y = [x EXCEPT !.ptr = p]
    BY <2>1 DEF TaskRecord
  <2>3. /\ y.op = x.op /\ y.pc = x.pc /\ y.cand = x.cand /\ y.gen = x.gen /\ y.held = x.held
        /\ y.base = x.base /\ y.ptr = p /\ y.own = x.own /\ y.undo = x.undo
    BY <2>2 DEF TaskRecord
  <2>4. Advance(t, y) /\ Quiet /\ Running(t)
    BY <1>1, <1>2, <1>4, <2>2, ReadsQuiet DEF computeManifestEntries, Test, Pass, At
  <2>5. PICK r \in TaskRecord : Moved(y, r, After(y.op, y.pc)) /\ task' = [task EXCEPT ![t] = r]
    BY <1>1, <2>3, <2>4, Advancing
  <2>6. After(y.op, y.pc) = "attest"
    BY <1>1, <2>3, <2>4, Advancing, Stations
  <2>7. Ties(r)
    <3>1. RecordOK(r)
      BY <1>1, <2>1, <2>3, <2>5, <2>6 DEF Ties, RecordOK, Moved, Pcs, OwnPcs, PtrPcs, LatePcs,
         MayBeLive, BaseKnown, Fenced, ExclusiveOps, ClearPcs
    <3>2. LeaseTie(r) /\ SlotTie(r) /\ RecTie(r) /\ JournalTie(r) /\ DirTie(r)
      BY <1>1, <2>1, <2>3, <2>5, <2>6, <3>1 DEF Ties, RecordOK, LeaseTie, SlotTie, OnBase, RecTie, JournalTie, DirTie, Moved,
         OwnPcs, PrepPcs, TombPcs, ClearPcs, Solid, LatePcs
    <3> QED  BY <3>1, <3>2 DEF Ties
  <2>8. ApartKept(x, r) /\ FenceKept(t, r)
    BY <1>1, <2>3, <2>5, <2>6 DEF ApartKept, Moved, Makes, Solid, OwnPcs, LatePcs, FenceKept
  <2> QED  BY <1>1, <2>3, <2>4, <2>5, <2>7, <2>8, QuietTies, DirStep DEF Quiet, disk, Moved
<1> QED  BY <1>3, <1>4

\* The last look at the fence: a restore goes on under its own authority only.
LEMMA AttestStep ==
  ASSUME LifecycleInv, NEW t \in Tasks, attest(t)
  PROVE  LifecycleInv'
<1>1. PICK x \in TaskRecord : /\ x = task[t] /\ Ties(x) /\ x.pc = "attest"
                              /\ x.op \in {"create", "refresh", "restore"}
  BY Standing DEF attest, At
<1>2. CASE ~(x.op = "create" \/ isCurrent(t))
  BY <1>1, <1>2, RefusedStep DEF attest, Test, At
<1>3. CASE x.op = "create" \/ isCurrent(t)
  <2>1. Advance(t, x) /\ Quiet /\ Running(t)
    BY <1>1, <1>3, ReadsQuiet DEF attest, Test, Pass, At
  <2>2. PICK r \in TaskRecord : Moved(x, r, After(x.op, x.pc)) /\ task' = [task EXCEPT ![t] = r]
    BY <1>1, <2>1, Advancing
  <2>3. /\ journaled \in BOOLEAN
        /\ After(x.op, x.pc) = IF journaled THEN "j-prepare" ELSE "cas"
    BY <1>1, <2>1, Advancing, Stations
  <2>4. Solid(r) => Solid(x)
    BY <1>1, <1>3, <2>2, <2>3 DEF isCurrent, Ties, RecordOK, Fenced, ExclusiveOps, Solid, Moved, OwnPcs, LatePcs
  <2>5. Ties(r)
    <3>1. RecordOK(r)
      BY <1>1, <2>2, <2>3 DEF Ties, RecordOK, Moved, Pcs, OwnPcs, PtrPcs, LatePcs,
         MayBeLive, BaseKnown, Fenced, ExclusiveOps, ClearPcs
    <3>2. LeaseTie(r) /\ SlotTie(r) /\ RecTie(r) /\ JournalTie(r)
      BY <1>1, <2>2, <2>3, <3>1 DEF Ties, RecordOK, LeaseTie, SlotTie, OnBase, RecTie, JournalTie, Moved,
         OwnPcs, PrepPcs, TombPcs, ClearPcs
    <3>3. DirTie(r)
      BY <1>1, <2>2, <2>3, <2>4 DEF Ties, DirTie, Moved, PtrPcs
    <3> QED  BY <3>1, <3>2, <3>3 DEF Ties
  <2>6. ApartKept(x, r) /\ FenceKept(t, r)
    BY <1>1, <2>2, <2>3, <2>4 DEF ApartKept, Moved, Makes, OwnPcs, FenceKept
  <2> QED  BY <1>1, <2>1, <2>2, <2>5, <2>6, QuietTies, DirStep DEF Quiet, disk, Moved
<1> QED  BY <1>2, <1>3

\* The compare-and-swap: from here on a create knows the slot was empty.
LEMMA CasStep ==
  ASSUME LifecycleInv, NEW t \in Tasks, casLive(t)
  PROVE  LifecycleInv'
<1>1. PICK x \in TaskRecord : /\ x = task[t] /\ Ties(x) /\ x.pc = "cas"
                              /\ x.op \in {"create", "refresh", "restore", "replay"}
  BY Standing DEF casLive, At
<1>2. CASE ~assertSuccession(x.ptr, live)
  BY <1>1, <1>2, RefusedStep DEF casLive, Test, At
<1>3. CASE assertSuccession(x.ptr, live)
  <2>1. Advance(t, x) /\ Quiet /\ Running(t)
    BY <1>1, <1>3, ReadsQuiet DEF casLive, Test, Pass, At
  <2>2. PICK r \in TaskRecord : Moved(x, r, After(x.op, x.pc)) /\ task' = [task EXCEPT ![t] = r]
    BY <1>1, <2>1, Advancing
  <2>3. After(x.op, x.pc) = "temp"
    BY <1>1, <2>1, Advancing, Stations
  <2>4. x.op = "create" => live = NoSlot
    <3>1. x.op = "create" => x.ptr.priorFp = << >>
      BY <1>1 DEF Ties, RecordOK, PtrPcs, LatePcs, FpOf, NoSlot
    <3> QED  BY <1>3, <3>1, SlotChain DEF assertSuccession, LifecycleInv, Shapes
  <2>5. Ties(r)
    <3>1. RecordOK(r)
      BY <1>1, <2>2, <2>3 DEF Ties, RecordOK, Moved, Pcs, OwnPcs, PtrPcs, LatePcs,
         MayBeLive, BaseKnown, Fenced, ExclusiveOps, ClearPcs
    <3>2. LeaseTie(r) /\ SlotTie(r) /\ RecTie(r) /\ JournalTie(r) /\ DirTie(r)
      BY <1>1, <2>2, <2>3, <2>4, <3>1 DEF Ties, RecordOK, LeaseTie, SlotTie, OnBase, RecTie, JournalTie, Moved,
         OwnPcs, PrepPcs, TombPcs, ClearPcs, DirTie, Solid, LatePcs, PtrPcs
    <3> QED  BY <3>1, <3>2 DEF Ties
  <2>6. ApartKept(x, r) /\ FenceKept(t, r)
    BY <1>1, <2>2, <2>3 DEF ApartKept, Moved, Makes, Solid, OwnPcs, LatePcs, FenceKept
  <2> QED  BY <1>1, <2>1, <2>2, <2>5, <2>6, QuietTies, DirStep DEF Quiet, disk, Moved
<1> QED  BY <1>2, <1>3

\* Nobody else makes the directory of a candidate that may still be published.
LEMMA CandidateAlone ==
  ASSUME LifecycleInv, NEW t \in Tasks, NEW u \in Tasks, u # t, Makes(task[u]),
         task[t].op \in {"create", "refresh", "restore"}, BaseKnown(task[t]) \/ task[t].op = "create",
         Fenced(task[t]) \/ task[t].op = "create",
         task[t].op = "create" => task[t].gen = 1,
         task[t].op = "restore" => task[t].cand = lease.epoch
  PROVE  task[u].gen # task[t].gen
<1>1. PICK x \in TaskRecord : x = task[t] /\ Ties(x)
  BY TaskKnown DEF LifecycleInv
<1>2. PICK y \in TaskRecord : y = task[u] /\ Ties(y) /\ Makes(y)
  BY TaskKnown DEF LifecycleInv
<1>3. y.op \in {"refresh", "restore"} => Fenced(y) /\ BaseKnown(y) /\ y.held # 0 /\ y.gen = y.base.gen + 1 /\ y.base.gen \in Gens
  BY <1>2, FpChain DEF Makes, OwnPcs, Fenced, BaseKnown, Ties, RecordOK, ExclusiveOps
<1>4. x.op \in {"refresh", "restore"} => x.held # 0 /\ x.gen = x.base.gen + 1 /\ x.base.gen \in Gens
  BY <1>1, FpChain DEF Ties, RecordOK, BaseKnown
<1>5. CASE x.op \in Builders /\ y.op \in Builders
  BY <1>1, <1>2, <1>5 DEF LifecycleInv, Together
<1>6. CASE x.op = "create" /\ y.op = "restore"
  <2>1. x.gen = 1
    BY <1>1, <1>6
  <2>2. y.gen = y.base.gen + 1 /\ y.base.gen \in Nat /\ y.base.gen >= 1
    BY <1>3, <1>6, WorkspaceAssumption DEF Gens
  <2> QED  BY <1>1, <1>2, <2>1, <2>2
<1>7. CASE x.op = "restore" /\ y.op = "create"
  <2>1. y.gen <= lease.gen /\ x.gen = lease.gen + 1 /\ lease.gen \in Nat /\ y.gen \in Nat
    BY <1>1, <1>2, <1>7 DEF Ties, LeaseTie, LifecycleInv, Shapes, TaskRecord
  <2> QED  BY <1>1, <1>2, <2>1
<1>8. CASE (x.op = "restore" /\ y.op \in {"refresh", "restore"}) \/ (x.op = "refresh" /\ y.op = "restore")
  BY <1>1, <1>2, <1>3, <1>4, <1>8 DEF LifecycleInv, Together, ExclusiveOps
<1> QED  BY <1>1, <1>2, <1>5, <1>6, <1>7, <1>8 DEF Makes, Builders

\* The candidate directory is made by this operation or the operation refuses.
LEMMA MakeStep ==
  ASSUME LifecycleInv, NEW t \in Tasks, makeCandidate(t)
  PROVE  LifecycleInv'
<1>1. PICK x \in TaskRecord : /\ x = task[t] /\ Ties(x) /\ x.pc = "mkdir"
                              /\ x.op \in {"create", "refresh", "restore"}
  BY Standing DEF makeCandidate, At
<1>2. CASE dir[x.gen] # "none"
  BY <1>1, <1>2, RefusedStep DEF makeCandidate, At
<1>3. CASE dir[x.gen] = "none"
  <2>1. PICK y \in TaskRecord : y = [x EXCEPT !.own = TRUE]
    BY DEF TaskRecord
  <2>2. /\ y.op = x.op /\ y.pc = x.pc /\ y.cand = x.cand /\ y.gen = x.gen /\ y.held = x.held
        /\ y.base = x.base /\ y.ptr = x.ptr /\ y.own = TRUE /\ y.undo = x.undo
    BY <2>1 DEF TaskRecord
  <2>3. /\ Advance(t, y) /\ Running(t)
        /\ dir' = [dir EXCEPT ![x.gen] = "partial"] /\ synced' = synced \ {x.gen}
        /\ UNCHANGED <<live, liveDur, rec, recDur, jrn, journaled, lease, barred, mode, told, spent>>
    BY <1>1, <1>3, <2>1 DEF makeCandidate, At, Reads, Memory
  <2>4. PICK r \in TaskRecord : Moved(y, r, After(y.op, y.pc)) /\ task' = [task EXCEPT ![t] = r]
    BY <1>1, <2>2, <2>3, Advancing
  <2>5. After(y.op, y.pc) = "copy"
    BY <1>1, <2>2, <2>3, Advancing, Stations
  <2>6. x.gen \in Gens /\ DirKept(x.gen) /\ SpentKept
    BY <1>1, <2>3 DEF DirKept, LifecycleInv, Shapes, Content, Ties, RecordOK, SpentKept
  <2>7. Ties(r)'
    <3>1. RecordOK(r)'
      BY <1>1, <2>2, <2>3, <2>4, <2>5 DEF Ties, RecordOK, Moved, Pcs, OwnPcs, PtrPcs, LatePcs,
         MayBeLive, BaseKnown, Fenced, ExclusiveOps, ClearPcs
    <3>2. LeaseTie(r)' /\ SlotTie(r)' /\ RecTie(r)' /\ JournalTie(r)'
      BY <1>1, <2>2, <2>3, <2>4, <2>5 DEF Ties, RecordOK, LeaseTie, SlotTie, OnBase, RecTie, JournalTie, Moved,
         OwnPcs, PrepPcs, TombPcs, ClearPcs
    <3>3. DirTie(r)'
      BY <2>2, <2>3, <2>4, <2>5, <2>6 DEF DirTie, Moved, LifecycleInv, Shapes, PtrPcs, LatePcs, MayBeLive
    <3> QED  BY <3>1, <3>2, <3>3 DEF Ties
  <2>8. Makes(x) /\ (jrn.phase = "prepared" => jrn.cand.gen # x.gen)
    <3>1. Makes(x)
      BY <1>1 DEF Makes
    <3> QED  BY <1>1, <3>1 DEF LifecycleInv, Apart
  <2>9. Apart'
    <3>1. /\ task'[t] = r
          /\ \A u \in Tasks : u # t => task'[u] = task[u]
      BY <2>4, OthersKept DEF LifecycleInv
    <3>2. r.gen = x.gen /\ r.op = x.op /\ r.pc = "copy" /\ r.cand = x.cand
      BY <2>2, <2>4, <2>5 DEF Moved
    <3>3. ASSUME NEW u \in Tasks, NEW v \in Tasks, u # v, Solid(task[u])', Makes(task[v])'
          PROVE  task'[v].gen # task'[u].gen
      <4>1. /\ u # t => Solid(task[u]) /\ task'[u] = task[u]
            /\ Makes(task[v]) /\ task'[v].gen = task[v].gen
        BY <1>1, <2>3, <2>8, <3>1, <3>2, <3>3 DEF Solid, Makes
      <4>2. CASE u = t
        <5>1. Solid(r)
          BY <2>3, <3>1, <3>3, <4>2 DEF Solid
        <5>2. /\ BaseKnown(x) \/ x.op = "create"
              /\ Fenced(x) \/ x.op = "create"
          BY <1>1 DEF BaseKnown, Fenced, ExclusiveOps
        <5>3. (x.op = "create" => x.gen = 1) /\ (x.op = "restore" => x.cand = lease.epoch)
          BY <3>2, <5>1 DEF Solid, LatePcs
        <5> QED  BY <1>1, <3>1, <3>2, <3>3, <4>1, <4>2, <5>2, <5>3, CandidateAlone
      <4>3. CASE u # t
        BY <3>3, <4>1, <4>3 DEF LifecycleInv, Apart
      <4> QED  BY <4>2, <4>3
    <3>4. ASSUME NEW u \in Tasks, Makes(task[u])'
          PROVE  /\ live.k = "ptr" => live.gen # task'[u].gen
                 /\ liveDur.k = "ptr" => liveDur.gen # task'[u].gen
                 /\ jrn.phase = "prepared" =>
                      \/ jrn.cand.gen # task'[u].gen
                      \/ jrn.cand = task'[u].ptr /\ task'[u].pc \in {"cas", "temp", "replace"}
      <4>1. CASE u = t
        BY <1>1, <2>8, <3>1, <3>2, <4>1 DEF LifecycleInv, Apart
      <4>2. CASE u # t
        BY <3>1, <3>4, <4>2 DEF LifecycleInv, Apart, Makes
      <4> QED  BY <4>1, <4>2
    <3> QED  BY <2>3, <3>3, <3>4 DEF Apart
  <2>10. FenceKept(t, r) /\ r.op = x.op
    BY <1>1, <2>2, <2>4 DEF FenceKept, Moved
  <2> QED  BY <1>1, <2>3, <2>4, <2>6, <2>7, <2>8, <2>9, <2>10, DirMove
<1> QED  BY <1>2, <1>3

\* The candidate directory is filled.
LEMMA CopyStep ==
  ASSUME LifecycleInv, NEW t \in Tasks, copyCandidate(t)
  PROVE  LifecycleInv'
<1>1. PICK x \in TaskRecord : /\ x = task[t] /\ Ties(x) /\ x.pc = "copy"
                              /\ x.op \in {"create", "refresh", "restore"}
  BY Standing DEF copyCandidate, At
<1>2. /\ Advance(t, x) /\ Running(t)
      /\ UNCHANGED <<live, liveDur, rec, recDur, jrn, journaled, lease, barred, mode, told, spent>>
      /\ synced' = IF x.op = "restore" THEN synced \cup {x.gen} ELSE synced
  BY <1>1 DEF copyCandidate, At, Reads, Memory
<1>3. PICK c \in IF x.op = "restore" THEN {Staged} ELSE Contents : dir' = [dir EXCEPT ![x.gen] = c]
  BY <1>1 DEF copyCandidate
<1>4. PICK r \in TaskRecord : Moved(x, r, After(x.op, x.pc)) /\ task' = [task EXCEPT ![t] = r]
  BY <1>1, <1>2, Advancing
<1>5. After(x.op, x.pc) = "contain"
  BY <1>1, <1>2, Advancing, Stations
<1>6. x.gen \in Gens /\ DirKept(x.gen) /\ SpentKept
  BY <1>1, <1>2, <1>3 DEF DirKept, LifecycleInv, Shapes, Content, Ties, RecordOK, SpentKept
<1>7. Ties(r)'
  <2>1. RecordOK(r)'
    BY <1>1, <1>2, <1>4, <1>5 DEF Ties, RecordOK, Moved, Pcs, OwnPcs, PtrPcs, LatePcs,
       MayBeLive, BaseKnown, Fenced, ExclusiveOps, ClearPcs
  <2>2. LeaseTie(r)' /\ SlotTie(r)' /\ RecTie(r)' /\ JournalTie(r)'
    BY <1>1, <1>2, <1>4, <1>5 DEF Ties, RecordOK, LeaseTie, SlotTie, OnBase, RecTie, JournalTie, Moved,
       OwnPcs, PrepPcs, TombPcs, ClearPcs
  <2>3. DirTie(r)'
    <3>1. dir'[x.gen] = c
      BY <1>3, <1>6 DEF LifecycleInv, Shapes
    <3> QED  BY <1>1, <1>2, <1>3, <1>4, <1>5, <3>1 DEF DirTie, Moved, PtrPcs, LatePcs, MayBeLive
  <2> QED  BY <2>1, <2>2, <2>3 DEF Ties
<1>8. Makes(x) /\ (jrn.phase = "prepared" => jrn.cand.gen # x.gen)
  <2>1. Makes(x)
    BY <1>1 DEF Makes, OwnPcs
  <2> QED  BY <1>1, <2>1 DEF LifecycleInv, Apart
<1>9. ApartKept(x, r) /\ FenceKept(t, r)
  BY <1>1, <1>4, <1>5 DEF ApartKept, Moved, Makes, Solid, OwnPcs, LatePcs, FenceKept
<1> QED  BY <1>1, <1>2, <1>4, <1>6, <1>7, <1>8, <1>9, DirStep DEF Moved

-----------------------------------------------------------------------------
(* A reset or delete, which holds the fence alone.                         *)

\* While an exclusive operation holds the fence, no other operation relies on
\* the slot or on the manual-cleanup record.
LEMMA AloneOthers ==
  ASSUME LifecycleInv, NEW t \in Tasks, task[t].op \in ExclusiveOps, task[t].held # 0,
         NEW u \in Tasks, u # t
  PROVE  /\ ~OnBase(task[u]) /\ ~task[u].undo /\ task[u].op # "replay"
         /\ task[u].pc \notin PrepPcs \cup ClearPcs \cup {"tomb-flush", "commit"}
<1>1. PICK y \in TaskRecord : y = task[u] /\ Ties(y)
  BY TaskKnown DEF LifecycleInv
<1>2. ~Fenced(y)
  BY <1>1 DEF LifecycleInv, Together, Ties, RecordOK
<1>3. y.op # "replay"
  BY <1>1 DEF LifecycleInv, Together, Running, ExclusiveOps
<1>4. y.op \in Ops /\ y.pc \in Pcs(y.op) /\ (y.undo => y.op = "reset" /\ y.pc \in ClearPcs)
  BY <1>1 DEF TaskRecord, Ties, RecordOK
<1>5. ~y.undo
  BY <1>2, <1>4 DEF Fenced, ExclusiveOps, ClearPcs
<1>6. ~OnBase(y)
  BY <1>2, <1>5 DEF OnBase, Fenced, ExclusiveOps, OwnPcs, PrepPcs, TombPcs
<1>7. y.pc \notin PrepPcs \cup ClearPcs \cup {"tomb-flush", "commit"}
  BY <1>2, <1>4 DEF Ops, Pcs, Fenced, ExclusiveOps, OwnPcs, MayBeLive, PrepPcs, TombPcs, ClearPcs
<1> QED  BY <1>1, <1>3, <1>5, <1>6, <1>7

\* What a step of a reset may change.
ResetMoves ==
    /\ UNCHANGED <<dir, synced, jrn, journaled, mode>> /\ SpentKept
    /\ live' = live \/ (live.k = "ptr" /\ live' = buildTombstone(live))
    /\ liveDur' = liveDur \/ (live' = live /\ liveDur' = live)
    /\ rec' \in BOOLEAN /\ recDur' \in BOOLEAN
    /\ barred' \in {barred, TRUE}
    /\ told' \in {told, told \cup {Terminal}}
    /\ lease' \in {lease, [lease EXCEPT !.bound = FALSE]}

\* What a step of a reset owes: its own ties, and the bar before the tombstone or the answer.
LEMMA ResetStep ==
  ASSUME LifecycleInv, NEW t \in Tasks, task[t].op = "reset", task[t].held # 0,
         NEW r \in TaskRecord, task' = [task EXCEPT ![t] = r],
         r.op \in {"none", "reset"}, r.held \in {0, task[t].held},
         ResetMoves, Ties(r)', TerminalRecordCovers',
         live'.k = "tomb" => barred' \/ r.pc \in {"tomb-flush", "commit"},
         Terminal \in told' => /\ barred'
                               /\ (live'.k = "tomb" /\ liveDur'.k = "tomb") \/ (rec' /\ recDur')
  PROVE  LifecycleInv'
<1>1. /\ task'[t] = r
      /\ \A u \in Tasks : u # t => task'[u] = task[u]
  BY OthersKept DEF LifecycleInv
<1>2. mode = "up" /\ mode' = "up" /\ lease.invoke = 0
  BY DEF LifecycleInv, Together, Running, ResetMoves, ExclusiveOps
<1>3. /\ lease' \in [bound : BOOLEAN, epoch : Nat, gen : 0..MaxGen, invoke : Nat]
      /\ lease'.epoch = lease.epoch /\ lease'.gen = lease.gen /\ lease'.invoke = lease.invoke
      /\ lease'.bound => lease.bound
  BY DEF LifecycleInv, Shapes, ResetMoves
<1>4. IsSlot(live) /\ IsSlot(liveDur) /\ Chain(live) \in Fingerprint /\ Chain(liveDur) \in Fingerprint
  BY SlotChain DEF LifecycleInv, Shapes
<1>5. IsSlot(live') /\ IsSlot(liveDur') /\ Chain(live') = Chain(live)
  BY <1>4, SlotChain, PointerSlot DEF ResetMoves
<1>6. Begins(Chain(liveDur'), Chain(live')) /\ Begins(Chain(liveDur), Chain(liveDur'))
  BY <1>4, <1>5, BeginsReflexive DEF LifecycleInv, Durable, ResetMoves
<1>7. /\ live'.k = "ptr" => live' = live
      /\ liveDur'.k = "ptr" => liveDur' = liveDur \/ liveDur' = live
  BY <1>4, SlotChain, PointerSlot DEF ResetMoves
<1>8. Shapes'
  <2>1. task' \in [Tasks -> TaskRecord]
    BY DEF LifecycleInv, Shapes
  <2>2. IsSlot(live)' /\ IsSlot(liveDur)'
    BY <1>5 DEF IsSlot
  <2> QED  BY <1>3, <2>1, <2>2 DEF LifecycleInv, Shapes, ResetMoves, SpentKept
<1>9. Together'
  <2>1. (r.op = "none" => r.held = 0) /\ FenceKept(t, r) /\ lease'.invoke = lease.invoke
    BY <1>3 DEF Ties, RecordOK, Idle, FenceKept
  <2> QED  BY <2>1, TogetherKept DEF LifecycleInv, ResetMoves
<1>10. TaskTies'
  <2>1. SUFFICES ASSUME NEW u \in Tasks, u # t
                 PROVE  Ties(task[u])'
    BY <1>1 DEF TaskTies, Ties
  <2>2. PICK y \in TaskRecord : /\ y = task[u] /\ Ties(y) /\ y = task'[u]
                                /\ ~OnBase(y) /\ ~y.undo /\ y.op # "replay"
                                /\ y.pc \notin PrepPcs \cup ClearPcs \cup {"tomb-flush", "commit"}
    BY <1>1, <2>1, TaskKnown, AloneOthers DEF LifecycleInv, ExclusiveOps
  <2>3. RecordOK(y)' /\ LeaseTie(y)' /\ JournalTie(y)' /\ DirTie(y)'
    BY <1>3, <2>2 DEF Ties, RecordOK, LeaseTie, JournalTie, DirTie, Solid, ResetMoves
  <2>4. RecTie(y)'
    BY <2>2 DEF RecTie, PrepPcs, TombPcs, ClearPcs
  <2>5. SlotTie(y)'
    <3>1. y.op = "create" /\ y.pc \in {"temp", "replace"} => live' = NoSlot
      BY <2>2 DEF Ties, SlotTie, ResetMoves, NoSlot
    <3>2. y.pc = "flushParent" => Begins(Fp(y.ptr), Chain(live'))
      BY <1>5, <2>2 DEF Ties, SlotTie
    <3>3. y.pc = "j-commit" => Begins(Fp(y.ptr), Chain(liveDur'))
      <4>1. SUFFICES ASSUME y.pc = "j-commit"
                     PROVE  Begins(Fp(y.ptr), Chain(liveDur'))
        OBVIOUS
      <4>2. y.ptr \in Pointer /\ Begins(Fp(y.ptr), Chain(liveDur))
        BY <2>2, <4>1 DEF Ties, RecordOK, SlotTie, PtrPcs, MayBeLive
      <4>3. Fp(y.ptr) \in Fingerprint /\ Chain(liveDur') \in Fingerprint
        BY <1>5, <4>2, FpChain, SlotChain
      <4> QED  BY <1>4, <1>6, <4>2, <4>3, BeginsTransitive
    <3> QED  BY <2>2, <3>1, <3>2, <3>3 DEF SlotTie, OnBase
  <2> QED  BY <2>2, <2>3, <2>4, <2>5 DEF Ties
<1>11. Apart'
  <2>1. \A u \in Tasks : /\ Makes(task[u])' => Makes(task[u]) /\ task'[u] = task[u]
                         /\ Solid(task[u])' => Solid(task[u]) /\ task'[u] = task[u]
    <3>1. ~Makes(r) /\ ~(Solid(r))'
      BY DEF Makes, Solid
    <3>2. TAKE u \in Tasks
    <3>3. CASE u = t
      BY <1>1, <3>1, <3>3 DEF Makes, Solid
    <3>4. CASE u # t
      BY <1>1, <1>3, <3>2, <3>4 DEF Makes, Solid
    <3> QED  BY <3>3, <3>4
  <2>2. \A u, v \in Tasks : u # v /\ Solid(task[u])' /\ Makes(task[v])' => task'[v].gen # task'[u].gen
    BY <2>1 DEF LifecycleInv, Apart
  <2>3. \A u \in Tasks : Makes(task[u])' =>
             /\ live'.k = "ptr" => live'.gen # task'[u].gen
             /\ liveDur'.k = "ptr" => liveDur'.gen # task'[u].gen
             /\ jrn'.phase = "prepared" =>
                  \/ jrn'.cand.gen # task'[u].gen
                  \/ jrn'.cand = task'[u].ptr /\ task'[u].pc \in {"cas", "temp", "replace"}
    BY <1>7, <2>1 DEF LifecycleInv, Apart, ResetMoves
  <2> QED  BY <2>2, <2>3 DEF Apart
<1>12. Durable'
  <2>1. liveDur'.k = "tomb" => live' = liveDur'
    BY <1>4, SlotChain DEF LifecycleInv, Durable, ResetMoves
  <2>2. (live.k = "ptr" => Present(live))' /\ (liveDur.k = "ptr" => Present(liveDur))'
    BY <1>7 DEF LifecycleInv, Durable, Present, ResetMoves, SpentKept
  <2>3. (jrn.phase = "prepared" => jrn.cand \in Pointer /\ Present(jrn.cand))'
    BY DEF LifecycleInv, Durable, Present, ResetMoves, SpentKept
  <2>4. live'.k = "tomb" => barred' \/ \E u \in Tasks : task'[u].pc \in {"tomb-flush", "commit"}
    BY <1>1, <1>2, SlotChain DEF LifecycleInv, Durable, ResetMoves
  <2>5. Begins(Chain(liveDur), Chain(live))'
    BY <1>6 DEF Chain, Begins, Fp
  <2> QED  BY <1>2, <2>1, <2>2, <2>3, <2>4, <2>5 DEF Durable
<1>13. Told'
  <2>1. ASSUME NEW q \in told', q # Terminal
        PROVE  q = [k |-> "ptr", fp |-> q.fp] /\ q.fp \in Fingerprint /\ Begins(q.fp, Chain(liveDur'))
    <3>1. q \in told
      BY <2>1 DEF ResetMoves
    <3>2. q = [k |-> "ptr", fp |-> q.fp] /\ q.fp \in Fingerprint /\ Begins(q.fp, Chain(liveDur))
      BY <2>1, <3>1 DEF LifecycleInv, Told
    <3>3. Chain(liveDur') \in Fingerprint
      BY <1>5, SlotChain
    <3> QED  BY <1>4, <1>6, <3>2, <3>3, BeginsTransitive
  <2>2. \A q \in told' : q = Terminal \/ /\ q = [k |-> "ptr", fp |-> q.fp]
                                         /\ q.fp \in Fingerprint /\ Begins(q.fp, Chain(liveDur'))
    BY <2>1
  <2>3. TerminalSurvivesRestart'
    BY DEF TerminalSurvivesRestart, Terminal
  <2> QED  BY <2>2, <2>3 DEF Told, Terminal, Chain, Begins, Fp
<1>14. InvokeRoutesToPointer'
  BY <1>2, <1>3 DEF InvokeRoutesToPointer
<1> QED  BY <1>8, <1>9, <1>10, <1>11, <1>12, <1>13, <1>14 DEF LifecycleInv

\* A reset past its fence: it holds the lease, and the slot and the record are
\* as its station says.
LEMMA ResetKnown ==
  ASSUME LifecycleInv, NEW t \in Tasks, Running(t),
         task[t].pc \in {"prep-replace", "tomb-flush", "commit"} \cup PrepPcs \cup ClearPcs
  PROVE  \E x \in TaskRecord :
           /\ x = task[t] /\ Ties(x) /\ x.op = "reset" /\ x.held # 0 /\ x.held = x.cand
           /\ x.base \in Pointer /\ x.gen = x.base.gen /\ x.gen \in Gens
           /\ x.pc \in {"prep-replace"} \cup PrepPcs \/ x.undo =>
                live = x.base /\ live.k = "ptr" /\ liveDur.k # "tomb"
           /\ x.pc \in PrepPcs \/ x.undo => Terminal \notin told
           /\ x.pc \in PrepPcs \cup {"tomb-flush", "commit"} => rec
           /\ x.pc \in {"recheck", "tomb-flush", "commit"} \cup TombPcs => recDur
           /\ x.pc \in ClearPcs /\ ~x.undo => barred
           /\ x.pc = "tomb-flush" => live = buildTombstone(x.base)
           /\ x.pc = "commit" \/ (x.pc \in ClearPcs /\ ~x.undo) =>
                live.k = "tomb" /\ liveDur.k = "tomb"
           /\ x.undo => x.pc \in ClearPcs
<1>1. PICK x \in TaskRecord : x = task[t] /\ Ties(x) /\ x.op = "reset"
  BY Standing
<1>2. x.held # 0 /\ x.held = x.cand /\ x.base \in Pointer /\ x.gen = x.base.gen /\ x.gen \in Gens
  BY <1>1 DEF Ties, RecordOK, Fenced, BaseKnown, ExclusiveOps, PrepPcs, TombPcs, ClearPcs
<1>3. x.pc \in {"prep-replace"} \cup PrepPcs \/ x.undo =>
                live = x.base /\ live.k = "ptr" /\ liveDur.k # "tomb"
  BY <1>1, <1>2, FpChain DEF Ties, SlotTie, OnBase, LifecycleInv, Durable
<1> QED
  BY <1>1, <1>2, <1>3 DEF Ties, SlotTie, RecTie, RecordOK

\* The steps that only move the reset on.
ResetQuiet ==
    /\ UNCHANGED <<live, liveDur, rec, recDur, dir, synced, jrn, journaled, lease, barred, mode, told>>
    /\ SpentKept

\* A reset that gives up before its tombstone clears the record it wrote.
LEMMA UndoStep ==
  ASSUME LifecycleInv, NEW t \in Tasks, Running(t), task[t].pc \in {"recheck", "tomb-cas"},
         Undo(t), UNCHANGED <<journaled, mode, told>>, SpentKept
  PROVE  LifecycleInv'
<1>1. PICK x \in TaskRecord :
         /\ x = task[t] /\ Ties(x) /\ x.op = "reset" /\ x.held # 0 /\ x.held = x.cand
         /\ x.base \in Pointer /\ x.gen = x.base.gen /\ x.gen \in Gens
         /\ live = x.base /\ live.k = "ptr" /\ liveDur.k # "tomb" /\ Terminal \notin told /\ ~x.undo
  BY ResetKnown DEF PrepPcs, TombPcs, ClearPcs
<1>2. "clear-unlink" \in AllPcs
  BY DEF AllPcs, Pcs, Ops, ClearPcs
<1>3. PICK r \in TaskRecord : r = [x EXCEPT !.pc = "clear-unlink", !.undo = TRUE]
  BY <1>2 DEF TaskRecord
<1>4. /\ r.op = x.op /\ r.pc = "clear-unlink" /\ r.cand = x.cand /\ r.gen = x.gen /\ r.held = x.held
      /\ r.base = x.base /\ r.ptr = x.ptr /\ r.own = x.own /\ r.undo = TRUE
  BY <1>3 DEF TaskRecord
<1>5. task' = [task EXCEPT ![t] = r] /\ UNCHANGED <<live, liveDur, rec, recDur, dir, synced, jrn, barred, lease>>
  BY <1>1, <1>3 DEF Undo, Become, disk
<1>6. Ties(r)'
  <2>1. RecordOK(r)'
    BY <1>1, <1>4, <1>5 DEF Ties, RecordOK, Pcs, OwnPcs, PtrPcs, LatePcs,
       MayBeLive, BaseKnown, Fenced, ExclusiveOps, PrepPcs, TombPcs, ClearPcs
  <2>2. LeaseTie(r)' /\ SlotTie(r)' /\ RecTie(r)' /\ JournalTie(r)' /\ DirTie(r)'
    BY <1>1, <1>4, <1>5 DEF Ties, LeaseTie, SlotTie, OnBase, RecTie, JournalTie, DirTie, Solid,
       OwnPcs, PrepPcs, TombPcs, ClearPcs
  <2> QED  BY <2>1, <2>2 DEF Ties
<1>7. ResetMoves /\ TerminalRecordCovers'
  BY <1>1, <1>5 DEF ResetMoves, LifecycleInv, Shapes, TerminalRecordCovers
<1> QED  BY <1>1, <1>4, <1>5, <1>6, <1>7, ResetStep

\* The fence again, and the tombstone's compare-and-swap and temporary file.
LEMMA RecheckStep ==
  ASSUME LifecycleInv, NEW t \in Tasks, recheckFence(t)
  PROVE  LifecycleInv'
<1>1. Running(t) /\ task[t].pc = "recheck" /\ UNCHANGED <<journaled, mode, told>> /\ SpentKept
  BY DEF recheckFence, At, Memory, SpentKept, LifecycleInv, Shapes
<1>2. CASE Undo(t)
  BY <1>1, <1>2, UndoStep
<1>3. CASE Pass(t, task[t]) /\ UNCHANGED <<barred, lease>>
  BY <1>1, <1>3, PassedStep DEF Pass, Passed, Quiet
<1> QED  BY <1>2, <1>3 DEF recheckFence

\* The steps that put the tombstone into the slot.
LEMMA TombstoneStep ==
  ASSUME LifecycleInv, NEW t \in Tasks, publishTombstone(t)
  PROVE  LifecycleInv'
<1>1. UNCHANGED <<journaled, mode, told, spent>> /\ SpentKept
  BY DEF publishTombstone, Memory, SpentKept, LifecycleInv, Shapes
<1>2. CASE At(t, "tomb-cas") /\ Undo(t)
  BY <1>1, <1>2, UndoStep DEF At
<1>3. CASE At(t, "tomb-cas") /\ Pass(t, task[t]) /\ UNCHANGED <<barred, lease>>
  BY <1>1, <1>3, PassedStep DEF At, Pass, Passed, Quiet
<1>4. CASE At(t, "tomb-temp") /\ Pass(t, task[t]) /\ UNCHANGED <<barred, lease>>
  BY <1>1, <1>4, PassedStep DEF At, Pass, Passed, Quiet
<1>5. CASE /\ At(t, "tomb-replace")
           /\ live' = buildTombstone(task[t].base)
           /\ Advance(t, task[t])
           /\ UNCHANGED <<liveDur, rec, recDur, dir, synced, jrn, barred, lease>>
  <2>1. PICK x \in TaskRecord :
           /\ x = task[t] /\ Ties(x) /\ x.op = "reset" /\ x.held # 0 /\ x.held = x.cand
           /\ x.base \in Pointer /\ x.gen = x.base.gen /\ x.gen \in Gens
           /\ live = x.base /\ live.k = "ptr" /\ liveDur.k # "tomb" /\ Terminal \notin told
           /\ rec /\ recDur /\ ~x.undo /\ x.pc = "tomb-replace"
    BY <1>5, ResetKnown DEF At, PrepPcs, TombPcs, ClearPcs
  <2>2. PICK r \in TaskRecord : Moved(x, r, After(x.op, x.pc)) /\ task' = [task EXCEPT ![t] = r]
    BY <1>5, <2>1, Advancing DEF At
  <2>3. After(x.op, x.pc) = "tomb-flush"
    BY <1>5, <2>1, Advancing, Stations DEF At
  <2>4. Ties(r)'
    <3>1. RecordOK(r)'
      BY <1>1, <2>1, <2>2, <2>3 DEF Ties, RecordOK, Moved, Pcs, OwnPcs, PtrPcs, LatePcs,
         MayBeLive, BaseKnown, Fenced, ExclusiveOps, PrepPcs, TombPcs, ClearPcs
    <3>2. LeaseTie(r)' /\ SlotTie(r)' /\ RecTie(r)' /\ JournalTie(r)' /\ DirTie(r)'
      BY <1>5, <2>1, <2>2, <2>3 DEF Ties, Moved, LeaseTie, SlotTie, OnBase, RecTie, JournalTie, DirTie, Solid,
         OwnPcs, PrepPcs, TombPcs, ClearPcs
    <3> QED  BY <3>1, <3>2 DEF Ties
  <2>5. ResetMoves /\ TerminalRecordCovers'
    BY <1>1, <1>5, <2>1 DEF ResetMoves, LifecycleInv, Shapes, TerminalRecordCovers
  <2> QED  BY <1>1, <2>1, <2>2, <2>3, <2>4, <2>5, ResetStep DEF Moved
<1>6. CASE /\ At(t, "tomb-flush")
           /\ liveDur' = live
           /\ Advance(t, task[t])
           /\ UNCHANGED <<live, rec, recDur, dir, synced, jrn, barred, lease>>
  <2>1. PICK x \in TaskRecord :
           /\ x = task[t] /\ Ties(x) /\ x.op = "reset" /\ x.held # 0 /\ x.held = x.cand
           /\ x.base \in Pointer /\ x.gen = x.base.gen /\ x.gen \in Gens
           /\ live = buildTombstone(x.base) /\ rec /\ recDur /\ ~x.undo /\ x.pc = "tomb-flush"
    BY <1>6, ResetKnown DEF At, PrepPcs, TombPcs, ClearPcs
  <2>2. PICK r \in TaskRecord : Moved(x, r, After(x.op, x.pc)) /\ task' = [task EXCEPT ![t] = r]
    BY <1>6, <2>1, Advancing DEF At
  <2>3. After(x.op, x.pc) = "commit"
    BY <1>6, <2>1, Advancing, Stations DEF At
  <2>4. live'.k = "tomb" /\ liveDur'.k = "tomb"
    BY <1>6, <2>1, PointerSlot
  <2>5. Ties(r)'
    <3>1. RecordOK(r)'
      BY <1>1, <2>1, <2>2, <2>3 DEF Ties, RecordOK, Moved, Pcs, OwnPcs, PtrPcs, LatePcs,
         MayBeLive, BaseKnown, Fenced, ExclusiveOps, PrepPcs, TombPcs, ClearPcs
    <3>2. LeaseTie(r)' /\ SlotTie(r)' /\ RecTie(r)' /\ JournalTie(r)' /\ DirTie(r)'
      BY <1>6, <2>1, <2>2, <2>3, <2>4 DEF Ties, Moved, LeaseTie, SlotTie, OnBase, RecTie, JournalTie, DirTie, Solid,
         OwnPcs, PrepPcs, TombPcs, ClearPcs
    <3> QED  BY <3>1, <3>2 DEF Ties
  <2>6. ResetMoves /\ TerminalRecordCovers'
    BY <1>1, <1>6, <2>4 DEF ResetMoves, LifecycleInv, Shapes, TerminalRecordCovers
  <2>7. Terminal \in told' => barred'
    BY <1>1, <1>6, <2>1 DEF LifecycleInv, Told, TerminalSurvivesRestart, Together, Running
  <2> QED  BY <1>1, <2>1, <2>2, <2>3, <2>4, <2>5, <2>6, <2>7, ResetStep DEF Moved
<1> QED  BY <1>2, <1>3, <1>4, <1>5, <1>6 DEF publishTombstone

\* The manual-cleanup record is written, then flushed.
LEMMA PrepareStep ==
  ASSUME LifecycleInv, NEW t \in Tasks, prepareTerminal(t)
  PROVE  LifecycleInv'
<1>1. /\ Running(t) /\ Reads /\ UNCHANGED <<journaled, mode, told, spent, barred, lease>> /\ SpentKept
      /\ task[t].pc \in {"prep-replace", "prep-flush"}
  BY DEF prepareTerminal, At, Reads, Memory, SpentKept, LifecycleInv, Shapes
<1>2. PICK x \in TaskRecord :
         /\ x = task[t] /\ Ties(x) /\ x.op = "reset" /\ x.held # 0 /\ x.held = x.cand
         /\ x.base \in Pointer /\ x.gen = x.base.gen /\ x.gen \in Gens /\ ~x.undo
         /\ live = x.base /\ live.k = "ptr" /\ liveDur.k # "tomb"
         /\ x.pc = "prep-flush" => rec /\ Terminal \notin told
  BY <1>1, ResetKnown DEF PrepPcs, TombPcs, ClearPcs
<1>3. CASE x.pc = "prep-replace" /\ rec
  BY <1>1, <1>2, <1>3, RefusedStep DEF prepareTerminal, At
<1>4. CASE ~(x.pc = "prep-replace" /\ rec)
  <2>1. /\ Advance(t, x) /\ UNCHANGED <<live, liveDur, dir, synced, jrn>>
        /\ \/ x.pc = "prep-replace" /\ ~rec /\ rec' = TRUE /\ recDur' = recDur
           \/ x.pc = "prep-flush" /\ rec' = rec /\ recDur' = rec
    BY <1>2, <1>4 DEF prepareTerminal, At
  <2>2. PICK r \in TaskRecord : Moved(x, r, After(x.op, x.pc)) /\ task' = [task EXCEPT ![t] = r]
    BY <1>1, <1>2, <2>1, Advancing
  <2>3. After(x.op, x.pc) = IF x.pc = "prep-replace" THEN "prep-flush" ELSE "recheck"
    BY <1>1, <1>2, <2>1, Advancing, Stations
  <2>4. Terminal \notin told
    BY <1>2, <2>1 DEF LifecycleInv, Told
  <2>5. Ties(r)'
    <3>1. RecordOK(r)'
      BY <1>1, <1>2, <2>2, <2>3 DEF Ties, RecordOK, Moved, Pcs, OwnPcs, PtrPcs, LatePcs,
         MayBeLive, BaseKnown, Fenced, ExclusiveOps, PrepPcs, TombPcs, ClearPcs
    <3>2. LeaseTie(r)' /\ SlotTie(r)' /\ RecTie(r)' /\ JournalTie(r)' /\ DirTie(r)'
      BY <1>1, <1>2, <2>1, <2>2, <2>3, <2>4 DEF Ties, Moved, LeaseTie, SlotTie, OnBase, RecTie, JournalTie, DirTie,
         Solid, OwnPcs, PrepPcs, TombPcs, ClearPcs
    <3> QED  BY <3>1, <3>2 DEF Ties
  <2>6. ResetMoves /\ TerminalRecordCovers'
    BY <1>1, <1>2, <2>1 DEF ResetMoves, LifecycleInv, Shapes, TerminalRecordCovers
  <2> QED  BY <1>1, <1>2, <2>1, <2>2, <2>4, <2>5, <2>6, ResetStep DEF Moved
<1> QED  BY <1>3, <1>4

\* The workspace is barred, and its lease unbound or not.
LEMMA BarStep ==
  ASSUME LifecycleInv, NEW t \in Tasks, barTerminal(t)
  PROVE  LifecycleInv'
<1>1. /\ Running(t) /\ UNCHANGED <<journaled, mode, told, spent>> /\ SpentKept
      /\ UNCHANGED <<live, liveDur, rec, recDur, dir, synced, jrn>>
      /\ task[t].pc = "commit" /\ barred' = TRUE
  BY DEF barTerminal, commitTerminal, At, Memory, disk, SpentKept, LifecycleInv, Shapes
<1>2. PICK x \in TaskRecord :
         /\ x = task[t] /\ Ties(x) /\ x.op = "reset" /\ x.held # 0 /\ x.held = x.cand /\ ~x.undo
         /\ x.base \in Pointer /\ x.gen = x.base.gen /\ x.gen \in Gens /\ rec /\ recDur
         /\ live.k = "tomb" /\ liveDur.k = "tomb"
  BY <1>1, ResetKnown DEF PrepPcs, TombPcs, ClearPcs
<1>3. lease' \in {lease, [lease EXCEPT !.bound = FALSE]}
  BY DEF barTerminal, commitTerminal
<1>4. ResetMoves /\ TerminalRecordCovers'
  BY <1>1, <1>2, <1>3 DEF ResetMoves, LifecycleInv, Shapes, TerminalRecordCovers
<1>5. CASE finally(t)
  BY <1>1, <1>2, <1>4, <1>5, IdleTies, ResetStep DEF finally, Become
<1>6. CASE Advance(t, x)
  <2>1. PICK r \in TaskRecord : Moved(x, r, After(x.op, x.pc)) /\ task' = [task EXCEPT ![t] = r]
    BY <1>1, <1>2, <1>6, Advancing
  <2>2. After(x.op, x.pc) = "clear-unlink"
    BY <1>1, <1>2, <1>6, Advancing, Stations
  <2>3. lease'.epoch = lease.epoch /\ lease'.gen = lease.gen
    BY <1>3 DEF LifecycleInv, Shapes
  <2>4. Ties(r)'
    <3>1. RecordOK(r)'
      BY <1>1, <1>2, <2>1, <2>2 DEF Ties, RecordOK, Moved, Pcs, OwnPcs, PtrPcs, LatePcs,
         MayBeLive, BaseKnown, Fenced, ExclusiveOps, PrepPcs, TombPcs, ClearPcs
    <3>2. LeaseTie(r)' /\ SlotTie(r)' /\ RecTie(r)' /\ JournalTie(r)' /\ DirTie(r)'
      BY <1>1, <1>2, <2>1, <2>2, <2>3 DEF Ties, Moved, LeaseTie, SlotTie, OnBase, RecTie, JournalTie, DirTie,
         Solid, OwnPcs, PrepPcs, TombPcs, ClearPcs
    <3> QED  BY <3>1, <3>2 DEF Ties
  <2> QED  BY <1>1, <1>2, <1>4, <2>1, <2>4, ResetStep DEF Moved
<1> QED  BY <1>2, <1>5, <1>6 DEF barTerminal, commitTerminal

\* The record goes once the workspace is barred, or nothing was published.
LEMMA ClearStep ==
  ASSUME LifecycleInv, NEW t \in Tasks, clearTerminalPreparation(t)
  PROVE  LifecycleInv'
<1>1. /\ Running(t) /\ UNCHANGED <<journaled, mode, spent, barred, lease>> /\ SpentKept
      /\ UNCHANGED <<live, liveDur, dir, synced, jrn>> /\ task[t].pc \in ClearPcs
  BY DEF clearTerminalPreparation, At, Reads, Memory, SpentKept, LifecycleInv, Shapes, ClearPcs
<1>2. PICK x \in TaskRecord :
         /\ x = task[t] /\ Ties(x) /\ x.op = "reset" /\ x.held # 0 /\ x.held = x.cand
         /\ x.base \in Pointer /\ x.gen = x.base.gen /\ x.gen \in Gens
         /\ x.undo => live = x.base /\ live.k = "ptr" /\ liveDur.k # "tomb" /\ Terminal \notin told
         /\ ~x.undo => barred /\ live.k = "tomb" /\ liveDur.k = "tomb"
  BY <1>1, ResetKnown
<1>3. CASE x.pc = "clear-unlink"
  <2>1. Advance(t, x) /\ rec' = FALSE /\ recDur' = recDur /\ told' = told
    BY <1>2, <1>3 DEF clearTerminalPreparation, At, Reads, Memory
  <2>2. PICK r \in TaskRecord : Moved(x, r, After(x.op, x.pc)) /\ task' = [task EXCEPT ![t] = r]
    BY <1>1, <1>2, <1>3, <2>1, Advancing
  <2>3. After(x.op, x.pc) = "clear-flush"
    BY <1>1, <1>2, <1>3, <2>1, Advancing, Stations
  <2>4. Ties(r)'
    <3>1. RecordOK(r)'
      BY <1>1, <1>2, <2>2, <2>3 DEF Ties, RecordOK, Moved, Pcs, OwnPcs, PtrPcs, LatePcs,
         MayBeLive, BaseKnown, Fenced, ExclusiveOps, PrepPcs, TombPcs, ClearPcs
    <3>2. LeaseTie(r)' /\ SlotTie(r)' /\ RecTie(r)' /\ JournalTie(r)' /\ DirTie(r)'
      BY <1>1, <1>2, <2>1, <2>2, <2>3 DEF Ties, Moved, LeaseTie, SlotTie, OnBase, RecTie, JournalTie, DirTie,
         Solid, OwnPcs, PrepPcs, TombPcs, ClearPcs
    <3> QED  BY <3>1, <3>2 DEF Ties
  <2>5. ResetMoves /\ TerminalRecordCovers'
    BY <1>1, <1>2, <2>1 DEF ResetMoves, LifecycleInv, Shapes, TerminalRecordCovers
  <2> QED  BY <1>1, <1>2, <2>1, <2>2, <2>4, <2>5, ResetStep DEF Moved
<1>4. CASE x.pc = "clear-flush"
  <2>1. /\ finally(t) /\ recDur' = rec /\ rec' = rec
        /\ told' = IF x.undo THEN told ELSE told \cup {Terminal}
    BY <1>2, <1>4 DEF clearTerminalPreparation, At
  <2>2. ResetMoves /\ TerminalRecordCovers'
    BY <1>1, <1>2, <2>1 DEF ResetMoves, LifecycleInv, Shapes, TerminalRecordCovers
  <2> QED  BY <1>1, <1>2, <2>1, <2>2, IdleTies, ResetStep DEF finally, Become
<1> QED  BY <1>1, <1>2, <1>3, <1>4 DEF ClearPcs

\* An awaited step that throws.
LEMMA FailStep ==
  ASSUME LifecycleInv, NEW t \in Tasks, StepFails(t)
  PROVE  LifecycleInv'
<1>1. Running(t) /\ UNCHANGED <<journaled, mode, claim>> /\ SpentKept
  BY DEF StepFails, Fault, SpentKept, LifecycleInv, Shapes
<1>2. CASE task[t].pc \in Ambiguous
  <2>1. commitManualCleanup(t) /\ told' = IF task[t].pc = "prep-flush" THEN told ELSE told \cup {Terminal}
    BY <1>2 DEF StepFails, Ambiguous
  <2>2. /\ UNCHANGED <<live, liveDur, rec, recDur, dir, synced, jrn>> /\ barred' = TRUE
        /\ lease' \in {lease, [lease EXCEPT !.bound = FALSE]} /\ finally(t)
    BY <2>1 DEF commitManualCleanup, disk
  <2>3. PICK x \in TaskRecord :
           /\ x = task[t] /\ Ties(x) /\ x.op = "reset" /\ x.held # 0
           /\ x.pc = "prep-flush" => Terminal \notin told
           /\ rec /\ (x.pc # "prep-flush" => recDur)
    BY <1>1, <1>2, ResetKnown DEF Ambiguous, PrepPcs, TombPcs
  <2>4. ResetMoves /\ TerminalRecordCovers'
    BY <1>1, <2>1, <2>2 DEF ResetMoves, LifecycleInv, Shapes, Durable, TerminalRecordCovers
  <2> QED  BY <2>1, <2>2, <2>3, <2>4, IdleTies, ResetStep DEF finally, Become
<1>3. CASE task[t].pc = "tomb-cas"
  <2>1. Undo(t) /\ told' = told
    BY <1>3 DEF StepFails, Ambiguous
  <2> QED  BY <1>1, <1>3, <2>1, UndoStep
<1>4. CASE task[t].pc \in ClearPcs
  <2>1. PICK x \in TaskRecord :
         /\ x = task[t] /\ Ties(x) /\ x.op = "reset" /\ x.held # 0
         /\ x.undo => Terminal \notin told
         /\ ~x.undo => barred /\ live.k = "tomb" /\ liveDur.k = "tomb"
    BY <1>1, <1>4, ResetKnown
  <2>2. IF x.undo THEN commitManualCleanup(t) /\ UNCHANGED told
              ELSE finally(t) /\ told' = told \cup {Terminal} /\ UNCHANGED <<disk, barred, lease>>
    BY <1>4, <2>1 DEF StepFails, Ambiguous, ClearPcs
  <2>3. /\ UNCHANGED <<live, liveDur, rec, recDur, dir, synced, jrn>> /\ barred' \in {barred, TRUE}
        /\ lease' \in {lease, [lease EXCEPT !.bound = FALSE]} /\ finally(t)
    BY <2>2 DEF commitManualCleanup, disk
  <2>4. ResetMoves /\ TerminalRecordCovers'
    BY <1>1, <2>2, <2>3 DEF ResetMoves, LifecycleInv, Shapes, Durable, TerminalRecordCovers
  <2>5. barred'
    BY <2>1, <2>2 DEF commitManualCleanup
  <2> QED  BY <2>1, <2>2, <2>3, <2>4, <2>5, IdleTies, ResetStep DEF finally, Become
<1>5. CASE task[t].pc \notin Ambiguous \cup {"tomb-cas", "recheck", "commit"} \cup ClearPcs
  <2>1. refuse(t) /\ UNCHANGED <<told, barred, lease>>
    BY <1>5 DEF StepFails, ClearPcs
  <2> QED  BY <1>1, <1>5, <2>1, RefuseStep DEF Ambiguous
<1>6. task[t].pc \notin {"recheck", "commit"}
  BY DEF StepFails, Ambiguous
<1> QED  BY <1>2, <1>3, <1>4, <1>5, <1>6

-----------------------------------------------------------------------------
(* The publication of the live slot.                                       *)

\* A pointer about to be published names a candidate that holds what it says.
LEMMA LatePresent ==
  ASSUME LifecycleInv, NEW t \in Tasks, Running(t), task[t].pc \in LatePcs
  PROVE  /\ task[t].ptr \in Pointer /\ Present(task[t].ptr)
         /\ \A u \in Tasks : u # t /\ Makes(task[u]) => task[u].gen # task[t].ptr.gen
<1>1. PICK x \in TaskRecord : /\ x = task[t] /\ Ties(x) /\ x.op \in {"create", "refresh", "restore", "replay"}
  BY Standing DEF LatePcs
<1>2. x.ptr \in Pointer
  BY <1>1 DEF Ties, RecordOK, PtrPcs
<1>3. CASE x.op = "replay"
  <2>1. jrn.phase = "prepared" /\ x.ptr = jrn.cand
    BY <1>1, <1>3 DEF Ties, JournalTie
  <2>2. mode = "boot"
    BY <1>1, <1>3 DEF LifecycleInv, Together, Running
  <2>3. \A u \in Tasks : ~Makes(task[u])
    BY <2>2 DEF LifecycleInv, Together, Running, Makes
  <2> QED  BY <1>1, <1>2, <2>1, <2>3 DEF LifecycleInv, Durable
<1>4. CASE x.op # "replay"
  <2>1. x.ptr.gen = x.gen /\ x.ptr.priorFp = FpOf(x.base)
    BY <1>1, <1>4 DEF Ties, RecordOK, PtrPcs
  <2>2. x.op = "create" => x.gen = 1
    <3>1. x.op = "create" => x.ptr.priorFp = << >>
      BY <1>1, <2>1 DEF Ties, RecordOK, FpOf, NoSlot
    <3> QED  BY <1>2, <2>1, <3>1, FpChain, EmptyFingerprint
  <2>3. Solid(x) /\ x.pc # "copy" /\ x.pc \in PtrPcs
    BY <1>1, <1>4, <2>2 DEF Solid, LatePcs, OwnPcs, PtrPcs
  <2>4. Present(x.ptr)
    BY <1>1, <2>1, <2>3, SolidHeld, WorkspaceAssumption DEF Ties, DirTie, Present
  <2> QED  BY <1>1, <1>2, <2>1, <2>3, <2>4 DEF LifecycleInv, Apart
<1> QED  BY <1>1, <1>3, <1>4

\* The journal names the candidate before the slot is touched.
LEMMA JournalPrepareStep ==
  ASSUME LifecycleInv, NEW t \in Tasks, journalPrepare(t)
  PROVE  LifecycleInv'
<1>1. PICK x \in TaskRecord : /\ x = task[t] /\ Ties(x) /\ x.pc = "j-prepare"
                              /\ x.op \in {"create", "refresh", "restore"}
  BY Standing DEF journalPrepare, At
<1>2. /\ Running(t) /\ Advance(t, x) /\ jrn' = [phase |-> "prepared", cand |-> x.ptr, prior |-> live]
      /\ UNCHANGED <<live, liveDur, rec, recDur, dir, synced, journaled, lease, barred, mode, told, spent>>
  BY <1>1 DEF journalPrepare, At, Reads, Memory
<1>3. PICK r \in TaskRecord : Moved(x, r, After(x.op, x.pc)) /\ task' = [task EXCEPT ![t] = r]
  BY <1>1, <1>2, Advancing
<1>4. After(x.op, x.pc) = "cas"
  BY <1>1, <1>2, Advancing, Stations
<1>5. /\ task'[t] = r
      /\ \A u \in Tasks : u # t => task'[u] = task[u]
  BY <1>3, OthersKept DEF LifecycleInv
<1>6. /\ x.ptr \in Pointer /\ Present(x.ptr)
      /\ \A u \in Tasks : u # t /\ Makes(task[u]) => task[u].gen # x.ptr.gen
  BY <1>1, <1>2, LatePresent DEF LatePcs
<1>7. mode = "up"
  BY <1>1, <1>2 DEF LifecycleInv, Together
<1>8. Ties(r)'
  <2>1. RecordOK(r)'
    BY <1>1, <1>2, <1>3, <1>4 DEF Ties, RecordOK, Moved, Pcs, OwnPcs, PtrPcs, LatePcs,
       MayBeLive, BaseKnown, Fenced, ExclusiveOps, ClearPcs
  <2>2. LeaseTie(r)' /\ SlotTie(r)' /\ RecTie(r)' /\ JournalTie(r)' /\ DirTie(r)'
    BY <1>1, <1>2, <1>3, <1>4 DEF Ties, LeaseTie, SlotTie, OnBase, RecTie, JournalTie, Moved,
       OwnPcs, PrepPcs, TombPcs, ClearPcs, DirTie, Solid, LatePcs, PtrPcs
  <2> QED  BY <2>1, <2>2 DEF Ties
<1>9. Shapes'
  <2>1. task' \in [Tasks -> TaskRecord]
    BY <1>3 DEF LifecycleInv, Shapes
  <2> QED  BY <1>2, <2>1 DEF LifecycleInv, Shapes, IsSlot
<1>10. Together'
  <2>1. r.op = task[t].op /\ FenceKept(t, r) /\ r.op # "none"
    BY <1>1, <1>3 DEF Moved, FenceKept
  <2> QED  BY <1>2, <1>3, <2>1, TogetherKept DEF LifecycleInv
<1>11. TaskTies'
  <2>1. SUFFICES ASSUME NEW u \in Tasks, u # t
                 PROVE  Ties(task[u])'
    BY <1>5, <1>8 DEF TaskTies, Ties
  <2>2. PICK y \in TaskRecord : y = task[u] /\ Ties(y) /\ y = task'[u]
    BY <1>5, <2>1, TaskKnown DEF LifecycleInv
  <2>3. RecordOK(y)' /\ LeaseTie(y)' /\ SlotTie(y)' /\ RecTie(y)' /\ DirTie(y)'
    BY <1>2, <2>2 DEF Ties, RecordOK, LeaseTie, SlotTie, RecTie, DirTie, Solid
  <2>4. JournalTie(y)'
    BY <1>7, <2>2 DEF JournalTie, LifecycleInv, Together, Running
  <2> QED  BY <2>2, <2>3, <2>4 DEF Ties
<1>12. Apart'
  <2>1. \A u \in Tasks : /\ Makes(task[u])' => Makes(task[u]) /\ task'[u].gen = task[u].gen
                         /\ Solid(task[u])' => Solid(task[u]) /\ task'[u].gen = task[u].gen
    <3>1. TAKE u \in Tasks
    <3>2. CASE u = t
      BY <1>1, <1>2, <1>3, <1>4, <1>5, <3>2 DEF Makes, Solid, Moved, OwnPcs, LatePcs
    <3>3. CASE u # t
      BY <1>2, <1>5, <3>1, <3>3 DEF Makes, Solid
    <3> QED  BY <3>2, <3>3
  <2>2. \A u, v \in Tasks : u # v /\ Solid(task[u])' /\ Makes(task[v])' => task'[v].gen # task'[u].gen
    BY <2>1 DEF LifecycleInv, Apart
  <2>3. \A u \in Tasks : Makes(task[u])' =>
             /\ live'.k = "ptr" => live'.gen # task'[u].gen
             /\ liveDur'.k = "ptr" => liveDur'.gen # task'[u].gen
    BY <1>2, <2>1 DEF LifecycleInv, Apart
  <2>4. \A u \in Tasks : Makes(task[u])' =>
                  \/ x.ptr.gen # task'[u].gen
                  \/ x.ptr = task'[u].ptr /\ task'[u].pc \in {"cas", "temp", "replace"}
    BY <1>3, <1>4, <1>5, <1>6, <2>1 DEF Moved
  <2> QED  BY <1>2, <2>2, <2>3, <2>4 DEF Apart
<1>13. Durable'
  <2>1. /\ Begins(Chain(liveDur), Chain(live))'
        /\ (liveDur.k = "tomb" => live = liveDur)'
        /\ TerminalRecordCovers'
    BY <1>2 DEF LifecycleInv, Durable, TerminalRecordCovers
  <2>2. /\ (live.k = "ptr" => Present(live))'
        /\ (liveDur.k = "ptr" => Present(liveDur))'
        /\ (jrn.phase = "prepared" => jrn.cand \in Pointer /\ Present(jrn.cand))'
    BY <1>2, <1>6 DEF LifecycleInv, Durable, Present
  <2>3. live'.k = "tomb" /\ mode' = "up" =>
         barred' \/ \E u \in Tasks : task'[u].pc \in {"tomb-flush", "commit"}
    BY <1>1, <1>2, <1>5 DEF LifecycleInv, Durable
  <2> QED  BY <1>2, <1>7, <2>1, <2>2, <2>3 DEF Durable
<1>14. Told' /\ InvokeRoutesToPointer'
  BY <1>2 DEF LifecycleInv, Told, TerminalSurvivesRestart, InvokeRoutesToPointer
<1> QED  BY <1>9, <1>10, <1>11, <1>12, <1>13, <1>14 DEF LifecycleInv

\* What a publication continues: everything that was in the slot before.
LEMMA ReplaceContinues ==
  ASSUME LifecycleInv, NEW t \in Tasks, Running(t), task[t].pc = "replace"
  PROVE  /\ live.k # "tomb" /\ liveDur.k # "tomb"
         /\ task[t].op = "create" => live = NoSlot
         /\ task[t].op \in {"refresh", "restore"} => live = task[t].base /\ live \in Pointer
         /\ Begins(Chain(live), Fp(task[t].ptr))
<1>1. PICK x \in TaskRecord : /\ x = task[t] /\ Ties(x) /\ x.op \in {"create", "refresh", "restore", "replay"}
  BY Standing
<1>2. x.ptr \in Pointer /\ (x.op # "replay" => x.ptr.priorFp = FpOf(x.base))
  BY <1>1 DEF Ties, RecordOK, PtrPcs, LatePcs
<1>3. IsSlot(live)
  BY DEF LifecycleInv, Shapes
<1>4. /\ x.op = "create" => live = NoSlot /\ x.base = NoSlot
      /\ x.op \in {"refresh", "restore"} => live = x.base /\ live \in Pointer
      /\ x.op = "replay" => live.k # "tomb" /\ FpOf(live) = x.ptr.priorFp
  BY <1>1 DEF Ties, RecordOK, SlotTie, OnBase, BaseKnown, OwnPcs
<1>5. live.k # "tomb" /\ x.ptr.priorFp = FpOf(live)
  BY <1>1, <1>2, <1>4, FpChain DEF NoSlot
<1>6. Begins(Chain(live), Fp(x.ptr))
  BY <1>2, <1>3, <1>5, SuccessorContinues
<1> QED  BY <1>1, <1>4, <1>5, <1>6 DEF LifecycleInv, Durable

\* The pointer is moved into the slot: what was reported is its beginning.
LEMMA ReplaceStep ==
  ASSUME LifecycleInv, NEW t \in Tasks, replaceLive(t)
  PROVE  LifecycleInv'
<1>1. PICK x \in TaskRecord : /\ x = task[t] /\ Ties(x) /\ x.pc = "replace"
                              /\ x.op \in {"create", "refresh", "restore", "replay"}
  BY Standing DEF replaceLive, At
<1>2. /\ Running(t) /\ Advance(t, x) /\ live' = x.ptr
      /\ UNCHANGED <<liveDur, rec, recDur, dir, synced, jrn, journaled, lease, barred, mode, told, spent>>
  BY <1>1 DEF replaceLive, At, Reads, Memory
<1>3. PICK r \in TaskRecord : Moved(x, r, After(x.op, x.pc)) /\ task' = [task EXCEPT ![t] = r]
  BY <1>1, <1>2, Advancing
<1>4. After(x.op, x.pc) = "flushParent"
  BY <1>1, <1>2, Advancing, Stations
<1>5. /\ task'[t] = r
      /\ \A u \in Tasks : u # t => task'[u] = task[u]
  BY <1>3, OthersKept DEF LifecycleInv
<1>6. /\ x.ptr \in Pointer /\ Present(x.ptr)
      /\ \A u \in Tasks : u # t /\ Makes(task[u]) => task[u].gen # x.ptr.gen
  BY <1>1, <1>2, LatePresent DEF LatePcs
<1>7. /\ live.k # "tomb" /\ liveDur.k # "tomb"
      /\ x.op = "create" => live = NoSlot
      /\ x.op \in {"refresh", "restore"} => live = x.base /\ live \in Pointer
      /\ Begins(Chain(live), Fp(x.ptr))
  BY <1>1, <1>2, ReplaceContinues
<1>8. /\ IsSlot(live') /\ live'.k = "ptr" /\ Chain(live') = Fp(x.ptr) /\ Fp(x.ptr) \in Fingerprint
      /\ Chain(live) \in Fingerprint /\ Chain(liveDur) \in Fingerprint
      /\ Begins(Chain(liveDur), Chain(live))
      /\ Begins(Chain(live), Chain(live')) /\ Begins(Chain(liveDur), Chain(live'))
  BY <1>2, <1>6, <1>7, PointerSlot, FpChain, SlotChain, BeginsTransitive DEF LifecycleInv, Shapes, Durable
<1>9. Ties(r)'
  <2>1. RecordOK(r)'
    BY <1>1, <1>2, <1>3, <1>4 DEF Ties, RecordOK, Moved, Pcs, OwnPcs, PtrPcs, LatePcs,
       MayBeLive, BaseKnown, Fenced, ExclusiveOps, ClearPcs
  <2>2. Begins(Fp(r.ptr), Chain(live'))
    BY <1>3, <1>8, BeginsReflexive DEF Moved
  <2>3. LeaseTie(r)' /\ SlotTie(r)' /\ RecTie(r)' /\ JournalTie(r)' /\ DirTie(r)'
    BY <1>1, <1>2, <1>3, <1>4, <2>1, <2>2 DEF Ties, RecordOK, LeaseTie, SlotTie, OnBase, RecTie, JournalTie, Moved,
       OwnPcs, PrepPcs, TombPcs, ClearPcs, DirTie, Solid
  <2> QED  BY <2>1, <2>3 DEF Ties
<1>10. Shapes'
  <2>1. task' \in [Tasks -> TaskRecord]
    BY <1>3 DEF LifecycleInv, Shapes
  <2> QED  BY <1>2, <1>8, <2>1 DEF LifecycleInv, Shapes, IsSlot
<1>11. Together'
  <2>1. r.op = task[t].op /\ FenceKept(t, r) /\ r.op # "none"
    BY <1>1, <1>3 DEF Moved, FenceKept
  <2> QED  BY <1>2, <1>3, <2>1, TogetherKept DEF LifecycleInv
<1>12. TaskTies'
  <2>1. SUFFICES ASSUME NEW u \in Tasks, u # t
                 PROVE  Ties(task[u])'
    BY <1>5, <1>9 DEF TaskTies, Ties
  <2>2. PICK y \in TaskRecord : y = task[u] /\ Ties(y) /\ y = task'[u]
    BY <1>5, <2>1, TaskKnown DEF LifecycleInv
  <2>3. RecordOK(y)' /\ LeaseTie(y)' /\ RecTie(y)' /\ JournalTie(y)' /\ DirTie(y)'
    BY <1>2, <2>2 DEF Ties, RecordOK, LeaseTie, RecTie, JournalTie, DirTie, Solid
  <2>4. ~OnBase(y)
    <3>1. SUFFICES ASSUME OnBase(y)
                   PROVE  FALSE
      OBVIOUS
    <3>2. live = y.base /\ y.base \in Pointer /\ y.held # 0 /\ y.op \in {"refresh", "restore", "reset"}
      BY <2>2, <3>1 DEF Ties, RecordOK, SlotTie, OnBase, BaseKnown, Fenced, ExclusiveOps, OwnPcs, PrepPcs, TombPcs, ClearPcs
    <3>3. x.op # "create"
      BY <1>7, <3>2, PointerSlot
    <3>4. x.op # "replay"
      BY <1>1, <2>2, <3>2 DEF LifecycleInv, Together, Running
    <3>5. x.held # 0 /\ x.op \in {"refresh", "restore"}
      BY <1>1, <3>3, <3>4 DEF Ties, RecordOK, Fenced, ExclusiveOps
    <3> QED  BY <1>1, <2>1, <2>2, <3>2, <3>5 DEF LifecycleInv, Together, Builders, ExclusiveOps
  <2>5. ~(y.op = "create" /\ y.pc \in {"temp", "replace"})
    <3>1. SUFFICES ASSUME y.op = "create", live = NoSlot
                   PROVE  FALSE
      BY <2>2 DEF Ties, SlotTie
    <3>2. x.op \notin {"create", "refresh"}
      BY <1>1, <2>1, <2>2, <3>1 DEF LifecycleInv, Together, Builders
    <3>3. x.op # "restore"
      BY <1>7, <3>1, PointerSlot
    <3>4. x.op # "replay"
      BY <1>1, <2>2, <3>1 DEF LifecycleInv, Together, Running
    <3> QED  BY <1>1, <3>2, <3>3, <3>4
  <2>6. y.op # "replay"
    BY <1>1, <2>1, <2>2 DEF LifecycleInv, Together, Running
  <2>7. y.pc = "flushParent" => Begins(Fp(y.ptr), Chain(live'))
    <3>1. SUFFICES ASSUME y.pc = "flushParent"
                   PROVE  Begins(Fp(y.ptr), Chain(live'))
      OBVIOUS
    <3>2. Fp(y.ptr) \in Fingerprint /\ Begins(Fp(y.ptr), Chain(live))
      BY <2>2, <3>1, FpChain DEF Ties, RecordOK, SlotTie, PtrPcs, MayBeLive
    <3> QED  BY <1>8, <3>2, BeginsTransitive
  <2>8. y.pc \notin {"tomb-flush", "commit"} /\ (y.pc \in ClearPcs => y.undo)
    BY <1>7, <2>2, PointerSlot DEF Ties, SlotTie, RecordOK, Pcs, BaseKnown, OwnPcs, MayBeLive, PrepPcs, TombPcs, ClearPcs, buildTombstone
  <2>9. SlotTie(y)'
    BY <1>2, <2>2, <2>4, <2>5, <2>6, <2>7, <2>8 DEF Ties, SlotTie
  <2> QED  BY <2>2, <2>3, <2>9 DEF Ties
<1>13. Apart'
  <2>1. \A u \in Tasks : /\ Makes(task[u])' => u # t /\ Makes(task[u]) /\ task'[u] = task[u]
                         /\ Solid(task[u])' => u # t /\ Solid(task[u]) /\ task'[u] = task[u]
    <3>1. TAKE u \in Tasks
    <3>2. CASE u = t
      BY <1>3, <1>4, <1>5, <3>2 DEF Makes, Solid, Moved, OwnPcs
    <3>3. CASE u # t
      BY <1>2, <1>5, <3>1, <3>3 DEF Makes, Solid
    <3> QED  BY <3>2, <3>3
  <2>2. \A u, v \in Tasks : u # v /\ Solid(task[u])' /\ Makes(task[v])' => task'[v].gen # task'[u].gen
    BY <2>1 DEF LifecycleInv, Apart
  <2>3. \A u \in Tasks : Makes(task[u])' =>
             /\ live'.gen # task'[u].gen
             /\ liveDur'.k = "ptr" => liveDur'.gen # task'[u].gen
             /\ jrn'.phase = "prepared" =>
                  \/ jrn'.cand.gen # task'[u].gen
                  \/ jrn'.cand = task'[u].ptr /\ task'[u].pc \in {"cas", "temp", "replace"}
    BY <1>2, <1>6, <2>1 DEF LifecycleInv, Apart
  <2> QED  BY <2>2, <2>3 DEF Apart
<1>14. Durable'
  <2>1. Begins(Chain(liveDur), Chain(live))'
    BY <1>2, <1>8 DEF Begins, Chain, Fp
  <2>2. /\ (live.k = "ptr" => Present(live))'
        /\ (liveDur.k = "ptr" => Present(liveDur))'
        /\ (jrn.phase = "prepared" => jrn.cand \in Pointer /\ Present(jrn.cand))'
    BY <1>2, <1>6 DEF LifecycleInv, Durable, Present
  <2>3. TerminalRecordCovers' /\ (liveDur.k = "tomb" => live = liveDur)'
    BY <1>2, <1>7, <1>8 DEF TerminalRecordCovers
  <2> QED  BY <1>2, <1>8, <2>1, <2>2, <2>3 DEF Durable, LifecycleInv
<1>15. Told' /\ InvokeRoutesToPointer'
  BY <1>2, <1>7, <1>8 DEF LifecycleInv, Told, TerminalSurvivesRestart, InvokeRoutesToPointer
<1> QED  BY <1>10, <1>11, <1>12, <1>13, <1>14, <1>15 DEF LifecycleInv

\* Flushing the directory of the slot disturbs nobody.
LEMMA FlushTies ==
  ASSUME LifecycleInv, liveDur' = live,
         UNCHANGED <<live, rec, recDur, dir, synced, jrn, journaled, lease, barred>>,
         told' = told \/ \E f : told' = told \cup {[k |-> "ptr", fp |-> f]},
         NEW y \in TaskRecord, Ties(y)
  PROVE  Ties(y)'
<1>1. RecordOK(y)' /\ LeaseTie(y)' /\ JournalTie(y)' /\ DirTie(y)'
  BY DEF Ties, RecordOK, LeaseTie, JournalTie, DirTie, Solid
<1>2. RecTie(y)'
  <2>1. Terminal \in told' => Terminal \in told
    BY DEF Terminal
  <2> QED  BY <2>1 DEF Ties, RecTie
<1>3. SlotTie(y)'
  <2>1. y.pc = "j-commit" => Begins(Fp(y.ptr), Chain(live))
    <3>1. SUFFICES ASSUME y.pc = "j-commit"
                   PROVE  Begins(Fp(y.ptr), Chain(live))
      OBVIOUS
    <3>2. Fp(y.ptr) \in Fingerprint /\ Begins(Fp(y.ptr), Chain(liveDur))
      BY <3>1, FpChain DEF Ties, RecordOK, SlotTie, PtrPcs, MayBeLive
    <3>3. /\ Chain(live) \in Fingerprint /\ Chain(liveDur) \in Fingerprint
          /\ Begins(Chain(liveDur), Chain(live))
      BY SlotChain DEF LifecycleInv, Shapes, Durable
    <3> QED  BY <3>2, <3>3, BeginsTransitive
  <2> QED  BY <2>1 DEF Ties, SlotTie
<1> QED  BY <1>1, <1>2, <1>3 DEF Ties

\* What is reported begins the chain in the slot.
LEMMA FlushTold ==
  ASSUME LifecycleInv, liveDur' = live, live' = live, NEW q \in told
  PROVE  \/ q = Terminal
         \/ q = [k |-> "ptr", fp |-> q.fp] /\ q.fp \in Fingerprint /\ Begins(q.fp, Chain(liveDur'))
<1>1. SUFFICES ASSUME q # Terminal
               PROVE  q = [k |-> "ptr", fp |-> q.fp] /\ q.fp \in Fingerprint /\ Begins(q.fp, Chain(live))
  OBVIOUS
<1>2. q = [k |-> "ptr", fp |-> q.fp] /\ q.fp \in Fingerprint /\ Begins(q.fp, Chain(liveDur))
  BY <1>1 DEF LifecycleInv, Told
<1>3. /\ Chain(live) \in Fingerprint /\ Chain(liveDur) \in Fingerprint
      /\ Begins(Chain(liveDur), Chain(live))
  BY SlotChain DEF LifecycleInv, Shapes, Durable
<1> QED  BY <1>2, <1>3, BeginsTransitive

\* The directory of the slot is flushed, which makes the replacement durable.
LEMMA FlushStep ==
  ASSUME LifecycleInv, NEW t \in Tasks, flushParent(t)
  PROVE  LifecycleInv'
<1>1. PICK x \in TaskRecord : /\ x = task[t] /\ Ties(x) /\ x.pc = "flushParent"
                              /\ x.op \in {"create", "refresh", "restore", "replay"}
  BY Standing DEF flushParent, At
<1>2. /\ Running(t) /\ liveDur' = live /\ mode' = "up"
      /\ UNCHANGED <<live, rec, recDur, dir, synced, jrn, barred, lease, journaled, spent>>
  BY DEF flushParent, At
<1>3. x.ptr \in Pointer /\ Fp(x.ptr) \in Fingerprint /\ Begins(Fp(x.ptr), Chain(live))
  BY <1>1, FpChain DEF Ties, RecordOK, SlotTie, PtrPcs, MayBeLive
<1>4. /\ mode = "boot" => x.op = "replay" /\ Terminal \notin told
      /\ mode = IF x.op = "replay" THEN "boot" ELSE "up"
  BY <1>1, <1>2 DEF LifecycleInv, Together, Durable, Told
<1>5. \E r \in TaskRecord :
         /\ task' = [task EXCEPT ![t] = r] /\ Ties(r)' /\ FenceKept(t, r) /\ ~Makes(r) /\ r.pc # "commit"
         /\ r.op = "none" \/ r.op = x.op
         /\ r.op = "none" => r.held = 0
         /\ x.op = "replay" => r.op = "none"
         /\ told' \in {told, Published(t)}
  <2>1. CASE IsLast(x.op, x.pc)
    <3>1. finally(t) /\ told' = IF x.op = "replay" THEN told ELSE Published(t)
      BY <1>1, <2>1 DEF flushParent, At
    <3> QED  BY <3>1, IdleTies DEF finally, Become, FenceKept, Idle
  <2>2. CASE ~IsLast(x.op, x.pc)
    <3>1. Advance(t, x) /\ told' = told
      BY <1>1, <2>2 DEF flushParent, At
    <3>2. PICK r \in TaskRecord : Moved(x, r, After(x.op, x.pc)) /\ task' = [task EXCEPT ![t] = r]
      BY <1>1, <1>2, <2>2, <3>1, Advancing
    <3>3. After(x.op, x.pc) = "j-commit" /\ x.op # "replay" /\ journaled
      BY <1>1, <1>2, <2>2, <3>1, Advancing, Stations
    <3>4. Ties(r)'
      <4>1. RecordOK(r)'
        BY <1>1, <1>2, <3>2, <3>3 DEF Ties, RecordOK, Moved, Pcs, OwnPcs, PtrPcs, LatePcs,
           MayBeLive, BaseKnown, Fenced, ExclusiveOps, ClearPcs
      <4>2. Begins(Fp(r.ptr), Chain(liveDur'))
        BY <1>2, <1>3, <3>2 DEF Moved
      <4>3. LeaseTie(r)' /\ SlotTie(r)' /\ RecTie(r)' /\ JournalTie(r)' /\ DirTie(r)'
        BY <1>1, <1>2, <3>1, <3>2, <3>3, <4>1, <4>2 DEF Ties, RecordOK, LeaseTie, SlotTie, OnBase, RecTie,
           JournalTie, Moved, OwnPcs, PrepPcs, TombPcs, ClearPcs, DirTie, Solid
      <4> QED  BY <4>1, <4>3 DEF Ties
    <3>5. ~Makes(r) /\ FenceKept(t, r) /\ r.op = x.op /\ r.pc # "commit"
      BY <1>1, <3>2, <3>3 DEF Makes, OwnPcs, Moved, FenceKept
    <3> QED  BY <1>1, <3>1, <3>2, <3>3, <3>4, <3>5
  <2> QED  BY <2>1, <2>2
<1>6. PICK r \in TaskRecord :
         /\ task' = [task EXCEPT ![t] = r] /\ Ties(r)' /\ FenceKept(t, r) /\ ~Makes(r)
         /\ r.op = "none" \/ r.op = x.op
         /\ r.op = "none" => r.held = 0
         /\ x.op = "replay" => r.op = "none"
         /\ told' \in {told, told \cup {[k |-> "ptr", fp |-> Fp(x.ptr)]}}
  BY <1>1, <1>5 DEF Published
<1>7. /\ task'[t] = r
      /\ \A u \in Tasks : u # t => task'[u] = task[u]
  BY <1>6, OthersKept DEF LifecycleInv
<1>8. Shapes'
  <2>1. task' \in [Tasks -> TaskRecord]
    BY <1>6 DEF LifecycleInv, Shapes
  <2> QED  BY <1>2, <2>1 DEF LifecycleInv, Shapes, IsSlot
<1>9. Together'
  <2>1. lease'.invoke = lease.invoke
    BY <1>2
  <2>2. mode' = mode \/ (task[t].op = "replay" /\ r.op = "none" /\ mode' = "up")
    BY <1>1, <1>2, <1>4, <1>6
  <2> QED  BY <1>1, <1>6, <2>1, <2>2, TogetherKept DEF LifecycleInv
<1>10. TaskTies'
  <2>1. SUFFICES ASSUME NEW u \in Tasks, u # t
                 PROVE  Ties(task[u])'
    BY <1>6, <1>7 DEF TaskTies, Ties
  <2>2. PICK y \in TaskRecord : y = task[u] /\ Ties(y) /\ y = task'[u]
    BY <1>7, <2>1, TaskKnown DEF LifecycleInv
  <2>3. Ties(y)'
    BY <1>2, <1>6, <2>2, FlushTies
  <2> QED  BY <2>2, <2>3 DEF Ties
<1>11. Apart'
  <2>1. \A u \in Tasks : /\ Makes(task[u])' => u # t /\ Makes(task[u]) /\ task'[u] = task[u]
                         /\ Solid(task[u])' => u # t /\ Solid(task[u]) /\ task'[u] = task[u]
    <3>1. TAKE u \in Tasks
    <3>2. CASE u = t
      BY <1>6, <1>7, <3>2 DEF Makes, Solid
    <3>3. CASE u # t
      BY <1>2, <1>7, <3>1, <3>3 DEF Makes, Solid
    <3> QED  BY <3>2, <3>3
  <2> QED  BY <1>2, <2>1 DEF LifecycleInv, Apart
<1>12. Durable'
  <2>1. Chain(live) \in Fingerprint
    BY SlotChain DEF LifecycleInv, Shapes
  <2>2. Begins(Chain(liveDur), Chain(live))'
    BY <1>2, <2>1, BeginsReflexive DEF Begins, Chain, Fp
  <2>3. /\ (live.k = "ptr" => Present(live))'
        /\ (liveDur.k = "ptr" => Present(liveDur))'
        /\ (jrn.phase = "prepared" => jrn.cand \in Pointer /\ Present(jrn.cand))'
    BY <1>2 DEF LifecycleInv, Durable, Present
  <2>4. TerminalRecordCovers' /\ (liveDur.k = "tomb" => live = liveDur)'
    BY <1>2 DEF TerminalRecordCovers
  <2>5. live'.k = "tomb" =>
         barred' \/ \E u \in Tasks : task'[u].pc \in {"tomb-flush", "commit"}
    BY <1>1, <1>2, <1>4, <1>7 DEF LifecycleInv, Durable
  <2> QED  BY <1>2, <2>2, <2>3, <2>4, <2>5 DEF Durable
<1>13. Told'
  <2>1. Terminal \in told' => Terminal \in told /\ mode = "up"
    BY <1>4, <1>6 DEF Terminal
  <2>2. \A q \in told' : q = Terminal \/ /\ q = [k |-> "ptr", fp |-> q.fp]
                                         /\ q.fp \in Fingerprint /\ Begins(q.fp, Chain(liveDur'))
    <3>1. TAKE q \in told'
    <3>2. CASE q \in told
      BY <1>2, <3>2, FlushTold
    <3>3. CASE q = [k |-> "ptr", fp |-> Fp(x.ptr)]
      BY <1>2, <1>3, <3>3
    <3> QED  BY <1>6, <3>1, <3>2, <3>3
  <2>3. TerminalSurvivesRestart'
    BY <1>2, <2>1 DEF LifecycleInv, Told, TerminalSurvivesRestart, Terminal
  <2>4. Terminal \in told' => (live'.k = "tomb" /\ liveDur'.k = "tomb") \/ (rec' /\ recDur')
    BY <1>2, <2>1 DEF LifecycleInv, Told
  <2> QED  BY <2>2, <2>3, <2>4 DEF Told, Terminal, Chain, Begins, Fp
<1>14. InvokeRoutesToPointer'
  BY <1>2 DEF LifecycleInv, InvokeRoutesToPointer
<1> QED  BY <1>8, <1>9, <1>10, <1>11, <1>12, <1>13, <1>14 DEF LifecycleInv

\* The journal is closed after the publication is durable.
LEMMA JournalCommitStep ==
  ASSUME LifecycleInv, NEW t \in Tasks, journalCommit(t)
  PROVE  LifecycleInv'
<1>1. PICK x \in TaskRecord : /\ x = task[t] /\ Ties(x) /\ x.pc = "j-commit"
                              /\ x.op \in {"create", "refresh", "restore"}
  BY Standing DEF journalCommit, At
<1>2. /\ Running(t) /\ task' = [task EXCEPT ![t] = Idle] /\ jrn' = [jrn EXCEPT !.phase = "committed"]
      /\ told' = told \cup {[k |-> "ptr", fp |-> Fp(x.ptr)]}
      /\ UNCHANGED <<live, liveDur, rec, recDur, dir, synced, barred, lease, journaled, mode, spent>>
  BY <1>1 DEF journalCommit, At, finally, Become, Published
<1>3. Fp(x.ptr) \in Fingerprint /\ Begins(Fp(x.ptr), Chain(liveDur))
  BY <1>1, FpChain DEF Ties, RecordOK, SlotTie, PtrPcs, MayBeLive
<1>4. jrn' = [phase |-> "committed", cand |-> jrn.cand, prior |-> jrn.prior]
  BY <1>2 DEF LifecycleInv, Shapes
<1>5. /\ task'[t] = Idle
      /\ \A u \in Tasks : u # t => task'[u] = task[u]
  BY <1>2, OthersKept DEF LifecycleInv
<1>6. mode = "up" /\ (Terminal \in told' <=> Terminal \in told)
  BY <1>1, <1>2 DEF LifecycleInv, Together, Terminal
<1>7. Shapes'
  <2>1. task' \in [Tasks -> TaskRecord]
    BY <1>2, IdleTies DEF LifecycleInv, Shapes
  <2> QED  BY <1>2, <1>4, <2>1 DEF LifecycleInv, Shapes, IsSlot
<1>8. Together'
  BY <1>2, IdleTies, TogetherKept DEF LifecycleInv, FenceKept
<1>9. TaskTies'
  <2>1. SUFFICES ASSUME NEW u \in Tasks, u # t
                 PROVE  Ties(task[u])'
    BY <1>5, IdleTies DEF TaskTies, Ties
  <2>2. PICK y \in TaskRecord : y = task[u] /\ Ties(y) /\ y = task'[u]
    BY <1>5, <2>1, TaskKnown DEF LifecycleInv
  <2>3. RecordOK(y)' /\ LeaseTie(y)' /\ SlotTie(y)' /\ RecTie(y)' /\ DirTie(y)'
    BY <1>2, <1>6, <2>2 DEF Ties, RecordOK, LeaseTie, SlotTie, RecTie, DirTie, Solid
  <2>4. JournalTie(y)'
    BY <1>6, <2>2 DEF JournalTie, LifecycleInv, Together, Running
  <2> QED  BY <2>2, <2>3, <2>4 DEF Ties
<1>10. Apart'
  BY <1>2, <1>4, IdleTies, ApartFrame DEF LifecycleInv, ApartKept
<1>11. Durable'
  <2>1. /\ Begins(Chain(liveDur), Chain(live))'
        /\ (liveDur.k = "tomb" => live = liveDur)'
        /\ TerminalRecordCovers'
    BY <1>2 DEF LifecycleInv, Durable, TerminalRecordCovers
  <2>2. /\ (live.k = "ptr" => Present(live))'
        /\ (liveDur.k = "ptr" => Present(liveDur))'
    BY <1>2 DEF LifecycleInv, Durable, Present
  <2>3. live'.k = "tomb" /\ mode' = "up" =>
         barred' \/ \E u \in Tasks : task'[u].pc \in {"tomb-flush", "commit"}
    BY <1>1, <1>2, <1>5 DEF LifecycleInv, Durable
  <2> QED  BY <1>2, <1>4, <1>6, <2>1, <2>2, <2>3 DEF Durable
<1>12. Told' /\ InvokeRoutesToPointer'
  BY <1>2, <1>3, <1>6 DEF LifecycleInv, Told, TerminalSurvivesRestart, InvokeRoutesToPointer
<1> QED  BY <1>7, <1>8, <1>9, <1>10, <1>11, <1>12 DEF LifecycleInv

-----------------------------------------------------------------------------
(* Requests, and the authority they run under.                             *)

\* A request starts an operation that has neither lease nor candidate yet.
LEMMA StartStep ==
  ASSUME LifecycleInv, NEW t \in Tasks, Served(t),
         NEW op \in {"create", "refresh", "restore", "reset"}, NEW g, Become(t, Request(op, g)),
         op \in Builders => NoBuild,
         g = (IF op = "restore" THEN lease.gen + 1 ELSE lease.gen),
         op = "restore" => lease.gen < MaxGen
  PROVE  LifecycleInv'
<1>1. /\ mode = "up" /\ lease.bound /\ task[t] = Idle
      /\ UNCHANGED <<live, liveDur, rec, recDur, dir, synced, jrn, journaled, lease, barred, mode, told>>
      /\ SpentKept
  <2>1. RecordOK(task[t])
    BY TaskKnown DEF LifecycleInv, Ties
  <2> QED  BY <2>1 DEF Served, Running, disk, SpentKept, LifecycleInv, Shapes, RecordOK
<1>2. lease.epoch \in Nat /\ lease.gen \in Gens /\ g \in Gens /\ g \in Nat /\ lease.epoch # 0
  BY <1>1, WorkspaceAssumption DEF LifecycleInv, Shapes, Gens
<1>3. Script(op)[1] = CASE op = "create" -> "paths" [] op = "refresh" -> "read-base" [] OTHER -> "fence"
  BY FirstStations DEF LifecycleInv, Shapes
<1>4. Script(op)[1] \in AllPcs
  BY <1>3 DEF AllPcs, Pcs, Ops
<1>5. PICK r \in TaskRecord : r = Request(op, g)
  BY <1>2, <1>4 DEF Request, TaskRecord, Idle, Ops
<1>6. /\ r.op = op /\ r.pc = Script(op)[1] /\ r.cand = lease.epoch /\ r.gen = g /\ r.held = 0
      /\ r.base = NoSlot /\ r.ptr = NoSlot /\ r.own = FALSE /\ r.undo = FALSE
      /\ task' = [task EXCEPT ![t] = r]
  BY <1>5 DEF Request, Idle, Become
<1>7. /\ task'[t] = r
      /\ \A u \in Tasks : u # t => task'[u] = task[u]
  BY <1>6, OthersKept DEF LifecycleInv
<1>8. Ties(r)'
  <2>1. RecordOK(r)'
    BY <1>1, <1>2, <1>3, <1>6 DEF RecordOK, Pcs, OwnPcs, PtrPcs, LatePcs, MayBeLive, BaseKnown, Fenced, ExclusiveOps
  <2>2. LeaseTie(r)'
    BY <1>1, <1>2, <1>6 DEF LeaseTie, Gens
  <2>3. SlotTie(r)' /\ RecTie(r)' /\ JournalTie(r)' /\ DirTie(r)'
    BY <1>3, <1>6 DEF SlotTie, OnBase, RecTie, JournalTie, DirTie, Solid, OwnPcs, PrepPcs, TombPcs, ClearPcs
  <2> QED  BY <2>1, <2>2, <2>3 DEF Ties
<1>9. ~Makes(r) /\ ~Solid(r) /\ ~(Solid(r))'
  BY <1>3, <1>6 DEF Makes, Solid, OwnPcs
<1>10. Shapes'
  <2>1. task' \in [Tasks -> TaskRecord]
    BY <1>6 DEF LifecycleInv, Shapes
  <2> QED  BY <1>1, <2>1 DEF LifecycleInv, Shapes, SpentKept, IsSlot
<1>11. Together'
  <2>1. op \in Builders => \A u \in Tasks : task[u].op \notin Builders
    BY DEF NoBuild
  <2>2. \A u \in Tasks : Running(u)' => mode' = IF task'[u].op = "replay" THEN "boot" ELSE "up"
    BY <1>1, <1>6, <1>7 DEF LifecycleInv, Together, Running
  <2>3. \A u \in Tasks : task'[u].op = "replay" => u = BootTask
    BY <1>6, <1>7 DEF LifecycleInv, Together
  <2>4. \A u, v \in Tasks : u # v /\ task'[u].op \in Builders => task'[v].op \notin Builders
    BY <1>6, <1>7, <2>1 DEF LifecycleInv, Together
  <2>5. \A u, v \in Tasks : u # v /\ task'[u].op \in ExclusiveOps /\ task'[u].held # 0
          => task'[v].held = 0
    BY <1>6, <1>7 DEF LifecycleInv, Together
  <2>6. \A u \in Tasks : task'[u].op \in ExclusiveOps /\ task'[u].held # 0 => lease'.invoke = 0
    BY <1>1, <1>6, <1>7 DEF LifecycleInv, Together
  <2> QED  BY <2>2, <2>3, <2>4, <2>5, <2>6 DEF Together
<1>12. TaskTies'
  <2>1. SUFFICES ASSUME NEW u \in Tasks, u # t
                 PROVE  Ties(task[u])'
    BY <1>7, <1>8 DEF TaskTies, Ties
  <2>2. PICK y \in TaskRecord : y = task[u] /\ Ties(y) /\ y = task'[u]
    BY <1>7, <2>1, TaskKnown DEF LifecycleInv
  <2>3. Ties(y)'
    BY <1>1, <2>2, QuietTies DEF Quiet, disk
  <2> QED  BY <2>2, <2>3 DEF Ties
<1>13. Apart'
  BY <1>1, <1>6, <1>9, ApartFrame DEF LifecycleInv, ApartKept
<1>14. Durable'
  <2>1. /\ Begins(Chain(liveDur), Chain(live))'
        /\ (liveDur.k = "tomb" => live = liveDur)'
        /\ TerminalRecordCovers'
        /\ (mode = "boot" => live.k # "tomb" /\ ~rec)'
    BY <1>1 DEF LifecycleInv, Durable, TerminalRecordCovers
  <2>2. /\ (live.k = "ptr" => Present(live))'
        /\ (liveDur.k = "ptr" => Present(liveDur))'
        /\ (jrn.phase = "prepared" => jrn.cand \in Pointer /\ Present(jrn.cand))'
    BY <1>1 DEF LifecycleInv, Durable, Present, SpentKept
  <2>3. live'.k = "tomb" /\ mode' = "up" =>
         barred' \/ \E u \in Tasks : task'[u].pc \in {"tomb-flush", "commit"}
    BY <1>1, <1>7 DEF LifecycleInv, Durable, Idle
  <2> QED  BY <2>1, <2>2, <2>3 DEF Durable
<1>15. Told' /\ InvokeRoutesToPointer'
  BY <1>1 DEF LifecycleInv, Told, TerminalSurvivesRestart, InvokeRoutesToPointer
<1> QED  BY <1>10, <1>11, <1>12, <1>13, <1>14, <1>15 DEF LifecycleInv

\* A new request finds its task idle.
LEMMA RequestStep ==
  ASSUME LifecycleInv, NEW t \in Tasks,
         \/ WorkspaceCreate(t) \/ WorkspaceRefresh(t)
         \/ WorkspaceResetDelete(t) \/ WorkspaceRestoreMigration(t)
  PROVE  LifecycleInv'
<1>1. CASE WorkspaceCreate(t)
  BY <1>1, StartStep DEF WorkspaceCreate, dispatchCreate
<1>2. CASE WorkspaceRefresh(t)
  BY <1>2, StartStep DEF WorkspaceRefresh, dispatchRefresh
<1>3. CASE WorkspaceResetDelete(t)
  BY <1>3, StartStep DEF WorkspaceResetDelete, dispatchResetDelete, Builders
<1>4. CASE WorkspaceRestoreMigration(t)
  BY <1>4, StartStep DEF WorkspaceRestoreMigration, dispatchRestoreMigration, Builders
<1> QED  BY <1>1, <1>2, <1>3, <1>4

\* A bind, an unbind, an invocation and its end.  A new authority takes nothing
\* from an operation but the hope of a restore that has not passed its last look.
LEMMA LeaseStep ==
  ASSUME LifecycleInv,
         UNCHANGED <<disk, journaled, task, barred, mode, told, spent>>,
         lease' \in [bound : BOOLEAN, epoch : Nat, gen : 0..MaxGen, invoke : Nat],
         lease'.bound => lease'.epoch # 0 /\ lease'.gen # 0,
         \/ lease'.epoch = lease.epoch /\ lease'.gen = lease.gen
         \/ lease'.epoch = lease.epoch + 1 /\ lease'.gen >= lease.gen,
         \/ lease'.invoke \in {0, lease.invoke}
         \/ live.k # "tomb" /\ \A u \in Tasks : task[u].held # 0 => task[u].op \notin ExclusiveOps
  PROVE  LifecycleInv'
<1>1. UNCHANGED <<live, liveDur, rec, recDur, dir, synced, jrn>>
  BY DEF disk
<1>2. lease.epoch \in Nat /\ lease.gen \in Nat /\ lease'.gen \in Nat
  BY DEF LifecycleInv, Shapes
<1>3. Shapes'
  BY <1>1 DEF LifecycleInv, Shapes, IsSlot
<1>4. Together'
  BY DEF LifecycleInv, Together, Running
<1>5. ASSUME NEW y \in TaskRecord, LeaseTie(y), Solid(y)'
      PROVE  Solid(y)
  <2>1. y.cand \in Nat
    BY DEF TaskRecord
  <2> QED  BY <1>2, <1>5, <2>1 DEF Solid, LeaseTie
<1>6. TaskTies'
  <2>1. SUFFICES ASSUME NEW u \in Tasks
                 PROVE  Ties(task[u])'
    BY DEF TaskTies
  <2>2. PICK y \in TaskRecord : y = task[u] /\ Ties(y) /\ y = task'[u]
    BY TaskKnown DEF LifecycleInv
  <2>3. RecordOK(y)' /\ SlotTie(y)' /\ RecTie(y)' /\ JournalTie(y)'
    BY <1>1, <2>2 DEF Ties, RecordOK, SlotTie, RecTie, JournalTie
  <2>4. LeaseTie(y)'
    <3>1. y.cand \in Nat /\ y.gen \in Nat
      BY DEF TaskRecord
    <3> QED  BY <1>2, <2>2, <3>1 DEF Ties, LeaseTie
  <2>5. DirTie(y)'
    BY <1>1, <1>5, <2>2 DEF Ties, DirTie
  <2> QED  BY <2>2, <2>3, <2>4, <2>5 DEF Ties
<1>7. Apart'
  <2>1. \A u \in Tasks : Solid(task[u])' => Solid(task[u])
    <3>1. TAKE u \in Tasks
    <3>2. PICK y \in TaskRecord : y = task[u] /\ LeaseTie(y) /\ y = task'[u]
      BY <3>1, TaskKnown DEF LifecycleInv, Ties
    <3> QED  BY <1>5, <3>2 DEF Solid
  <2> QED  BY <1>1, <2>1 DEF LifecycleInv, Apart, Makes
<1>8. Durable'
  BY <1>1 DEF LifecycleInv, Durable, TerminalRecordCovers, Present
<1>9. Told' /\ InvokeRoutesToPointer'
  BY <1>1 DEF LifecycleInv, Told, TerminalSurvivesRestart, InvokeRoutesToPointer, Shapes
<1> QED  BY <1>3, <1>4, <1>6, <1>7, <1>8, <1>9 DEF LifecycleInv

\* BIND, UNBIND and INVOKE leave the disk alone.
LEMMA BindingStep ==
  ASSUME LifecycleInv, (\E g \in Gens : Bind(g)) \/ Unbind \/ Invoke \/ InvokeEnds
  PROVE  LifecycleInv'
<1>1. lease \in [bound : BOOLEAN, epoch : Nat, gen : 0..MaxGen, invoke : Nat]
      /\ (lease.bound => lease.epoch # 0 /\ lease.gen # 0)
  BY DEF LifecycleInv, Shapes
<1>2. CASE \E g \in Gens : Bind(g)
  <2>1. PICK g \in Gens : Bind(g)
    BY <1>2
  <2>2. g \in 0..MaxGen /\ g # 0 /\ g >= lease.gen
    <3>1. g >= lease.gen
      BY <2>1 DEF Bind
    <3>2. g \in 1..MaxGen
      BY DEF Gens
    <3> QED  BY <3>1, <3>2
  <2>3. /\ lease' = [lease EXCEPT !.bound = TRUE, !.epoch = lease.epoch + 1, !.gen = g]
        /\ UNCHANGED <<disk, journaled, task, barred, mode, told, spent>>
    BY <2>1 DEF Bind
  <2>4. /\ lease' \in [bound : BOOLEAN, epoch : Nat, gen : 0..MaxGen, invoke : Nat]
        /\ lease'.epoch = lease.epoch + 1 /\ lease'.gen = g /\ lease'.invoke = lease.invoke
        /\ lease'.epoch # 0
    <3>1. lease.epoch + 1 \in Nat /\ lease.epoch + 1 # 0
      BY <1>1
    <3> QED  BY <1>1, <2>2, <2>3, <3>1
  <2> QED  BY <2>2, <2>3, <2>4, LeaseStep
<1>3. CASE Unbind \/ InvokeEnds
  <2>1. /\ lease' = [lease EXCEPT !.bound = FALSE] \/ lease' = [lease EXCEPT !.invoke = 0]
        /\ UNCHANGED <<disk, journaled, task, barred, mode, told, spent>>
    BY <1>3 DEF Unbind, InvokeEnds
  <2>2. /\ lease' \in [bound : BOOLEAN, epoch : Nat, gen : 0..MaxGen, invoke : Nat]
        /\ lease'.epoch = lease.epoch /\ lease'.gen = lease.gen /\ lease'.invoke \in {0, lease.invoke}
        /\ lease'.bound => lease.bound
    <3>1. CASE lease' = [lease EXCEPT !.bound = FALSE]
      BY <1>1, <3>1
    <3>2. CASE lease' = [lease EXCEPT !.invoke = 0]
      BY <1>1, <3>2
    <3> QED  BY <2>1, <3>1, <3>2
  <2> QED  BY <1>1, <2>1, <2>2, LeaseStep
<1>4. CASE Invoke
  <2>1. /\ lease' = [lease EXCEPT !.invoke = lease.epoch] /\ mode = "up" /\ ~barred
        /\ UNCHANGED <<disk, journaled, task, barred, mode, told, spent>>
        /\ \A u \in Tasks : task[u].held # 0 => task[u].op \notin ExclusiveOps
    BY <1>4 DEF Invoke, Holders
  <2>2. /\ lease' \in [bound : BOOLEAN, epoch : Nat, gen : 0..MaxGen, invoke : Nat]
        /\ lease'.epoch = lease.epoch /\ lease'.gen = lease.gen /\ lease'.bound = lease.bound
    BY <1>1, <2>1
  <2>3. \A u \in Tasks : task[u].pc \notin {"tomb-flush", "commit"}
    <3>1. TAKE u \in Tasks
    <3>2. SUFFICES ASSUME task[u].pc \in {"tomb-flush", "commit"}
                   PROVE  FALSE
      OBVIOUS
    <3>3. task[u].op = "reset"
      BY <3>1, <3>2, Standing
    <3>4. task[u].held # 0
      BY <3>1, <3>2, <3>3, TaskKnown DEF LifecycleInv, Ties, RecordOK, Fenced, ExclusiveOps
    <3> QED  BY <2>1, <3>1, <3>3, <3>4 DEF ExclusiveOps
  <2>4. live.k # "tomb"
    BY <2>1, <2>3 DEF LifecycleInv, Durable
  <2> QED  BY <1>1, <2>1, <2>2, <2>4, LeaseStep
<1> QED  BY <1>2, <1>3, <1>4

-----------------------------------------------------------------------------
(* Crash, power loss and recovery.                                         *)

\* When every operation is gone, nothing is left to tie.
LEMMA AllIdle ==
  ASSUME task' = [u \in Tasks |-> Idle]
  PROVE  /\ task' \in [Tasks -> TaskRecord]
         /\ Together' /\ TaskTies' /\ Apart'
<1>1. \A u \in Tasks : task'[u] = Idle
  OBVIOUS
<1>2. Together'
  BY <1>1, IdleTies DEF Together, Running, Builders, ExclusiveOps, Idle
<1>3. TaskTies'
  <2>1. SUFFICES ASSUME NEW u \in Tasks
                 PROVE  Ties(task[u])'
    BY DEF TaskTies
  <2> QED  BY <1>1, IdleTies DEF Ties
<1>4. Apart'
  <2>1. \A u \in Tasks : ~Makes(task'[u])
    BY <1>1, IdleTies
  <2> QED  BY <2>1 DEF Apart
<1>5. task' \in [Tasks -> TaskRecord]
  BY IdleTies
<1> QED  BY <1>2, <1>3, <1>4, <1>5

\* A crash ends every operation and leaves the disk.
LEMMA CrashStep ==
  ASSUME LifecycleInv, Crash
  PROVE  LifecycleInv'
<1>1. /\ task' = [t \in Tasks |-> Idle] /\ lease' = [lease EXCEPT !.bound = FALSE, !.invoke = 0]
      /\ barred' = FALSE /\ mode' = "down"
      /\ UNCHANGED <<live, liveDur, rec, recDur, dir, synced, jrn, journaled, told>> /\ SpentKept
  BY DEF Crash, Stopped, Fault, disk, SpentKept, LifecycleInv, Shapes
<1>2. /\ task' \in [Tasks -> TaskRecord]
      /\ Together' /\ TaskTies' /\ Apart'
  BY <1>1, AllIdle
<1>3. Shapes' /\ InvokeRoutesToPointer'
  BY <1>1, <1>2 DEF LifecycleInv, Shapes, SpentKept, IsSlot, InvokeRoutesToPointer
<1>4. Durable'
  BY <1>1 DEF LifecycleInv, Durable, TerminalRecordCovers, Present, SpentKept
<1>5. Told'
  BY <1>1 DEF LifecycleInv, Told, TerminalSurvivesRestart
<1> QED  BY <1>2, <1>3, <1>4, <1>5 DEF LifecycleInv

\* A power loss leaves of the slot and the record what was flushed or what was there.
LEMMA PowerLossStep ==
  ASSUME LifecycleInv, PowerLoss
  PROVE  LifecycleInv'
<1>1. /\ task' = [t \in Tasks |-> Idle] /\ lease' = [lease EXCEPT !.bound = FALSE, !.invoke = 0]
      /\ barred' = FALSE /\ mode' = "down" /\ spent' = [spent EXCEPT !.faults = @ + 1, !.power = TRUE]
      /\ UNCHANGED <<jrn, journaled, told>>
      /\ live' \in {live, liveDur} /\ liveDur' = live'
      /\ rec' \in {rec, recDur} /\ recDur' = rec'
      /\ synced' = {g \in Gens : dir[g] # "none"}
  BY DEF PowerLoss, Stopped
<1>2. PICK torn \in SUBSET {g \in Gens \ synced : dir[g] # "none"} :
          dir' = [g \in Gens |-> IF g \in torn THEN "partial" ELSE dir[g]]
  BY DEF PowerLoss
<1>3. /\ task' \in [Tasks -> TaskRecord]
      /\ Together' /\ TaskTies' /\ Apart'
  BY <1>1, AllIdle
<1>4. spent' \in [ops : Nat, faults : Nat, power : BOOLEAN] /\ spent'.power
  <2>1. spent \in [ops : Nat, faults : Nat, power : BOOLEAN] /\ spent.faults + 1 \in Nat
    BY DEF LifecycleInv, Shapes
  <2> QED  BY <1>1, <2>1
<1>5. dir' \in [Gens -> Content]
  BY <1>2 DEF LifecycleInv, Shapes, Content
<1>6. IsSlot(live') /\ Chain(live') \in Fingerprint
  BY <1>1, SlotChain DEF LifecycleInv, Shapes
<1>7. Shapes' /\ InvokeRoutesToPointer'
  <2>1. IsSlot(live)' /\ IsSlot(liveDur)'
    BY <1>1, <1>6 DEF IsSlot
  <2> QED  BY <1>1, <1>3, <1>4, <1>5, <2>1 DEF LifecycleInv, Shapes, InvokeRoutesToPointer
<1>8. Durable'
  <2>1. ASSUME NEW p \in Pointer, Present(p)
        PROVE  Present(p)'
    <3>1. p.gen \in Gens
      BY FpChain
    <3>2. /\ dir'[p.gen] # "none"
          /\ dir'[p.gen] # dir[p.gen] => p.gen \notin synced
          /\ p.gen \in synced'
      BY <1>1, <1>2, <2>1, <3>1 DEF Present
    <3> QED  BY <1>4, <2>1, <3>2 DEF Present
  <2>2. /\ live'.k = "ptr" => live' \in Pointer /\ Present(live')
        /\ jrn.phase = "prepared" => jrn.cand \in Pointer /\ Present(jrn.cand)
    BY <1>1, SlotChain DEF LifecycleInv, Shapes, Durable
  <2>3. /\ (live.k = "ptr" => Present(live))' /\ (liveDur.k = "ptr" => Present(liveDur))'
    <3>1. live'.k = "ptr" => Present(live)'
      <4>1. SUFFICES ASSUME live'.k = "ptr"
                     PROVE  Present(live)'
        OBVIOUS
      <4>2. PICK p \in Pointer : p = live' /\ Present(p)
        BY <2>2, <4>1
      <4> QED  BY <2>1, <4>2 DEF Present
    <3> QED  BY <1>1, <3>1 DEF Present
  <2>4. (jrn.phase = "prepared" => jrn.cand \in Pointer /\ Present(jrn.cand))'
    <3>1. SUFFICES ASSUME jrn.phase = "prepared"
                   PROVE  jrn.cand \in Pointer /\ Present(jrn.cand)'
      BY <1>1
    <3>2. PICK p \in Pointer : p = jrn.cand /\ Present(p)
      BY <2>2, <3>1
    <3> QED  BY <1>1, <2>1, <3>2 DEF Present
  <2>5. Begins(Chain(liveDur), Chain(live))'
    BY <1>1, <1>6, BeginsReflexive DEF Begins, Chain, Fp
  <2> QED  BY <1>1, <2>3, <2>4, <2>5 DEF Durable, TerminalRecordCovers
<1>9. Told'
  <2>1. \A q \in told' : q = Terminal \/ /\ q = [k |-> "ptr", fp |-> q.fp]
                                         /\ q.fp \in Fingerprint /\ Begins(q.fp, Chain(liveDur'))
    <3>1. TAKE q \in told'
    <3>2. SUFFICES ASSUME q # Terminal
                   PROVE  /\ q = [k |-> "ptr", fp |-> q.fp]
                          /\ q.fp \in Fingerprint /\ Begins(q.fp, Chain(liveDur'))
      OBVIOUS
    <3>3. q \in told /\ q = [k |-> "ptr", fp |-> q.fp] /\ q.fp \in Fingerprint /\ Begins(q.fp, Chain(liveDur))
      BY <1>1, <3>1, <3>2 DEF LifecycleInv, Told
    <3>4. /\ Chain(live) \in Fingerprint /\ Chain(liveDur) \in Fingerprint
          /\ Begins(Chain(liveDur), Chain(live))
      BY SlotChain DEF LifecycleInv, Shapes, Durable
    <3>5. Begins(q.fp, Chain(live))
      BY <3>3, <3>4, BeginsTransitive
    <3> QED  BY <1>1, <3>3, <3>5
  <2>2. TerminalSurvivesRestart'
    BY <1>1 DEF TerminalSurvivesRestart
  <2>3. Terminal \in told' => (live'.k = "tomb" /\ liveDur'.k = "tomb") \/ (rec' /\ recDur')
    BY <1>1 DEF LifecycleInv, Told
  <2> QED  BY <2>1, <2>2, <2>3 DEF Told, Terminal, Chain, Begins, Fp
<1> QED  BY <1>3, <1>7, <1>8, <1>9 DEF LifecycleInv

\* Recovery classifies the disk, replays or bars.
LEMMA RecoverStep ==
  ASSUME LifecycleInv, recoverWorkspaces
  PROVE  LifecycleInv'
<1>1. /\ mode = "down"
      /\ UNCHANGED <<live, rec, recDur, dir, synced, jrn, journaled, lease, told, spent>>
      /\ liveDur' \in {live, liveDur} /\ barred' \in BOOLEAN
  BY DEF recoverWorkspaces
<1>2. \A u \in Tasks : task[u] = Idle
  <2>1. TAKE u \in Tasks
  <2>2. task[u].op = "none"
    BY <1>1, <2>1 DEF LifecycleInv, Together, Running
  <2> QED  BY <2>2, <2>1, TaskKnown DEF LifecycleInv, Ties, RecordOK
<1>3. /\ live.k = "tomb" \/ rec => barred' /\ mode' = "up"
      /\ \/ mode' = "up" /\ task' = task
         \/ /\ mode' = "boot" /\ ~rec /\ live.k # "tomb" /\ jrn.phase = "prepared"
            /\ jrn.cand.priorFp = FpOf(live)
            /\ Become(BootTask, [Idle EXCEPT !.op = "replay", !.pc = "cas",
                                             !.gen = jrn.cand.gen, !.ptr = jrn.cand])
  <2>1. jrn.phase \in {"none", "prepared", "committed"} /\ rec \in BOOLEAN
    BY DEF LifecycleInv, Shapes
  <2>2. classifyGenerationRecovery = "safe-replay" =>
           ~rec /\ jrn.phase = "prepared" /\ jrn.cand.priorFp = FpOf(live)
    BY <2>1 DEF classifyGenerationRecovery
  <2>3. rec => classifyGenerationRecovery = "manual_cleanup"
    BY <2>1 DEF classifyGenerationRecovery
  <2> QED  BY <2>2, <2>3 DEF recoverWorkspaces, readSnapshotInputs
<1>4. IsSlot(live) /\ Chain(live) \in Fingerprint /\ IsSlot(liveDur')
  BY <1>1, SlotChain DEF LifecycleInv, Shapes
<1>5. /\ task' \in [Tasks -> TaskRecord]
      /\ Together' /\ TaskTies' /\ Apart'
  <2>1. CASE task' = task
    <3>1. task' = [u \in Tasks |-> Idle]
      <4>1. task \in [Tasks -> TaskRecord]
        BY DEF LifecycleInv, Shapes
      <4> QED  BY <1>2, <2>1, <4>1
    <3> QED  BY <3>1, AllIdle
  <2>2. CASE /\ mode' = "boot" /\ ~rec /\ live.k # "tomb" /\ jrn.phase = "prepared"
             /\ jrn.cand.priorFp = FpOf(live)
             /\ Become(BootTask, [Idle EXCEPT !.op = "replay", !.pc = "cas",
                                              !.gen = jrn.cand.gen, !.ptr = jrn.cand])
    <3>1. jrn.cand \in Pointer /\ jrn.cand.gen \in Gens /\ jrn.cand.gen \in Nat
      BY <2>2, FpChain DEF LifecycleInv, Durable, Gens
    <3>2. "cas" \in AllPcs
      BY DEF AllPcs, Pcs, Ops
    <3>3. PICK r \in TaskRecord : r = [Idle EXCEPT !.op = "replay", !.pc = "cas",
                                                   !.gen = jrn.cand.gen, !.ptr = jrn.cand]
      BY <3>1, <3>2 DEF Idle, TaskRecord, Ops
    <3>4. /\ r.op = "replay" /\ r.pc = "cas" /\ r.cand = 0 /\ r.gen = jrn.cand.gen /\ r.held = 0
          /\ r.base = NoSlot /\ r.ptr = jrn.cand /\ r.own = FALSE /\ r.undo = FALSE
      BY <3>3 DEF Idle
    <3>5. task' = [task EXCEPT ![BootTask] = r] /\ BootTask \in Tasks
      BY <2>2, <3>3, WorkspaceAssumption DEF Become
    <3>6. task'[BootTask] = r /\ \A u \in Tasks : u # BootTask => task'[u] = Idle
      BY <1>2, <3>5, OthersKept DEF LifecycleInv
    <3>7. Ties(r)'
      <4>1. RecordOK(r)'
        BY <1>1, <3>1, <3>4 DEF RecordOK, Pcs, OwnPcs, PtrPcs, LatePcs, MayBeLive, BaseKnown, Fenced, ExclusiveOps
      <4>2. SlotTie(r)'
        BY <1>1, <2>2, <3>4 DEF SlotTie, OnBase, ClearPcs, FpOf, Fp
      <4>3. LeaseTie(r)' /\ RecTie(r)' /\ JournalTie(r)' /\ DirTie(r)'
        BY <1>1, <2>2, <3>4 DEF LeaseTie, RecTie, JournalTie, DirTie, Solid, PrepPcs, TombPcs, ClearPcs
      <4> QED  BY <4>1, <4>2, <4>3 DEF Ties
    <3>8. task' \in [Tasks -> TaskRecord]
      BY <3>5 DEF LifecycleInv, Shapes
    <3>9. Together'
      BY <2>2, <3>4, <3>6, IdleTies DEF Together, Running, Builders, ExclusiveOps, Idle
    <3>10. TaskTies'
      <4>1. SUFFICES ASSUME NEW u \in Tasks
                     PROVE  Ties(task[u])'
        BY DEF TaskTies
      <4> QED  BY <3>6, <3>7, IdleTies DEF Ties
    <3>11. Apart'
      <4>1. \A u \in Tasks : ~Makes(task'[u])
        BY <3>4, <3>6, IdleTies DEF Makes
      <4> QED  BY <4>1 DEF Apart
    <3> QED  BY <3>8, <3>9, <3>10, <3>11
  <2> QED  BY <1>3, <2>1, <2>2
<1>6. Shapes' /\ InvokeRoutesToPointer'
  <2>1. IsSlot(live)' /\ IsSlot(liveDur)'
    BY <1>1, <1>4 DEF IsSlot
  <2> QED  BY <1>1, <1>3, <1>5, <2>1 DEF LifecycleInv, Shapes, InvokeRoutesToPointer
<1>7. Durable'
  <2>1. Begins(Chain(liveDur'), Chain(live))
    BY <1>1, <1>4, BeginsReflexive DEF LifecycleInv, Durable
  <2>2. Begins(Chain(liveDur), Chain(live))'
    BY <1>1, <2>1 DEF Begins, Chain, Fp
  <2>3. /\ (live.k = "ptr" => Present(live))'
        /\ (liveDur.k = "ptr" => Present(liveDur))'
        /\ (jrn.phase = "prepared" => jrn.cand \in Pointer /\ Present(jrn.cand))'
    BY <1>1 DEF LifecycleInv, Durable, Present
  <2>4. TerminalRecordCovers' /\ (liveDur.k = "tomb" => live = liveDur)'
    BY <1>1 DEF LifecycleInv, Durable, TerminalRecordCovers
  <2> QED  BY <1>1, <1>3, <2>2, <2>3, <2>4 DEF Durable
<1>8. Told'
  <2>1. \A q \in told' : q = Terminal \/ /\ q = [k |-> "ptr", fp |-> q.fp]
                                         /\ q.fp \in Fingerprint /\ Begins(q.fp, Chain(liveDur'))
    <3>1. TAKE q \in told'
    <3>2. CASE liveDur' = live
      BY <1>1, <3>1, <3>2, FlushTold
    <3>3. CASE liveDur' = liveDur
      BY <1>1, <3>1, <3>3 DEF LifecycleInv, Told
    <3> QED  BY <1>1, <3>2, <3>3
  <2>2. TerminalSurvivesRestart' /\ (Terminal \in told' => (live'.k = "tomb" /\ liveDur'.k = "tomb") \/ (rec' /\ recDur'))
    BY <1>1, <1>3 DEF LifecycleInv, Told, TerminalSurvivesRestart, Terminal
  <2> QED  BY <2>1, <2>2 DEF Told, Terminal, Chain, Begins, Fp
<1> QED  BY <1>5, <1>6, <1>7, <1>8 DEF LifecycleInv

\* A recovery that fails bars the workspace.
LEMMA RecoveryFailsStep ==
  ASSUME LifecycleInv, recoveryFails
  PROVE  LifecycleInv'
<1>1. /\ task' = [t \in Tasks |-> Idle] /\ barred' = TRUE /\ mode' = "up"
      /\ UNCHANGED <<live, liveDur, rec, recDur, dir, synced, jrn, journaled, lease, told>> /\ SpentKept
  BY DEF recoveryFails, Fault, disk, SpentKept, LifecycleInv, Shapes
<1>2. /\ task' \in [Tasks -> TaskRecord]
      /\ Together' /\ TaskTies' /\ Apart'
  BY <1>1, AllIdle
<1>3. Shapes' /\ InvokeRoutesToPointer'
  BY <1>1, <1>2 DEF LifecycleInv, Shapes, SpentKept, IsSlot, InvokeRoutesToPointer
<1>4. Durable'
  BY <1>1 DEF LifecycleInv, Durable, TerminalRecordCovers, Present, SpentKept
<1>5. Told'
  BY <1>1 DEF LifecycleInv, Told, TerminalSurvivesRestart
<1> QED  BY <1>2, <1>3, <1>4, <1>5 DEF LifecycleInv

-----------------------------------------------------------------------------
(* The invariant.                                                          *)

\* The initial state satisfies every part.
LEMMA LifecycleInit == Init => LifecycleInv
<1> SUFFICES ASSUME Init
             PROVE  LifecycleInv
  OBVIOUS
<1> USE DEF Init
<1>1. \A u \in Tasks : task[u] = Idle
  OBVIOUS
<1>2. Shapes
  <2>1. task \in [Tasks -> TaskRecord]
    BY IdleTies
  <2>2. dir \in [Gens -> Content]
    BY DEF Content
  <2>3. lease \in [bound : BOOLEAN, epoch : Nat, gen : 0..MaxGen, invoke : Nat]
    BY WorkspaceAssumption
  <2> QED  BY <2>1, <2>2, <2>3 DEF Shapes, IsSlot
<1>3. Together
  BY <1>1, IdleTies DEF Together, Running, Builders, ExclusiveOps, Idle
<1>4. TaskTies
  BY <1>1, IdleTies DEF TaskTies
<1>5. Apart
  <2>1. \A u \in Tasks : ~Makes(task[u])
    BY <1>1, IdleTies
  <2> QED  BY <2>1 DEF Apart
<1>6. Durable
  <2>1. live.k = "none" /\ liveDur.k = "none" /\ Chain(live) = << >> /\ Chain(liveDur) = << >>
    BY SlotChain DEF IsSlot, NoSlot
  <2>2. Begins(Chain(liveDur), Chain(live))
    BY <2>1, EmptyFingerprint
  <2> QED  BY <2>1, <2>2 DEF Durable, TerminalRecordCovers
<1>7. Told /\ InvokeRoutesToPointer
  BY DEF Told, TerminalSurvivesRestart, InvokeRoutesToPointer, NoSlot
<1> QED  BY <1>2, <1>3, <1>4, <1>5, <1>6, <1>7 DEF LifecycleInv

\* Every step of an operation keeps the invariant.
LEMMA StepsKeep ==
  ASSUME LifecycleInv, NEW t \in Tasks, Steps(t)
  PROVE  LifecycleInv'
<1>1. CASE \/ readBase(t) \/ resolveManifestPaths(t) \/ fence(t) \/ assertExpectedBase(t)
           \/ assertAcceptedBase(t) \/ readLiveDisposition(t)
           \/ verifyRestoreProvenance(t) \/ assertTargetFree(t)
  BY <1>1, ReadBaseStep, PassStep, FenceStep, ExpectedBaseStep, AcceptedStep, TargetFreeStep
<1>2. CASE \/ makeCandidate(t) \/ copyCandidate(t) \/ verifyContained(t)
           \/ verifyRepositoryGraph(t) \/ computeManifestEntries(t) \/ attest(t)
  BY <1>2, MakeStep, CopyStep, PassStep, ManifestStep, AttestStep
<1>3. CASE \/ casLive(t) \/ writeTemp(t) \/ replaceLive(t) \/ flushParent(t)
           \/ journalPrepare(t) \/ journalCommit(t)
  BY <1>3, CasStep, PassStep, ReplaceStep, FlushStep, JournalPrepareStep, JournalCommitStep
<1>4. CASE \/ assertQuiescent(t) \/ computeDirtyBackup(t) \/ assertResidualProcessAbsence(t)
           \/ prepareTerminal(t) \/ recheckFence(t) \/ publishTombstone(t) \/ barTerminal(t)
           \/ clearTerminalPreparation(t)
  BY <1>4, PassStep, PrepareStep, RecheckStep, TombstoneStep, BarStep, ClearStep
<1> QED  BY <1>1, <1>2, <1>3, <1>4 DEF Steps

\* The invariant is inductive.
LEMMA LifecycleNext == LifecycleInv /\ [Next]_vars => LifecycleInv'
<1> SUFFICES ASSUME LifecycleInv, [Next]_vars
             PROVE  LifecycleInv'
  OBVIOUS
<1>1. CASE UNCHANGED vars
  <2>1. UNCHANGED <<live, liveDur, rec, recDur, dir, synced, jrn, journaled, task, lease, barred,
                    mode, claim, told, spent>>
    BY <1>1 DEF vars, disk
  <2> QED
    BY <2>1, LeaseStep DEF LifecycleInv, Shapes, disk
<1>2. ASSUME NEW t \in Tasks,
             \/ Steps(t) \/ StepFails(t)
             \/ WorkspaceCreate(t) \/ WorkspaceRefresh(t)
             \/ WorkspaceResetDelete(t) \/ WorkspaceRestoreMigration(t)
      PROVE  LifecycleInv'
  BY <1>2, StepsKeep, FailStep, RequestStep
<1>3. CASE (\E g \in Gens : Bind(g)) \/ Unbind \/ Invoke \/ InvokeEnds
  BY <1>3, BindingStep
<1>4. CASE Crash \/ PowerLoss \/ recoverWorkspaces \/ recoveryFails
  BY <1>4, CrashStep, PowerLossStep, RecoverStep, RecoveryFailsStep
<1> QED  BY <1>1, <1>2, <1>3, <1>4 DEF Next

\* The operations, the slot, the record, the journal and the candidate directories
\* stay tied together, in every interleaving and across every crash and power loss.
THEOREM LifecycleInvariant == Spec => []LifecycleInv
<1>1. Init => LifecycleInv
  BY LifecycleInit
<1>2. LifecycleInv /\ [Next]_vars => LifecycleInv'
  BY LifecycleNext
<1> QED  BY <1>1, <1>2, PTL DEF Spec

\* A reset or delete bars its workspace from its first write on, and for good: the
\* record is on the disk while the tombstone is not, and whatever was answered bars
\* the workspace whenever the daemon serves (runResetDelete, commitTerminal,
\* classifyGenerationRecovery).
THEOREM TerminalBarsAlways == Spec => []TerminalBars
<1>1. LifecycleInv => TypeOK
  <2> SUFFICES ASSUME LifecycleInv
               PROVE  TypeOK
    OBVIOUS
  <2>1. ASSUME NEW s, IsSlot(s), s.k # "none"
        PROVE  Len(Chain(s)) = s.gen /\ \A i \in 1..s.gen : Chain(s)[i][1] = i
    BY <2>1, SlotChain DEF Fingerprint
  <2>2. \A s \in {live, liveDur} : s.k # "none" =>
          Len(Chain(s)) = s.gen /\ \A i \in 1..s.gen : Chain(s)[i][1] = i
    BY <2>1 DEF LifecycleInv, Shapes
  <2> QED  BY <2>2 DEF LifecycleInv, Shapes, Together, Content, TypeOK
<1>2. LifecycleInv => TerminalBars
  BY <1>1 DEF LifecycleInv, Durable, Told, TerminalBars
<1> QED  BY <1>2, LifecycleInvariant, PTL

\* No invocation runs in a workspace whose slot holds a tombstone (the lease of an
\* exclusive operation, commitTerminal, Invoke).
THEOREM InvokeRoutesAlways == Spec => []InvokeRoutesToPointer
<1>1. LifecycleInv => InvokeRoutesToPointer
  BY DEF LifecycleInv
<1> QED  BY <1>1, LifecycleInvariant, PTL

\* What was reported as published is part of the chain power loss would leave, and
\* the live pointer's candidate directory holds what was verified (flushParent,
\* cleanupCandidate, makeCandidate).
THEOREM PublicationAlwaysKept == Spec => []PublicationKept
<1>1. LifecycleInv => ReportedPublicationDurable
  <2> SUFFICES ASSUME LifecycleInv, NEW r \in told, r.k = "ptr"
               PROVE  /\ Len(r.fp) <= Len(Chain(liveDur))
                      /\ SubSeq(Chain(liveDur), 1, Len(r.fp)) = r.fp
    BY DEF ReportedPublicationDurable
  <2>1. r.fp \in Fingerprint /\ Begins(r.fp, Chain(liveDur))
    BY DEF LifecycleInv, Told, Terminal
  <2>2. Chain(liveDur) \in Fingerprint
    BY SlotChain DEF LifecycleInv, Shapes
  <2> QED  BY <2>1, <2>2, BeginsIsCut
<1>2. LifecycleInv => PublishedGenerationPresent
  BY DEF LifecycleInv, Durable, Present, PublishedGenerationPresent
<1> QED  BY <1>1, <1>2, LifecycleInvariant, PTL DEF PublicationKept

\* A lease is held by an operation that runs, and by nothing else (finally).
THEOREM NoOrphanLeaseAlways == Spec => []NoOrphanLease
<1>1. LifecycleInv => NoOrphanLease
  <2> SUFFICES ASSUME LifecycleInv, NEW t \in Tasks, task[t].held # 0
               PROVE  Running(t)
    BY DEF NoOrphanLease
  <2>1. RecordOK(task[t])
    BY TaskKnown DEF LifecycleInv, Ties
  <2> QED  BY <2>1 DEF RecordOK, Idle, Running
<1> QED  BY <1>1, LifecycleInvariant, PTL

=============================================================================
