-------------------------- MODULE HostBindingProofs --------------------------
(***************************************************************************)
(* Proofs about module HostBinding, for any set of descriptors and any     *)
(* limits and bounds.                                                      *)
(*                                                                         *)
(* What the bot thinks of a binding and what the daemon knows of it are    *)
(* apart by the frames in flight, so the invariant speaks of every frame   *)
(* in both queues.  To the daemon go at most a bind and then an unbind of  *)
(* a binding (OutKept).  What comes back finds a binding the bot still has *)
(* (LiveFrames), since the unbind_ok, which lets it go, is the last frame  *)
(* about it (LastFrames): the daemon publishes nothing of a binding it has *)
(* retired.  A proof that was withdrawn has its negative frame behind the  *)
(* bind_ok (TellsBound), because admissionStale publishes in the same step *)
(* and a passed probe blocks no frame.                                     *)
(***************************************************************************)
EXTENDS HostBinding, FiniteSetTheorems, SequenceTheorems, TLAPS

-----------------------------------------------------------------------------
(* The inductive invariant.                                                *)

Routed == {"binding", "pending", "bound", "negative"}
BotTable == [Bind -> BotBinding \cup {None}]
DaemonTable == [Bind -> DaemonBinding]
BookType == [bot : BotTable, byDesc : [Desc -> 0 .. MaxBind], out : Seq(DaemonFrame)]

\* Bindings are numbered without a gap, and each descriptor leads to the binding
\* that carries its route.
BookKept(B, M) ==
    /\ \A b, c \in Bind : B[b].status # "none" /\ c <= b => B[c].status # "none"
    /\ \A d \in Desc : M[d] # 0 => B[M[d]].status \in Routed /\ B[M[d]].desc = d
    /\ \A b \in Bind : B[b].status \in Routed => M[B[b].desc] = b

\* The daemon knows bindings the bot has made, ends those the bot has unbound,
\* and has retired those the bot counts as ended.
PhaseKept(B, D) ==
    \A b \in Bind :
        /\ D[b].phase # "absent" => B[b].status # "none"
        /\ D[b].phase \in {"retiring", "retired"}
             => B[b].status \in {"unbinding", "tombstone"}
        /\ B[b].status = "tombstone" => D[b].phase = "retired"

\* To the daemon go a bind of a binding it does not know and an unbind of one it
\* has not ended, each once and in this order.
OutKept(B, D, O) ==
    /\ \A i \in 1 .. Len(O) :
          /\ O[i][1] = "bind" => /\ B[O[i][2]].status # "none"
                                 /\ D[O[i][2]].phase = "absent"
          /\ O[i][1] = "unbind" => /\ B[O[i][2]].status = "unbinding"
                                   /\ D[O[i][2]].phase \notin {"retiring", "retired"}
    /\ \A i, j \in 1 .. Len(O) :
          i < j /\ O[i][2] = O[j][2] /\ O[i][2] # 0
            => O[i][1] = "bind" /\ O[j][1] = "unbind"

\* A frame about a binding finds the bot waiting for it or routing through it ...
LiveFrames(B, D, q) ==
    \A i \in 1 .. Len(q) : q[i][1] # "host" =>
        /\ B[q[i][2]].status \notin {"none", "tombstone"}
        /\ D[q[i][2]].phase # "absent"

\* ... the unbind_ok is the last of its frames ...
LastFrames(B, D, q) ==
    \A i \in 1 .. Len(q) : q[i][1] = "unbind_ok" =>
        /\ B[q[i][2]].status = "unbinding" /\ D[q[i][2]].phase = "retired"
        /\ \A j \in 1 .. Len(q) : i < j => q[j][2] # q[i][2]

\* ... and a proof that was withdrawn is withdrawn by a frame after its bind_ok.
Withdrawn(b, q, i) == \E j \in 1 .. Len(q) : i < j /\ q[j] = <<"negative", b>>
TellsBound(B, D, q) ==
    /\ \A i \in 1 .. Len(q) : q[i][1] = "bind_ok" =>
          \/ B[q[i][2]].status = "unbinding" \/ D[q[i][2]].phase = "positive"
          \/ Withdrawn(q[i][2], q, i)
    /\ \A b \in Bind : B[b].status = "bound" =>
          D[b].phase = "positive" \/ Withdrawn(b, q, 0)

InKept(B, D, q) == LiveFrames(B, D, q) /\ LastFrames(B, D, q) /\ TellsBound(B, D, q)

\* A closed websocket leaves nothing behind, an open one only managed routes.
SocketKept ==
    /\ up => \A b \in Bind : bot[b].status \in Routed => bot[b].desc \in desired
    /\ ~up => /\ bot = [b \in Bind |-> None] /\ byDesc = [d \in Desc |-> 0]
              /\ dmn = Absent /\ toDaemon = <<>> /\ toBot = <<>>

HostInv ==
    /\ TypeOK /\ RoutesReconciled /\ SocketKept
    /\ probe # "failed" => \A b \in Bind : ~dmn[b].blocked
    /\ refused \notin {"none", "tombstone"}
    /\ BookKept(bot, byDesc) /\ PhaseKept(bot, dmn)
    /\ OutKept(bot, dmn, toDaemon) /\ InKept(bot, dmn, toBot)

-----------------------------------------------------------------------------
(* Finite sets put in order.                                               *)

\* A finite set is put in order without repetition and without loss.
LEMMA Ordered ==
    ASSUME NEW S, IsFiniteSet(S)
    PROVE  /\ Cardinality(S) \in Nat
           /\ SetToSeq(S) \in [1 .. Cardinality(S) -> S]
           /\ \A i, j \in 1 .. Cardinality(S) : SetToSeq(S)[i] = SetToSeq(S)[j] => i = j
           /\ \A x \in S : \E i \in 1 .. Cardinality(S) : SetToSeq(S)[i] = x
<1> DEFINE n == Cardinality(S)
<1>1. n \in Nat /\ ExistsBijection(1 .. n, S)
  BY FS_CardinalityType
<1>2. PICK f \in Bijection(1 .. n, S) : TRUE
  BY <1>1 DEF ExistsBijection
<1>3. f \in [1 .. n -> S] /\ IsInjective(f)
  BY <1>2 DEF Bijection, Injection, IsInjective
<1>4. SetToSeq(S) \in [1 .. n -> S] /\ IsInjective(SetToSeq(S))
  BY <1>3 DEF SetToSeq
<1>5. SetToSeq(S) \in Injection(1 .. n, S)
  BY <1>4 DEF Injection, IsInjective
<1>6. Cardinality(1 .. n) = n
  BY <1>1, FS_Interval
<1>7. SetToSeq(S) \in Surjection(1 .. n, S)
  BY <1>5, <1>6, FS_Injection
<1> QED
  BY <1>1, <1>4, <1>7 DEF Surjection, IsInjective

\* Each place of an order is taken by one of the numbers.
LEMMA Ranked ==
    ASSUME NEW S \in SUBSET Nat, IsFiniteSet(S), NEW i \in 1 .. Cardinality(S)
    PROVE  \E b \in S : Cardinality({c \in S : c <= b}) = i
<1> DEFINE n == Cardinality(S)
           below(b) == {c \in S : c <= b}
           rank == [b \in S |-> Cardinality(below(b))]
<1>1. n \in Nat
  BY FS_CardinalityType
<1>2. ASSUME NEW b \in S
      PROVE  IsFiniteSet(below(b)) /\ rank[b] \in 1 .. n
  <2>1. IsFiniteSet(below(b)) /\ Cardinality(below(b)) <= n
    BY FS_Subset
  <2>2. Cardinality(below(b)) \in Nat
    BY <2>1, FS_CardinalityType
  <2>3. Cardinality(below(b)) # 0
    BY <2>1, FS_EmptySet, b \in below(b)
  <2> QED
    BY <1>1, <2>1, <2>2, <2>3
<1>3. ASSUME NEW a \in S, NEW b \in S, a < b
      PROVE  rank[a] # rank[b]
  <2>1. below(a) \in SUBSET below(b)
    <3>1. \A c \in S : c <= a => c <= b
      BY <1>3
    <3> QED
      BY <3>1
  <2>2. below(a) # below(b)
    BY <1>3, b \in below(b), b \notin below(a)
  <2>3. Cardinality(below(b)) # Cardinality(below(a))
    BY <2>1, <2>2, <1>2, FS_Subset
  <2> QED
    BY <2>3
<1>4. rank \in Injection(S, 1 .. n)
  <2>1. rank \in [S -> 1 .. n]
    BY <1>2
  <2>2. \A a, b \in S : a # b => a < b \/ b < a
    OBVIOUS
  <2> HIDE DEF rank
  <2>3. \A a, b \in S : rank[a] = rank[b] => a = b
    BY <2>2, <1>3
  <2> QED
    BY <2>1, <2>3, Zenon DEF Injection, IsInjective
<1>5. Cardinality(1 .. n) = n /\ IsFiniteSet(1 .. n)
  BY <1>1, FS_Interval
<1>6. rank \in Surjection(S, 1 .. n)
  BY <1>4, <1>5, FS_Injection
<1> HIDE DEF rank
<1>7. \E b \in S : rank[b] = i
  BY <1>6 DEF Surjection
<1> QED
  BY <1>7 DEF rank
-----------------------------------------------------------------------------
(* The bot's book.                                                         *)

\* What the status of a binding says of its record.
LEMMA BotStatus ==
    ASSUME NEW B \in BotTable, NEW b \in Bind
    PROVE  /\ B[b].status \in {"none", "binding", "pending", "bound", "negative", "unbinding",
                               "tombstone"}
           /\ B[b] = None <=> B[b].status = "none"
           /\ B[b].status # "none" => B[b] \in BotBinding /\ B[b].desc \in Desc
  BY DEF BotTable, BotBinding, None

\* The bindings made are the first ones.
LEMMA UsedFirst ==
    ASSUME NEW k \in BookType, BookKept(k.bot, k.byDesc)
    PROVE  /\ Cardinality(Used(k)) \in 0 .. MaxBind
           /\ \A b \in Bind : k.bot[b].status # "none" <=> b <= Cardinality(Used(k))
<1> DEFINE U == Used(k)
           n == Cardinality(U)
<1>1. IsFiniteSet(U) /\ U \in SUBSET Bind /\ U \in SUBSET Nat /\ n \in Nat /\ n <= MaxBind
  <2>1. IsFiniteSet(Bind) /\ Cardinality(Bind) = MaxBind /\ Bind \subseteq Nat
    BY HostBindingAssumption, FS_Interval DEF Bind, HostBindingAssumption
  <2>2. U \in SUBSET Bind
    BY DEF Used
  <2> QED
    BY <2>1, <2>2, FS_Subset, FS_CardinalityType
<1>2. \A b \in Bind : b \in U <=> k.bot[b].status # "none"
  BY BotStatus DEF Used, BookType
<1>3. CASE n = 0
  <2>1. U = {}
    BY <1>1, <1>3, FS_EmptySet
  <2> QED
    BY <1>1, <1>2, <1>3, <2>1, HostBindingAssumption DEF Bind, HostBindingAssumption
<1>4. CASE n # 0
  <2>1. PICK m \in U : Cardinality({c \in U : c <= m}) = n
    <3>1. n \in 1 .. n
      BY <1>1, <1>4
    <3> QED
      BY <1>1, <3>1, Ranked
  <2>2. {c \in U : c <= m} = U
    <3>1. {c \in U : c <= m} \in SUBSET U
      OBVIOUS
    <3> QED
      BY <1>1, <2>1, <3>1, FS_Subset
  <2>3. \A b \in Bind : b \in U <=> b <= m
    <3>1. m \in Bind /\ k.bot[m].status # "none"
      BY <1>1, <1>2, <2>1
    <3>2. ASSUME NEW b \in Bind, b <= m
          PROVE  b \in U
      BY <3>1, <3>2, <1>2 DEF BookKept
    <3> QED
      BY <2>2, <3>2
  <2>4. U = 1 .. m
    <3>1. m \in Nat /\ m <= MaxBind
      BY <2>1, <1>1, HostBindingAssumption DEF Bind, HostBindingAssumption
    <3>2. \A b \in 1 .. m : b \in U
      BY <2>3, <3>1, HostBindingAssumption DEF Bind, HostBindingAssumption
    <3>3. \A b \in U : b \in 1 .. m
      BY <2>3, <3>1, <1>1, HostBindingAssumption DEF Bind, HostBindingAssumption
    <3> QED
      BY <3>2, <3>3
  <2>5. n = m
    BY <2>4, <2>1, <1>1, FS_Interval
  <2> QED
    BY <1>1, <1>2, <2>3, <2>5
<1> QED
  BY <1>3, <1>4

\* The first q items of s are those of r.
Extends(s, r) == Len(s) <= Len(r) /\ \A i \in 1 .. Len(s) : r[i] = s[i]

\* From the book k to the book j: what became of its bindings is what was sent.
Sends(k, j) ==
    /\ Extends(k.out, j.out)
    /\ \A i \in Len(k.out) + 1 .. Len(j.out) :
          /\ j.out[i][2] \in Bind
          /\ \/ /\ j.out[i][1] = "unbind"
                /\ k.bot[j.out[i][2]].status \in Routed
                /\ j.bot[j.out[i][2]].status = "unbinding"
             \/ /\ j.out[i][1] = "bind"
                /\ k.bot[j.out[i][2]].status = "none"
                /\ j.bot[j.out[i][2]].status = "binding"
    /\ \A i, l \in Len(k.out) + 1 .. Len(j.out) : j.out[i][2] = j.out[l][2] => i = l
    /\ \A b \in Bind :
          \/ j.bot[b] = k.bot[b]
          \/ k.bot[b].status \in Routed /\ j.bot[b].status = "unbinding"
          \/ k.bot[b].status = "none" /\ j.bot[b].status = "binding"

\* What the bot sends goes after what it has sent.
LEMMA Joined ==
    ASSUME NEW s \in Seq(DaemonFrame), NEW t \in Seq(DaemonFrame)
    PROVE  /\ s \o t \in Seq(DaemonFrame) /\ Len(s \o t) = Len(s) + Len(t)
           /\ \A i \in 1 .. Len(s) + Len(t) :
                 (s \o t)[i] = IF i <= Len(s) THEN s[i] ELSE t[i - Len(s)]
  BY ConcatProperties

\* Unbinding some bindings of the map.
LEMMA AllUnbound ==
    ASSUME NEW k \in BookType, BookKept(k.bot, k.byDesc), NEW S \in SUBSET InMap(k)
    PROVE  LET j == unbindAll(k, S)
           IN  /\ j \in BookType /\ BookKept(j.bot, j.byDesc) /\ Sends(k, j)
               /\ \A b \in Bind : b \notin S => j.bot[b] = k.bot[b]
               /\ \A b \in S : j.bot[b].status = "unbinding"
               /\ S = {} => j = k
<1> DEFINE j == unbindAll(k, S)
           n == Cardinality(S)
           new == [i \in 1 .. n |-> <<"unbind", SetToSeq(S)[i]>>]
<1>1. S \subseteq Bind /\ IsFiniteSet(S) /\ 0 \notin Bind
  <2>1. IsFiniteSet(Bind)
    BY HostBindingAssumption, FS_Interval DEF Bind, HostBindingAssumption
  <2>2. S \in SUBSET Bind
    BY DEF InMap
  <2>3. 0 \notin Bind
    BY HostBindingAssumption DEF Bind, HostBindingAssumption
  <2> QED
    BY <2>1, <2>2, <2>3, FS_Subset
<1>2. \A b \in S : k.bot[b].status \in Routed /\ k.bot[b] \in BotBinding
  <2>1. k.bot \in BotTable
    BY DEF BookType
  <2>2. ASSUME NEW b \in S
        PROVE  k.bot[b].status \in Routed
    <3>1. PICK d \in Desc : k.byDesc[d] = b
      BY DEF InMap
    <3> QED
      BY <1>1, <3>1 DEF BookKept
  <2>3. \A b \in S : k.bot[b].status # "none"
    BY <2>2 DEF Routed
  <2> QED
    BY <1>1, <2>1, <2>2, <2>3, BotStatus
<1>3. /\ n \in Nat /\ SetToSeq(S) \in [1 .. n -> S]
      /\ \A i, l \in 1 .. n : SetToSeq(S)[i] = SetToSeq(S)[l] => i = l
  BY <1>1, Ordered
<1>4. new \in Seq(DaemonFrame) /\ Len(new) = n
  <2>1. \A i \in 1 .. n : <<"unbind", SetToSeq(S)[i]>> \in DaemonFrame
    BY <1>1, <1>3 DEF DaemonFrame
  <2> QED
    BY <1>3, <2>1
<1>5. /\ j.bot = [b \in Bind |-> IF b \in S THEN unbindBinding(k.bot[b]) ELSE k.bot[b]]
      /\ j.byDesc = [d \in Desc |-> IF k.byDesc[d] \in S THEN 0 ELSE k.byDesc[d]]
      /\ j.out = k.out \o new
  BY DEF unbindAll
<1>6. /\ j.out \in Seq(DaemonFrame) /\ Len(j.out) = Len(k.out) + n /\ Len(k.out) \in Nat
      /\ \A i \in 1 .. Len(k.out) : j.out[i] = k.out[i]
      /\ \A i \in Len(k.out) + 1 .. Len(j.out) : j.out[i] = new[i - Len(k.out)]
  <2>1. k.out \in Seq(DaemonFrame)
    BY DEF BookType
  <2> HIDE DEF new
  <2> QED
    BY <1>4, <1>5, <2>1, <1>3, ConcatProperties
<1>7. \A b \in Bind : /\ b \in S => /\ j.bot[b].status = "unbinding"
                                    /\ j.bot[b].desc = k.bot[b].desc /\ j.bot[b] \in BotBinding
                      /\ b \notin S => j.bot[b] = k.bot[b]
  BY <1>2, <1>5 DEF unbindBinding, BotBinding
<1>8. j \in BookType
  <2>1. j.bot \in BotTable
    BY <1>5, <1>7 DEF BookType, BotTable
  <2>2. j.byDesc \in [Desc -> 0 .. MaxBind]
    BY <1>5, HostBindingAssumption DEF BookType, HostBindingAssumption
  <2> QED
    BY <2>1, <2>2, <1>6 DEF BookType, unbindAll
<1>9. BookKept(j.bot, j.byDesc)
  <2>1. k.byDesc \in [Desc -> 0 .. MaxBind] /\ k.bot \in BotTable
    BY DEF BookType
  <2>2. \A d \in Desc : k.byDesc[d] # 0 => k.byDesc[d] \in Bind
    BY <2>1, HostBindingAssumption DEF Bind, HostBindingAssumption
  <2>3. \A d \in Desc : j.byDesc[d] = IF k.byDesc[d] \in S THEN 0 ELSE k.byDesc[d]
    BY <1>5
  <2>4. \A b \in Bind : j.bot[b].status \in Routed => b \notin S
    BY <1>7 DEF Routed
  <2>5. ASSUME NEW b \in Bind, NEW c \in Bind, j.bot[b].status # "none", c <= b
        PROVE  j.bot[c].status # "none"
    BY <2>5, <1>7, <1>2 DEF BookKept, Routed
  <2>6. ASSUME NEW d \in Desc, j.byDesc[d] # 0
        PROVE  j.bot[j.byDesc[d]].status \in Routed /\ j.bot[j.byDesc[d]].desc = d
    BY <2>6, <2>2, <2>3, <1>7 DEF BookKept
  <2>7. ASSUME NEW b \in Bind, j.bot[b].status \in Routed
        PROVE  j.byDesc[j.bot[b].desc] = b
    <3>1. j.bot[b] = k.bot[b] /\ b \notin S
      BY <2>7, <2>4, <1>7
    <3>2. k.bot[b].desc \in Desc
      BY <2>1, <2>7, <3>1, BotStatus DEF Routed
    <3> QED
      BY <2>7, <3>1, <3>2, <2>3 DEF BookKept
  <2> QED
    BY <2>5, <2>6, <2>7 DEF BookKept
<1>10. Sends(k, j)
  <2>1. Extends(k.out, j.out)
    BY <1>6, <1>3 DEF Extends
  <2>2. ASSUME NEW i \in Len(k.out) + 1 .. Len(j.out)
        PROVE  /\ j.out[i][1] = "unbind" /\ j.out[i][2] = SetToSeq(S)[i - Len(k.out)]
               /\ i - Len(k.out) \in 1 .. n /\ j.out[i][2] \in S
    <3>1. i - Len(k.out) \in 1 .. n
      BY <1>6, <1>3
    <3>2. new[i - Len(k.out)] = <<"unbind", SetToSeq(S)[i - Len(k.out)]>>
      BY <3>1
    <3> HIDE DEF new, j
    <3>3. j.out[i] = new[i - Len(k.out)]
      BY <1>6
    <3> QED
      BY <3>1, <3>2, <3>3, <1>3
  <2>3. \A i, l \in Len(k.out) + 1 .. Len(j.out) : j.out[i][2] = j.out[l][2] => i = l
    BY <2>2, <1>3, <1>6
  <2> HIDE DEF j
  <2> QED
    BY <2>1, <2>2, <2>3, <1>1, <1>2, <1>7 DEF Sends
<1>11. ASSUME S = {}
       PROVE  j = k
  <2>1. n = 0 /\ new = <<>>
    BY <1>11, FS_EmptySet
  <2>2. j.out = k.out
    <3>1. k.out \in Seq(DaemonFrame)
      BY DEF BookType
    <3> HIDE DEF new
    <3> QED
      BY <1>5, <2>1, <3>1, ConcatEmptySeq
  <2>3. j.bot = k.bot /\ j.byDesc = k.byDesc
    BY <1>5, <1>11 DEF BookType, BotTable
  <2> QED
    BY <1>8, <2>2, <2>3 DEF BookType
<1> HIDE DEF j
<1>12. /\ \A b \in Bind : b \notin S => j.bot[b] = k.bot[b]
       /\ \A b \in S : j.bot[b].status = "unbinding"
  BY <1>1, <1>7
<1> QED
  BY <1>8, <1>9, <1>10, <1>11, <1>12 DEF j

\* Binding some descriptors that lead nowhere, as far as there is room.
LEMMA AllBound ==
    ASSUME NEW k \in BookType, BookKept(k.bot, k.byDesc), NEW S \in SUBSET Desc,
           \A d \in S : k.byDesc[d] = 0
    PROVE  LET j == bindAll(k, S)
           IN  /\ j \in BookType /\ BookKept(j.bot, j.byDesc) /\ Sends(k, j)
               /\ \A b \in Bind :
                     \/ j.bot[b] = k.bot[b]
                     \/ j.bot[b].status = "binding" /\ j.bot[b].desc \in S
               /\ \A d \in Desc : k.byDesc[d] # 0 => j.byDesc[d] # 0
               /\ Cardinality(Used(j)) < MaxBind => \A d \in S : j.byDesc[d] # 0
<1> DEFINE j == bindAll(k, S)
           n == Cardinality(Used(k))
           c == Cardinality(S)
           m == IF c <= MaxBind - n THEN c ELSE MaxBind - n
           order == SetToSeq(S)
           new(d) == {i \in 1 .. m : order[i] = d}
           sent == [i \in 1 .. m |-> <<"bind", n + i>>]
<1>1. /\ IsFiniteSet(S) /\ c \in Nat /\ order \in [1 .. c -> S]
      /\ \A i, l \in 1 .. c : order[i] = order[l] => i = l
      /\ \A d \in S : \E i \in 1 .. c : order[i] = d
  <2>1. IsFiniteSet(S)
    BY HostBindingAssumption, FS_Subset DEF HostBindingAssumption
  <2> QED
    BY <2>1, Ordered
<1>2. /\ n \in 0 .. MaxBind /\ MaxBind \in Nat
      /\ \A b \in Bind : k.bot[b].status # "none" <=> b <= n
  BY UsedFirst, HostBindingAssumption DEF HostBindingAssumption
<1>3. m \in Nat /\ m <= c /\ n + m <= MaxBind /\ (n + m < MaxBind => m = c)
  BY <1>1, <1>2
<1>4. k.bot \in BotTable /\ k.byDesc \in [Desc -> 0 .. MaxBind] /\ k.out \in Seq(DaemonFrame)
  BY DEF BookType
<1>5. /\ j.bot = [b \in Bind |-> IF b \in n + 1 .. n + m THEN bindWorkspace(order[b - n])
                                 ELSE k.bot[b]]
      /\ j.byDesc = [d \in Desc |-> IF new(d) # {} THEN n + (CHOOSE i \in new(d) : TRUE)
                                    ELSE k.byDesc[d]]
      /\ j.out = k.out \o sent
      /\ j = [bot |-> j.bot, byDesc |-> j.byDesc, out |-> j.out]
  BY DEF bindAll
<1>6. \A d \in Desc : new(d) # {} =>
          /\ (CHOOSE i \in new(d) : TRUE) \in 1 .. m
          /\ order[CHOOSE i \in new(d) : TRUE] = d /\ d \in S
  <2>1. ASSUME NEW d \in Desc, new(d) # {}
        PROVE  (CHOOSE i \in new(d) : TRUE) \in new(d)
    BY <2>1
  <2> QED
    BY <2>1, <1>1, <1>3
<1>7. \A i \in 1 .. m : order[i] \in S /\ n + i \in Bind
  BY <1>1, <1>2, <1>3 DEF Bind
<1>8. \A b \in Bind :
        /\ b \in n + 1 .. n + m => /\ j.bot[b] \in BotBinding /\ j.bot[b].status = "binding"
                                   /\ b - n \in 1 .. m /\ j.bot[b].desc = order[b - n]
                                   /\ order[b - n] \in S
                                   /\ k.bot[b].status = "none"
        /\ b \notin n + 1 .. n + m => j.bot[b] = k.bot[b]
  <2>1. ASSUME NEW b \in Bind, b \in n + 1 .. n + m
        PROVE  /\ j.bot[b] = bindWorkspace(order[b - n])
               /\ b - n \in 1 .. m /\ order[b - n] \in S /\ ~(b <= n)
    <3>1. b - n \in 1 .. m /\ ~(b <= n)
      BY <2>1, <1>2, <1>3
    <3> HIDE DEF m, order
    <3> QED
      BY <2>1, <3>1, <1>5, <1>7
  <2>2. \A d \in Desc : bindWorkspace(d) \in BotBinding
                        /\ bindWorkspace(d).status = "binding" /\ bindWorkspace(d).desc = d
    BY DEF bindWorkspace, BotBinding
  <2>3. \A b \in Bind : b \notin n + 1 .. n + m => j.bot[b] = k.bot[b]
    BY <1>5
  <2> HIDE DEF j, m, n, order
  <2> QED
    BY <1>2, <2>1, <2>2, <2>3
<1>9. \A d \in Desc :
        /\ new(d) # {} => /\ j.byDesc[d] \in n + 1 .. n + m /\ j.byDesc[d] \in Bind
                          /\ order[j.byDesc[d] - n] = d /\ d \in S
        /\ new(d) = {} => j.byDesc[d] = k.byDesc[d]
  <2>1. ASSUME NEW d \in Desc, new(d) # {}
        PROVE  /\ j.byDesc[d] \in n + 1 .. n + m /\ j.byDesc[d] \in Bind
               /\ order[j.byDesc[d] - n] = d
    <3> DEFINE i == CHOOSE i \in new(d) : TRUE
    <3>1. j.byDesc[d] = n + i
      BY <2>1, <1>5
    <3>2. i \in 1 .. m /\ order[i] = d
      BY <2>1, <1>6
    <3> HIDE DEF i, m, order, n, j
    <3> QED
      BY <3>1, <3>2, <1>2, <1>3 DEF Bind
  <2>2. ASSUME NEW d \in Desc, new(d) = {}
        PROVE  j.byDesc[d] = k.byDesc[d]
    BY <2>2, <1>5
  <2>3. \A d \in Desc : new(d) # {} => d \in S
    BY <1>6
  <2> HIDE DEF j, m, n, order
  <2> QED
    BY <2>1, <2>2, <2>3
<1> HIDE DEF j, m, order
<1>10. j \in BookType
  <2>1. j.bot \in BotTable
    <3>1. \A b \in Bind : j.bot[b] \in BotBinding \cup {None}
      BY <1>4, <1>8 DEF BotTable
    <3> QED
      BY <1>5, <3>1 DEF BotTable
  <2>2. j.byDesc \in [Desc -> 0 .. MaxBind]
    <3>1. \A d \in Desc : j.byDesc[d] \in 0 .. MaxBind
      BY <1>4, <1>9 DEF Bind
    <3> QED
      BY <1>5, <3>1
  <2>3. j.out \in Seq(DaemonFrame)
    <3>1. \A i \in 1 .. m : <<"bind", n + i>> \in DaemonFrame
      BY <1>7 DEF DaemonFrame
    <3>2. sent \in Seq(DaemonFrame)
      BY <3>1, <1>3
    <3> HIDE DEF sent
    <3> QED
      BY <1>4, <1>5, <3>2, ConcatProperties
  <2> QED
    BY <1>5, <2>1, <2>2, <2>3 DEF BookType
<1>11. \A b \in Bind : j.bot[b].status # "none" <=> b <= n + m
  <2>1. \A b \in Bind : b \in Nat /\ b >= 1
    BY DEF Bind
  <2> HIDE DEF n
  <2>2. ASSUME NEW b \in Bind
        PROVE  j.bot[b].status # "none" <=> b <= n + m
    <3>1. CASE b \in n + 1 .. n + m
      BY <3>1, <1>8, <1>2, <1>3, <2>1
    <3>2. CASE b \notin n + 1 .. n + m
      BY <3>2, <1>8, <1>2, <1>3, <2>1
    <3> QED
      BY <3>1, <3>2
  <2> QED
    BY <2>2
<1>12. BookKept(j.bot, j.byDesc)
  <2>1. \A b, d \in Bind : j.bot[b].status # "none" /\ d <= b => j.bot[d].status # "none"
    BY <1>11, <1>2, <1>3 DEF Bind
  <2>2. ASSUME NEW d \in Desc, j.byDesc[d] # 0
        PROVE  j.bot[j.byDesc[d]].status \in Routed /\ j.bot[j.byDesc[d]].desc = d
    <3>1. CASE new(d) # {}
      BY <3>1, <1>8, <1>9 DEF Routed
    <3>2. CASE new(d) = {}
      <4>1. j.byDesc[d] = k.byDesc[d] /\ k.byDesc[d] \in Bind
        BY <1>2, <1>4, <1>9, <2>2, <3>2 DEF Bind
      <4>2. k.bot[k.byDesc[d]].status \in Routed /\ k.bot[k.byDesc[d]].desc = d
        BY <2>2, <4>1 DEF BookKept
      <4>3. k.byDesc[d] \notin n + 1 .. n + m
        BY <4>1, <4>2, <1>8 DEF Routed
      <4> QED
        BY <4>1, <4>2, <4>3, <1>8
    <3> QED
      BY <3>1, <3>2
  <2>3. ASSUME NEW b \in Bind, j.bot[b].status \in Routed
        PROVE  j.byDesc[j.bot[b].desc] = b
    <3>1. CASE b \in n + 1 .. n + m
      <4>1. PICK d \in S : d = j.bot[b].desc /\ d = order[b - n] /\ b - n \in 1 .. m
        BY <3>1, <1>8
      <4>2. new(d) # {} /\ d \in Desc
        BY <4>1
      <4>3. j.byDesc[d] - n \in 1 .. m /\ order[j.byDesc[d] - n] = d /\ j.byDesc[d] \in Bind
        BY <4>2, <1>9, <1>2, <1>3 DEF Bind
      <4>4. j.byDesc[d] - n = b - n
        BY <4>1, <4>3, <1>1, <1>3
      <4> QED
        BY <4>1, <4>3, <4>4, <1>2 DEF Bind
    <3>2. CASE b \notin n + 1 .. n + m
      <4>1. j.bot[b] = k.bot[b] /\ k.bot[b].desc \in Desc
        BY <3>2, <2>3, <1>4, <1>8, BotStatus DEF Routed
      <4>2. k.byDesc[k.bot[b].desc] = b
        BY <2>3, <4>1 DEF BookKept
      <4>3. b # 0
        BY DEF Bind
      <4>4. k.bot[b].desc \notin S
        BY <4>2, <4>3
      <4> QED
        BY <4>1, <4>2, <4>4, <1>9
    <3> QED
      BY <3>1, <3>2
  <2> QED
    BY <2>1, <2>2, <2>3 DEF BookKept
<1>13. Sends(k, j)
  <2>1. sent \in Seq(DaemonFrame) /\ Len(sent) = m
    <3>1. \A i \in 1 .. m : <<"bind", n + i>> \in DaemonFrame
      BY <1>7 DEF DaemonFrame
    <3> QED
      BY <3>1, <1>3
  <2>2. \A i \in 1 .. m : sent[i] = <<"bind", n + i>>
    OBVIOUS
  <2> HIDE DEF sent, n
  <2>3. /\ Len(j.out) = Len(k.out) + m /\ Len(k.out) \in Nat
        /\ \A i \in 1 .. Len(k.out) : j.out[i] = k.out[i]
        /\ \A i \in Len(k.out) + 1 .. Len(j.out) : j.out[i] = sent[i - Len(k.out)]
    <3>1. /\ Len(j.out) = Len(k.out) + Len(sent) /\ Len(k.out) \in Nat
          /\ \A i \in 1 .. Len(k.out) + Len(sent) :
                j.out[i] = IF i <= Len(k.out) THEN k.out[i] ELSE sent[i - Len(k.out)]
      <4>1. j.out = k.out \o sent
        BY <1>5
      <4>2. k.out \in Seq(DaemonFrame) /\ Len(k.out) \in Nat
        BY <1>4, LenProperties
      <4> QED
        <5> HIDE DEF new, c
        <5>1. /\ Len(k.out \o sent) = Len(k.out) + Len(sent)
              /\ \A i \in 1 .. Len(k.out) + Len(sent) :
                    (k.out \o sent)[i] = IF i <= Len(k.out) THEN k.out[i]
                                         ELSE sent[i - Len(k.out)]
          BY <2>1, <4>2, Joined
        <5> QED
          BY <4>1, <4>2, <5>1
    <3>2. Len(j.out) = Len(k.out) + m
      BY <3>1, <2>1
    <3>3. ASSUME NEW i \in 1 .. Len(k.out)
          PROVE  j.out[i] = k.out[i]
      BY <3>1, <2>1, <1>3
    <3>4. ASSUME NEW i \in Len(k.out) + 1 .. Len(j.out)
          PROVE  j.out[i] = sent[i - Len(k.out)]
      BY <3>1, <3>2, <2>1, <1>3
    <3> QED
      BY <3>1, <3>2, <3>3, <3>4
  <2>4. Extends(k.out, j.out)
    BY <1>3, <2>3 DEF Extends
  <2>5. ASSUME NEW i \in Len(k.out) + 1 .. Len(j.out)
        PROVE  /\ j.out[i] = <<"bind", n + (i - Len(k.out))>>
               /\ n + (i - Len(k.out)) \in n + 1 .. n + m
               /\ n + (i - Len(k.out)) \in Bind
    <3>1. i - Len(k.out) \in 1 .. m
      BY <1>3, <2>3
    <3>2. j.out[i] = <<"bind", n + (i - Len(k.out))>>
      BY <3>1, <2>2, <2>3
    <3>3. n + (i - Len(k.out)) \in Bind
      BY <3>1, <1>7
    <3>4. \A x \in 1 .. m : n + x \in n + 1 .. n + m
      <4>1. n \in Int /\ m \in Int
        BY <1>2, <1>3
      <4> QED
        BY <4>1
    <3> QED
      BY <3>1, <3>2, <3>3, <3>4
  <2>6. ASSUME NEW i \in Len(k.out) + 1 .. Len(j.out), NEW l \in Len(k.out) + 1 .. Len(j.out),
               j.out[i][2] = j.out[l][2]
        PROVE  i = l
    <3> DEFINE o == Len(k.out)
    <3>1. n + (i - o) = n + (l - o)
      BY <2>5, <2>6
    <3>2. i \in Int /\ l \in Int /\ n \in Int /\ o \in Int
      BY <1>2, <1>3, <2>3
    <3> HIDE DEF o
    <3>3. \A x, y \in Int : n + (x - o) = n + (y - o) => x = y
      BY <3>2
    <3> QED
      BY <3>1, <3>2, <3>3
  <2>7. \A b \in Bind :
          \/ j.bot[b] = k.bot[b]
          \/ k.bot[b].status = "none" /\ j.bot[b].status = "binding"
    BY <1>8
  <2>8. ASSUME NEW i \in Len(k.out) + 1 .. Len(j.out)
        PROVE  /\ j.out[i][2] \in Bind /\ j.out[i][1] = "bind"
               /\ k.bot[j.out[i][2]].status = "none"
               /\ j.bot[j.out[i][2]].status = "binding"
    BY <2>5, <1>8
  <2> QED
    BY <2>4, <2>6, <2>7, <2>8 DEF Sends
<1>14. Cardinality(Used(j)) < MaxBind => \A d \in S : j.byDesc[d] # 0
  <2> DEFINE u == Cardinality(Used(j))
  <2>1. u \in 0 .. MaxBind /\ \A b \in Bind : j.bot[b].status # "none" <=> b <= u
    BY <1>10, <1>12, UsedFirst
  <2> HIDE DEF u, n
  <2>2. \A b \in Bind : b <= u <=> b <= n + m
    BY <1>11, <2>1
  <2>3. u = n + m
    <3>1. CASE u < n + m
      BY <3>1, <2>1, <2>2, <1>2, <1>3, n + m \in Bind DEF Bind
    <3>2. CASE u > n + m
      BY <3>2, <2>1, <2>2, <1>2, <1>3, u \in Bind DEF Bind
    <3> QED
      BY <3>1, <3>2, <2>1, <1>2, <1>3
  <2>4. ASSUME u < MaxBind, NEW d \in S
        PROVE  j.byDesc[d] # 0
    <3>1. m = c
      BY <2>3, <2>4, <1>3
    <3>2. new(d) # {}
      BY <1>1, <3>1
    <3>3. d \in Desc
      OBVIOUS
    <3> QED
      BY <3>2, <3>3, <1>9 DEF Bind
  <2> QED
    BY <2>4 DEF u
<1>15. \A d \in Desc : k.byDesc[d] # 0 => j.byDesc[d] # 0
  <2>1. 0 \notin Bind
    BY DEF Bind
  <2> QED
    BY <2>1, <1>9
<1>16. \A b \in Bind :
          \/ j.bot[b] = k.bot[b]
          \/ j.bot[b].status = "binding" /\ j.bot[b].desc \in S
  BY <1>8
<1> QED
  BY <1>10, <1>12, <1>13, <1>14, <1>15, <1>16 DEF j

\* The bot's reconciliation, whatever it finds.
LEMMA Reconciled ==
    ASSUME NEW k \in BookType, BookKept(k.bot, k.byDesc), NEW want \in SUBSET Desc
    PROVE  LET j == reconcileManagedBindings(k, want)
           IN  /\ j \in BookType /\ BookKept(j.bot, j.byDesc) /\ Sends(k, j)
               /\ \A b \in Bind : j.bot[b].status \in Routed => j.bot[b].desc \in want
               /\ Cardinality(Used(j)) < MaxBind
                    /\ ~(\E b \in Bind : j.bot[b].status = "unbinding")
                  => \A d \in want : j.byDesc[d] # 0
<1> DEFINE gone == {b \in InMap(k) : k.bot[b].desc \notin want}
           h == unbindAll(k, gone)
           rest == {d \in want : h.byDesc[d] = 0}
           j == reconcileManagedBindings(k, want)
           waits == \E b \in Used(h) : h.bot[b].status = "unbinding"
<1>1. gone \in SUBSET InMap(k) /\ gone \subseteq Bind
  BY DEF InMap
<1>2. /\ h \in BookType /\ BookKept(h.bot, h.byDesc) /\ Sends(k, h)
      /\ \A b \in Bind : b \notin gone => h.bot[b] = k.bot[b]
      /\ \A b \in gone : h.bot[b].status = "unbinding"
      /\ gone = {} => h = k
  <2> HIDE DEF gone
  <2> QED
    BY <1>1, AllUnbound
<1>3. j = IF waits THEN h ELSE bindAll(h, rest)
  BY DEF reconcileManagedBindings
<1>4. k.bot \in BotTable /\ h.bot \in BotTable
  BY <1>2 DEF BookType
<1>5. \A b \in Bind : h.bot[b].status \in Routed => h.bot[b].desc \in want
  <2>1. ASSUME NEW b \in Bind, h.bot[b].status \in Routed
        PROVE  h.bot[b].desc \in want
    <3>1. b \notin gone
      BY <1>2, <2>1 DEF Routed
    <3>2. h.bot[b] = k.bot[b] /\ k.bot[b].desc \in Desc
      BY <1>2, <1>4, <2>1, <3>1, BotStatus DEF Routed
    <3>3. k.byDesc[k.bot[b].desc] = b
      BY <2>1, <3>2 DEF BookKept
    <3>4. b \in InMap(k)
      BY <3>2, <3>3 DEF InMap
    <3> QED
      BY <3>1, <3>2, <3>4
  <2> QED
    BY <2>1
<1>6. waits <=> \E b \in Bind : h.bot[b].status = "unbinding"
  BY <1>4, BotStatus DEF Used
<1> HIDE DEF gone, h, j
<1>7. CASE waits
  BY <1>2, <1>3, <1>5, <1>6, <1>7 DEF j
<1>8. CASE ~waits
  <2>1. h = k
    BY <1>1, <1>2, <1>6, <1>8
  <2>2. rest \in SUBSET Desc /\ \A d \in rest : h.byDesc[d] = 0
    OBVIOUS
  <2>3. j = bindAll(h, rest)
    BY <1>3, <1>8
  <2> HIDE DEF rest
  <2>4. /\ j \in BookType /\ BookKept(j.bot, j.byDesc) /\ Sends(h, j)
        /\ \A b \in Bind :
              \/ j.bot[b] = h.bot[b]
              \/ j.bot[b].status = "binding" /\ j.bot[b].desc \in rest
        /\ \A d \in Desc : h.byDesc[d] # 0 => j.byDesc[d] # 0
        /\ Cardinality(Used(j)) < MaxBind => \A d \in rest : j.byDesc[d] # 0
    BY <1>2, <2>2, <2>3, AllBound
  <2>5. \A b \in Bind : j.bot[b].status \in Routed => j.bot[b].desc \in want
    BY <1>5, <2>4 DEF rest
  <2>6. Cardinality(Used(j)) < MaxBind => \A d \in want : j.byDesc[d] # 0
    BY <2>4 DEF rest
  <2> QED
    BY <2>1, <2>4, <2>5, <2>6 DEF j
<1> QED
  BY <1>7, <1>8

\* What kinds of frame there are.
LEMMA FrameKinds ==
    ASSUME NEW f
    PROVE  /\ f \in DaemonFrame =>
                 \/ f[1] = "register_ok" /\ f[2] = 0
                 \/ f[1] \in {"bind", "unbind"} /\ f[2] \in Bind
           /\ f \in BotFrame =>
                 \/ f[1] = "host" /\ f[2] = 0
                 \/ /\ f[1] \in {"pending", "negative", "positive", "bind_ok", "unbind_ok"}
                    /\ f[2] \in Bind
           /\ 0 \notin Bind
  BY HostBindingAssumption DEF DaemonFrame, BotFrame, Bind, HostBindingAssumption

\* A reconciled book leaves the frames in flight as they have to be.
LEMMA SentKept ==
    ASSUME NEW k \in BookType, NEW j \in BookType, Sends(k, j), NEW D \in DaemonTable,
           NEW q \in Seq(BotFrame), PhaseKept(k.bot, D), OutKept(k.bot, D, k.out),
           InKept(k.bot, D, q)
    PROVE  PhaseKept(j.bot, D) /\ OutKept(j.bot, D, j.out) /\ InKept(j.bot, D, q)
<1> DEFINE n == Len(k.out)
           l == Len(j.out)
<1>1. \A b \in Bind :
          \/ j.bot[b].status = k.bot[b].status
          \/ k.bot[b].status \in Routed /\ j.bot[b].status = "unbinding"
          \/ k.bot[b].status = "none" /\ j.bot[b].status = "binding"
  BY DEF Sends
<1>2. PhaseKept(j.bot, D)
  BY <1>1 DEF PhaseKept, Routed
<1>3. /\ n \in Nat /\ l \in Nat /\ n <= l /\ \A i \in 1 .. n : j.out[i] = k.out[i]
      /\ \A i \in 1 .. n : k.out[i] \in DaemonFrame
  <2>1. k.out \in Seq(DaemonFrame) /\ j.out \in Seq(DaemonFrame)
    BY DEF BookType
  <2> QED
    BY <2>1, LenProperties, ElementOfSeq DEF Sends, Extends
<1>4. \A i \in n + 1 .. l :
          /\ j.out[i][2] \in Bind
          /\ \/ /\ j.out[i][1] = "unbind"
                /\ k.bot[j.out[i][2]].status \in Routed
                /\ j.bot[j.out[i][2]].status = "unbinding"
             \/ /\ j.out[i][1] = "bind"
                /\ k.bot[j.out[i][2]].status = "none"
                /\ j.bot[j.out[i][2]].status = "binding"
  BY DEF Sends
<1>5. \A i \in 1 .. l : i \in 1 .. n \/ i \in n + 1 .. l
  BY <1>3
<1>6. \A i, m \in n + 1 .. l : j.out[i][2] = j.out[m][2] => i = m
  BY DEF Sends
<1>7. \A i \in 1 .. n :
          /\ j.out[i][1] = "bind" => /\ k.bot[j.out[i][2]].status # "none"
                                     /\ D[j.out[i][2]].phase = "absent"
          /\ j.out[i][1] = "unbind" => /\ k.bot[j.out[i][2]].status = "unbinding"
                                       /\ D[j.out[i][2]].phase \notin {"retiring", "retired"}
          /\ \/ j.out[i][1] = "register_ok" /\ j.out[i][2] = 0
             \/ j.out[i][1] \in {"bind", "unbind"} /\ j.out[i][2] \in Bind
  BY <1>3, FrameKinds DEF OutKept
<1>8. OutKept(j.bot, D, j.out)
  <2>1. ASSUME NEW i \in 1 .. l
        PROVE  /\ j.out[i][1] = "bind" => /\ j.bot[j.out[i][2]].status # "none"
                                          /\ D[j.out[i][2]].phase = "absent"
               /\ j.out[i][1] = "unbind" => /\ j.bot[j.out[i][2]].status = "unbinding"
                                            /\ D[j.out[i][2]].phase \notin {"retiring", "retired"}
    <3>1. CASE i \in 1 .. n
      BY <3>1, <1>1, <1>7 DEF Routed
    <3>2. CASE i \in n + 1 .. l
      <4> DEFINE b == j.out[i][2]
      <4>2. b \in Bind
        BY <1>4, <3>2
      <4> HIDE DEF b
      <4>3. k.bot[b].status \in Routed => D[b].phase \notin {"retiring", "retired"}
        BY <4>2 DEF PhaseKept, Routed
      <4>4. k.bot[b].status = "none" => D[b].phase = "absent"
        BY <4>2 DEF PhaseKept
      <4> QED
        BY <1>4, <3>2, <4>3, <4>4 DEF b
    <3> QED
      BY <3>1, <3>2, <1>5
  <2>2. ASSUME NEW i \in 1 .. l, NEW m \in 1 .. l, i < m, j.out[i][2] = j.out[m][2],
               j.out[i][2] # 0
        PROVE  j.out[i][1] = "bind" /\ j.out[m][1] = "unbind"
    <3>1. CASE m \in 1 .. n
      <4>1. i \in 1 .. n
        BY <2>2, <3>1
      <4>2. j.out[i] = k.out[i] /\ j.out[m] = k.out[m]
        BY <1>3, <3>1, <4>1
      <4> QED
        BY <2>2, <3>1, <4>1, <4>2 DEF OutKept
    <3>2. CASE m \in n + 1 .. l /\ i \in 1 .. n
      <4>1. j.out[i][1] = "bind" => k.bot[j.out[m][2]].status # "none"
        BY <1>7, <2>2, <3>2
      <4>2. j.out[i][1] = "unbind" => k.bot[j.out[m][2]].status = "unbinding"
        BY <1>7, <2>2, <3>2
      <4>3. j.out[i][1] \in {"bind", "unbind"}
        BY <1>7, <2>2, <3>2
      <4> QED
        BY <1>4, <3>2, <4>1, <4>2, <4>3 DEF Routed
    <3>3. CASE m \in n + 1 .. l /\ i \in n + 1 .. l
      BY <3>3, <2>2, <1>6, <1>3
    <3> QED
      BY <3>1, <3>2, <3>3, <1>5
  <2> QED
    BY <2>1, <2>2 DEF OutKept
<1>9. InKept(j.bot, D, q)
  <2>1. \A i \in 1 .. Len(q) : q[i][1] # "host" => q[i][2] \in Bind
    BY ElementOfSeq, FrameKinds
  <2>2. LiveFrames(j.bot, D, q)
    BY <1>1, <2>1 DEF InKept, LiveFrames, Routed
  <2>3. LastFrames(j.bot, D, q)
    BY <1>1, <2>1 DEF InKept, LastFrames, Routed
  <2>4. \A i \in 1 .. Len(q) : q[i][1] = "bind_ok" => q[i][2] \in Bind
    BY <2>1
  <2>5. TellsBound(j.bot, D, q)
    BY <1>1, <2>4 DEF InKept, TellsBound, Routed
  <2> QED
    BY <2>2, <2>3, <2>5 DEF InKept
<1> QED
  BY <1>2, <1>8, <1>9

ReadinessKinds == {"pending", "negative", "positive"}

\* What a publication appends: a readiness frame of bindings the daemon holds, or
\* one of the host; and a frame of each binding it holds, if none is blocked.
LEMMA Published ==
    ASSUME NEW D \in DaemonTable, NEW q \in Seq(BotFrame)
    PROVE  LET r == publishReadiness(D, q)
           IN  /\ r \in Seq(BotFrame) /\ Extends(q, r)
               /\ \A i \in Len(q) + 1 .. Len(r) :
                     \/ r[i] = <<"host", 0>>
                     \/ r[i][1] \in ReadinessKinds /\ r[i][2] \in Held(D)
               /\ (\A b \in Bind : ~D[b].blocked)
                    => \A b \in Held(D) : \E i \in Len(q) + 1 .. Len(r) :
                          r[i] = readinessFrame(D, b)
<1> DEFINE r == publishReadiness(D, q)
           valid == {b \in Held(D) : \A c \in Held(D) : c <= b => ~D[c].blocked}
           n == Cardinality(valid)
           nth(i) == CHOOSE b \in valid : Cardinality({c \in valid : c <= b}) = i
           news == [i \in 1 .. n |-> readinessFrame(D, nth(i))]
<1>1. /\ IsFiniteSet(valid) /\ n \in Nat /\ valid \in SUBSET Nat
      /\ valid \subseteq Held(D) /\ Held(D) \subseteq Bind
  <2>1. IsFiniteSet(Bind) /\ Bind \subseteq Nat
    BY HostBindingAssumption, FS_Interval DEF Bind, HostBindingAssumption
  <2>2. valid \in SUBSET Bind /\ valid \subseteq Held(D) /\ Held(D) \subseteq Bind
    BY DEF Held
  <2> QED
    BY <2>1, <2>2, FS_Subset, FS_CardinalityType
<1>2. \A b \in Held(D) : /\ readinessFrame(D, b) \in BotFrame
                         /\ readinessFrame(D, b)[1] \in ReadinessKinds
                         /\ readinessFrame(D, b)[2] = b
  BY <1>1 DEF readinessFrame, ReadinessKinds, Held, BotFrame
<1>3. q \in Seq(BotFrame) /\ Len(q) \in Nat
  BY LenProperties
<1>4. CASE Held(D) # {}
  <2>1. \A i \in 1 .. n : nth(i) \in valid /\ Cardinality({c \in valid : c <= nth(i)}) = i
    <3> HIDE DEF valid
    <3>1. ASSUME NEW i \in 1 .. n
          PROVE  \E b \in valid : Cardinality({c \in valid : c <= b}) = i
      BY <1>1, Ranked
    <3> QED
      BY <3>1
  <2>2. r = q \o news
    BY <1>4 DEF publishReadiness
  <2>3. \A b \in valid : \E i \in 1 .. n : nth(i) = b
    <3> DEFINE at == [i \in 1 .. n |-> nth(i)]
    <3>1. at \in [1 .. n -> valid]
      BY <2>1
    <3>2. \A i, l \in 1 .. n : at[i] = at[l] => i = l
      <4>1. \A i \in 1 .. n : Cardinality({c \in valid : c <= at[i]}) = i
        BY <2>1
      <4> HIDE DEF at
      <4> QED
        BY <4>1
    <3> HIDE DEF at, valid
    <3>3. at \in Injection(1 .. n, valid)
      BY <3>1, <3>2, Zenon DEF Injection, IsInjective
    <3>4. Cardinality(1 .. n) = n /\ IsFiniteSet(1 .. n)
      BY <1>1, FS_Interval
    <3>5. at \in Surjection(1 .. n, valid)
      BY <3>3, <3>4, <1>1, FS_Injection
    <3>6. \A b \in valid : \E i \in 1 .. n : at[i] = b
      BY <3>5 DEF Surjection
    <3> QED
      BY <3>6 DEF at
  <2>4. \A i \in 1 .. n : news[i] = readinessFrame(D, nth(i)) /\ nth(i) \in Held(D)
    BY <2>1, <1>1
  <2>5. news \in Seq(BotFrame) /\ Len(news) = n
    <3>1. \A i \in 1 .. n : readinessFrame(D, nth(i)) \in BotFrame
      BY <2>4, <1>2
    <3> HIDE DEF nth
    <3> QED
      BY <3>1, <1>1
  <2> HIDE DEF news, r, n
  <2>6. /\ q \o news \in Seq(BotFrame) /\ Len(q \o news) = Len(q) + n
        /\ \A i \in 1 .. Len(q) + n :
              (q \o news)[i] = IF i <= Len(q) THEN q[i] ELSE news[i - Len(q)]
    BY <2>5, ConcatProperties
  <2>7. /\ r \in Seq(BotFrame) /\ Len(r) = Len(q) + n
        /\ \A i \in 1 .. Len(q) : r[i] = q[i]
        /\ \A i \in Len(q) + 1 .. Len(r) : i - Len(q) \in 1 .. n /\ r[i] = news[i - Len(q)]
        /\ \A i \in 1 .. n : Len(q) + i \in Len(q) + 1 .. Len(r) /\ r[Len(q) + i] = news[i]
    <3>1. Len(r) = Len(q) + n /\ r \in Seq(BotFrame)
      BY <2>2, <2>6
    <3>2. ASSUME NEW i \in 1 .. Len(q)
          PROVE  r[i] = q[i]
      BY <2>2, <2>6, <1>1, <1>3
    <3>3. ASSUME NEW i \in 1 .. n
          PROVE  Len(q) + i \in Len(q) + 1 .. Len(r) /\ r[Len(q) + i] = news[i]
      <4>1. Len(q) + i \in 1 .. Len(q) + n /\ ~(Len(q) + i <= Len(q))
            /\ Len(q) + i - Len(q) = i
        BY <1>1, <1>3
      <4> QED
        BY <2>2, <2>6, <3>1, <4>1
    <3>4. ASSUME NEW i \in Len(q) + 1 .. Len(r)
          PROVE  i - Len(q) \in 1 .. n /\ r[i] = news[i - Len(q)]
      <4>1. i - Len(q) \in 1 .. n /\ i = Len(q) + (i - Len(q))
        BY <1>1, <1>3, <3>1
      <4> QED
        BY <3>3, <4>1
    <3> QED
      BY <3>1, <3>2, <3>3, <3>4
  <2>8. \A i \in Len(q) + 1 .. Len(r) : r[i][1] \in ReadinessKinds /\ r[i][2] \in Held(D)
    <3>1. ASSUME NEW i \in Len(q) + 1 .. Len(r)
          PROVE  \E b \in Held(D) : r[i] = readinessFrame(D, b)
      <4>1. i - Len(q) \in 1 .. n /\ r[i] = news[i - Len(q)]
        BY <2>7
      <4>2. nth(i - Len(q)) \in Held(D)
        BY <2>4, <4>1
      <4> HIDE DEF nth
      <4> QED
        BY <2>4, <4>1, <4>2
    <3> QED
      BY <3>1, <1>2
  <2>9. (\A b \in Bind : ~D[b].blocked) => valid = Held(D)
    BY <1>1
  <2>10. \A b \in valid : \E i \in Len(q) + 1 .. Len(r) : r[i] = readinessFrame(D, b)
    <3> HIDE DEF valid, nth
    <3> QED
      BY <2>3, <2>4, <2>7
  <2>11. Extends(q, r)
    BY <2>7, <1>1, <1>3 DEF Extends
  <2> HIDE DEF valid
  <2> QED
    BY <2>7, <2>8, <2>9, <2>10, <2>11 DEF r
<1>5. CASE Held(D) = {} /\ ~unbound
  <2>1. r = Append(q, <<"host", 0>>)
    BY <1>5 DEF publishReadiness
  <2>2. <<"host", 0>> \in BotFrame
    BY DEF BotFrame
  <2>3. /\ r \in Seq(BotFrame) /\ Len(r) = Len(q) + 1
        /\ \A i \in 1 .. Len(q) : r[i] = q[i]
        /\ r[Len(q) + 1] = <<"host", 0>>
    BY <2>1, <2>2, AppendProperties
  <2> HIDE DEF r
  <2> QED
    BY <2>3, <1>3, <1>5 DEF Extends, r
<1>6. CASE Held(D) = {} /\ unbound
  <2>1. r = q
    BY <1>6 DEF publishReadiness
  <2> HIDE DEF r
  <2> QED
    BY <2>1, <1>3, <1>6 DEF Extends, r
<1> QED
  BY <1>4, <1>5, <1>6

\* A publication leaves the frames in flight as they have to be.
LEMMA ToldKept ==
    ASSUME NEW B \in BotTable, NEW D \in DaemonTable, NEW q \in Seq(BotFrame),
           NEW r \in Seq(BotFrame), Extends(q, r), PhaseKept(B, D),
           LiveFrames(B, D, q), LastFrames(B, D, q),
           \A i \in Len(q) + 1 .. Len(r) :
              \/ r[i] = <<"host", 0>>
              \/ r[i][1] \in ReadinessKinds /\ r[i][2] \in Held(D)
    PROVE  /\ LiveFrames(B, D, r) /\ LastFrames(B, D, r)
           /\ TellsBound(B, D, q) => TellsBound(B, D, r)
<1>1. /\ Len(q) \in Nat /\ Len(r) \in Nat /\ Len(q) <= Len(r)
      /\ \A i \in 1 .. Len(q) : r[i] = q[i]
  BY LenProperties DEF Extends
<1>2. \A i \in 1 .. Len(r) : i \in 1 .. Len(q) \/ i \in Len(q) + 1 .. Len(r)
  BY <1>1
<1>3. \A i \in 1 .. Len(q) : /\ q[i][1] = "host" => q[i][2] = 0
                             /\ q[i][1] # "host" => q[i][2] \in Bind
  BY ElementOfSeq, FrameKinds
<1>4. \A b \in Held(D) : /\ b \in Bind /\ b # 0 /\ D[b].phase \notin {"absent", "retired"}
                         /\ B[b].status \notin {"none", "tombstone"}
  BY FrameKinds DEF Held, PhaseKept
<1>5. LiveFrames(B, D, r)
  <2>1. ASSUME NEW i \in 1 .. Len(r), r[i][1] # "host"
        PROVE  B[r[i][2]].status \notin {"none", "tombstone"} /\ D[r[i][2]].phase # "absent"
    <3>1. CASE i \in 1 .. Len(q)
      BY <2>1, <3>1, <1>1 DEF LiveFrames
    <3>2. CASE i \in Len(q) + 1 .. Len(r)
      BY <2>1, <3>2, <1>4
    <3> QED
      BY <3>1, <3>2, <1>2
  <2> QED
    BY <2>1 DEF LiveFrames
<1>6. LastFrames(B, D, r)
  <2>1. ASSUME NEW i \in 1 .. Len(r), r[i][1] = "unbind_ok"
        PROVE  /\ B[r[i][2]].status = "unbinding" /\ D[r[i][2]].phase = "retired"
               /\ \A j \in 1 .. Len(r) : i < j => r[j][2] # r[i][2]
    <3>1. i \in 1 .. Len(q)
      BY <2>1, <1>2 DEF ReadinessKinds
    <3>2. /\ q[i][1] = "unbind_ok" /\ r[i] = q[i] /\ q[i][2] \in Bind
          /\ B[q[i][2]].status = "unbinding" /\ D[q[i][2]].phase = "retired"
          /\ \A j \in 1 .. Len(q) : i < j => q[j][2] # q[i][2]
      BY <2>1, <3>1, <1>1, <1>3 DEF LastFrames
    <3>3. ASSUME NEW j \in Len(q) + 1 .. Len(r)
          PROVE  r[j][2] # q[i][2]
      BY <3>2, <3>3, <1>4, FrameKinds
    <3> QED
      BY <3>2, <3>3, <1>1, <1>2
  <2> QED
    BY <2>1 DEF LastFrames
<1>7. \A b, i : Withdrawn(b, q, i) => Withdrawn(b, r, i)
  BY <1>1 DEF Withdrawn
<1>8. ASSUME TellsBound(B, D, q)
      PROVE  TellsBound(B, D, r)
  <2>1. ASSUME NEW i \in 1 .. Len(r), r[i][1] = "bind_ok"
        PROVE  \/ B[r[i][2]].status = "unbinding" \/ D[r[i][2]].phase = "positive"
               \/ Withdrawn(r[i][2], r, i)
    <3>1. i \in 1 .. Len(q) /\ r[i] = q[i]
      BY <2>1, <1>1, <1>2 DEF ReadinessKinds
    <3> QED
      BY <3>1, <2>1, <1>7, <1>8 DEF TellsBound
  <2> QED
    BY <2>1, <1>7, <1>8 DEF TellsBound
<1> QED
  BY <1>5, <1>6, <1>8

\* So does an answer.
LEMMA AnswerKept ==
    ASSUME NEW B \in BotTable, NEW D \in DaemonTable, NEW q \in Seq(BotFrame), NEW b \in Bind,
           NEW kind \in {"bind_ok", "unbind_ok"}, InKept(B, D, q),
           B[b].status \notin {"none", "tombstone"},
           kind = "bind_ok" => D[b].phase = "positive",
           kind = "unbind_ok" => D[b].phase = "retired" /\ B[b].status = "unbinding",
           \A i \in 1 .. Len(q) : q[i] # <<"unbind_ok", b>>
    PROVE  /\ Append(q, <<kind, b>>) \in Seq(BotFrame)
           /\ InKept(B, D, Append(q, <<kind, b>>))
<1> DEFINE r == Append(q, <<kind, b>>)
<1>1. <<kind, b>> \in BotFrame
  BY DEF BotFrame
<1>2. /\ r \in Seq(BotFrame) /\ Len(r) = Len(q) + 1 /\ Len(q) \in Nat
      /\ \A i \in 1 .. Len(q) : r[i] = q[i]
      /\ r[Len(q) + 1] = <<kind, b>>
  BY <1>1, AppendProperties, LenProperties
<1> HIDE DEF r
<1>3. \A i \in 1 .. Len(r) : i \in 1 .. Len(q) \/ i = Len(q) + 1
  BY <1>2
<1>4. LiveFrames(B, D, r)
  BY <1>2, <1>3 DEF InKept, LiveFrames
<1>5. LastFrames(B, D, r)
  <2>1. \A i \in 1 .. Len(q) : q[i][1] = "unbind_ok" => q[i][2] # b
    <3>1. \A i \in 1 .. Len(q) : q[i][1] = "unbind_ok" => q[i] = <<"unbind_ok", q[i][2]>>
      BY ElementOfSeq DEF BotFrame
    <3> QED
      BY <3>1
  <2>2. ASSUME NEW i \in 1 .. Len(r), r[i][1] = "unbind_ok"
        PROVE  /\ B[r[i][2]].status = "unbinding" /\ D[r[i][2]].phase = "retired"
               /\ \A j \in 1 .. Len(r) : i < j => r[j][2] # r[i][2]
    <3>1. CASE i \in 1 .. Len(q)
      BY <2>1, <2>2, <3>1, <1>2, <1>3 DEF InKept, LastFrames
    <3>2. CASE i = Len(q) + 1
      BY <2>2, <3>2, <1>2
    <3> QED
      BY <3>1, <3>2, <1>3
  <2> QED
    BY <2>2 DEF LastFrames
<1>6. TellsBound(B, D, r)
  <2>1. \A c, i : Withdrawn(c, q, i) => Withdrawn(c, r, i)
    BY <1>2 DEF Withdrawn
  <2>2. ASSUME NEW i \in 1 .. Len(r), r[i][1] = "bind_ok"
        PROVE  \/ B[r[i][2]].status = "unbinding" \/ D[r[i][2]].phase = "positive"
               \/ Withdrawn(r[i][2], r, i)
    <3>1. CASE i \in 1 .. Len(q)
      BY <2>1, <2>2, <3>1, <1>2 DEF InKept, TellsBound
    <3>2. CASE i = Len(q) + 1
      BY <2>2, <3>2, <1>2
    <3> QED
      BY <3>1, <3>2, <1>3
  <2> QED
    BY <2>1, <2>2 DEF InKept, TellsBound
<1> QED
  BY <1>2, <1>4, <1>5, <1>6 DEF InKept, r

\* So does hearing the first frame, if the bot does with it what it says.
LEMMA HeardKept ==
    ASSUME NEW B \in BotTable, NEW C \in BotTable, NEW D \in DaemonTable,
           NEW q \in Seq(BotFrame), q # <<>>, InKept(B, D, q),
           \A b \in Bind :
              \/ /\ C[b].status = B[b].status
                 /\ Head(q) = <<"negative", b>> => B[b].status # "bound"
              \/ B[b].status \in Routed /\ C[b].status \in Routed \ {"bound"}
              \/ /\ Head(q) = <<"bind_ok", b>> /\ B[b].status \in Routed
                 /\ C[b].status = "bound"
              \/ Head(q) = <<"unbind_ok", b>> /\ C[b].status = "tombstone"
    PROVE  Tail(q) \in Seq(BotFrame) /\ InKept(C, D, Tail(q))
<1> DEFINE r == Tail(q)
<1>1. /\ r \in Seq(BotFrame) /\ Len(r) = Len(q) - 1 /\ Len(q) \in Nat /\ Len(q) >= 1
      /\ \A i \in 1 .. Len(r) : r[i] = q[i + 1] /\ i + 1 \in 1 .. Len(q)
      /\ Head(q) = q[1] /\ 1 \in 1 .. Len(q)
  BY HeadTailProperties, LenProperties, EmptySeq
<1> HIDE DEF r
<1>2. \A i \in 1 .. Len(q) : /\ q[i] \in BotFrame /\ q[i] = <<q[i][1], q[i][2]>>
                             /\ q[i][1] # "host" => q[i][2] \in Bind
  BY ElementOfSeq, FrameKinds DEF BotFrame
<1>3. \A i \in 1 .. Len(r) : q[1][1] = "unbind_ok" => r[i][2] # q[1][2]
  BY <1>1 DEF InKept, LastFrames
<1>4. \A b \in Bind : \A i \in 1 .. Len(r) : r[i][2] = b =>
          C[b].status = B[b].status \/ (B[b].status \in Routed /\ C[b].status \in Routed)
  BY <1>1, <1>3 DEF Routed
<1>5. LiveFrames(C, D, r)
  <2>1. ASSUME NEW i \in 1 .. Len(r), r[i][1] # "host"
        PROVE  C[r[i][2]].status \notin {"none", "tombstone"} /\ D[r[i][2]].phase # "absent"
    <3>1. r[i][2] \in Bind /\ B[r[i][2]].status \notin {"none", "tombstone"}
          /\ D[r[i][2]].phase # "absent"
      BY <2>1, <1>1, <1>2 DEF InKept, LiveFrames
    <3> QED
      BY <3>1, <1>4 DEF Routed
  <2> QED
    BY <2>1 DEF LiveFrames
<1>6. LastFrames(C, D, r)
  <2>1. ASSUME NEW i \in 1 .. Len(r), r[i][1] = "unbind_ok"
        PROVE  /\ C[r[i][2]].status = "unbinding" /\ D[r[i][2]].phase = "retired"
               /\ \A j \in 1 .. Len(r) : i < j => r[j][2] # r[i][2]
    <3>1. /\ r[i][2] \in Bind /\ B[r[i][2]].status = "unbinding"
          /\ D[r[i][2]].phase = "retired"
      BY <2>1, <1>1, <1>2 DEF InKept, LastFrames
    <3>2. C[r[i][2]].status = "unbinding"
      BY <3>1, <1>4 DEF Routed
    <3>3. ASSUME NEW j \in 1 .. Len(r), i < j
          PROVE  r[j][2] # r[i][2]
      <4>1. i + 1 < j + 1 /\ r[i] = q[i + 1] /\ r[j] = q[j + 1]
            /\ i + 1 \in 1 .. Len(q) /\ j + 1 \in 1 .. Len(q)
        BY <3>3, <1>1
      <4> QED
        BY <2>1, <4>1 DEF InKept, LastFrames
    <3> QED
      BY <3>1, <3>2, <3>3
  <2> QED
    BY <2>1 DEF LastFrames
<1>7. ASSUME NEW b, NEW i \in Nat, Withdrawn(b, q, i + 1)
      PROVE  Withdrawn(b, r, i)
  <2>1. PICK j \in 1 .. Len(q) : i + 1 < j /\ q[j] = <<"negative", b>>
    BY <1>7 DEF Withdrawn
  <2>2. j - 1 \in 1 .. Len(r) /\ i < j - 1 /\ r[j - 1] = q[j - 1 + 1] /\ j - 1 + 1 = j
    BY <2>1, <1>1
  <2> QED
    BY <2>1, <2>2 DEF Withdrawn
<1>8. TellsBound(C, D, r)
  <2>1. ASSUME NEW i \in 1 .. Len(r), r[i][1] = "bind_ok"
        PROVE  \/ C[r[i][2]].status = "unbinding" \/ D[r[i][2]].phase = "positive"
               \/ Withdrawn(r[i][2], r, i)
    <3>1. /\ r[i][2] \in Bind /\ i \in Nat
          /\ \/ B[r[i][2]].status = "unbinding" \/ D[r[i][2]].phase = "positive"
             \/ Withdrawn(r[i][2], q, i + 1)
      <4>1. i + 1 \in 1 .. Len(q) /\ r[i] = q[i + 1] /\ q[i + 1][1] = "bind_ok" /\ i \in Nat
        BY <2>1, <1>1
      <4>2. q[i + 1][2] \in Bind
        BY <4>1, <1>2
      <4> QED
        BY <4>1, <4>2 DEF InKept, TellsBound
    <3> QED
      BY <3>1, <1>4, <1>7 DEF Routed
  <2>2. ASSUME NEW b \in Bind, C[b].status = "bound"
        PROVE  D[b].phase = "positive" \/ Withdrawn(b, r, 0)
    <3>1. CASE B[b].status = "bound" /\ q[1] # <<"negative", b>>
      <4>1. D[b].phase = "positive" \/ Withdrawn(b, q, 0)
        BY <3>1 DEF InKept, TellsBound
      <4>2. Withdrawn(b, q, 0) => Withdrawn(b, q, 0 + 1)
        BY <3>1, <1>1 DEF Withdrawn
      <4> QED
        BY <4>1, <4>2, <1>7
    <3>2. CASE q[1] = <<"bind_ok", b>> /\ B[b].status \in Routed
      <4>1. q[1][1] = "bind_ok" /\ q[1][2] = b
        BY <3>2
      <4>2. D[b].phase = "positive" \/ Withdrawn(b, q, 1)
        BY <3>2, <4>1, <1>1 DEF InKept, TellsBound, Routed
      <4>3. Withdrawn(b, q, 1) => Withdrawn(b, q, 0 + 1)
        OBVIOUS
      <4> QED
        BY <4>2, <4>3, <1>7
    <3> QED
      BY <2>2, <3>1, <3>2, <1>1
  <2> QED
    BY <2>1, <2>2 DEF TellsBound
<1> QED
  BY <1>1, <1>5, <1>6, <1>8 DEF InKept, r

\* The first of the bot's frames finds its binding as it has to be.
LEMMA TakenIs ==
    ASSUME NEW B \in BotTable, NEW D \in DaemonTable, NEW O \in Seq(DaemonFrame), O # <<>>,
           OutKept(B, D, O)
    PROVE  /\ Head(O)[1] = "bind" => /\ Head(O)[2] \in Bind /\ B[Head(O)[2]].status # "none"
                                     /\ D[Head(O)[2]].phase = "absent"
           /\ Head(O)[1] = "unbind" =>
                 /\ Head(O)[2] \in Bind /\ B[Head(O)[2]].status = "unbinding"
                 /\ D[Head(O)[2]].phase \notin {"retiring", "retired"}
<1>1. Head(O) = O[1] /\ 1 \in 1 .. Len(O)
  BY HeadTailProperties, LenProperties, EmptySeq
<1>2. O[1][1] \in {"bind", "unbind"} => O[1][2] \in Bind
  BY <1>1, ElementOfSeq, FrameKinds
<1> QED
  BY <1>1, <1>2 DEF OutKept

\* The daemon takes the first of the bot's frames.
LEMMA TakenKept ==
    ASSUME NEW B \in BotTable, NEW D \in DaemonTable, NEW E \in DaemonTable,
           NEW O \in Seq(DaemonFrame), O # <<>>, OutKept(B, D, O),
           \A b \in Bind : b # Head(O)[2] => E[b].phase = D[b].phase,
           Head(O)[1] = "bind" => E[Head(O)[2]].phase \notin {"retiring", "retired"}
    PROVE  Tail(O) \in Seq(DaemonFrame) /\ OutKept(B, E, Tail(O))
<1> DEFINE r == Tail(O)
           h == Head(O)
<1>1. /\ r \in Seq(DaemonFrame) /\ Len(r) = Len(O) - 1 /\ Len(O) \in Nat /\ Len(O) >= 1
      /\ \A i \in 1 .. Len(r) : r[i] = O[i + 1] /\ i + 1 \in 1 .. Len(O)
      /\ h = O[1] /\ 1 \in 1 .. Len(O)
  BY HeadTailProperties, LenProperties, EmptySeq
<1> HIDE DEF r, h
<1>2. /\ \A i \in 1 .. Len(O) : \/ O[i][1] = "register_ok" /\ O[i][2] = 0
                                \/ O[i][1] \in {"bind", "unbind"} /\ O[i][2] \in Bind
      /\ 0 \notin Bind
  BY ElementOfSeq, FrameKinds
<1>3. ASSUME NEW i \in 1 .. Len(r)
      PROVE  /\ r[i][1] = "bind" => /\ B[r[i][2]].status # "none"
                                    /\ E[r[i][2]].phase = "absent"
             /\ r[i][1] = "unbind" => /\ B[r[i][2]].status = "unbinding"
                                      /\ E[r[i][2]].phase \notin {"retiring", "retired"}
  <2>1. r[i] = O[i + 1] /\ i + 1 \in 1 .. Len(O) /\ 1 < i + 1
    BY <1>1
  <2>2. r[i][2] = h[2] /\ h[2] # 0 => h[1] = "bind" /\ r[i][1] = "unbind"
    BY <2>1, <1>1 DEF OutKept
  <2>3. r[i][1] \in {"bind", "unbind"} => r[i][2] \in Bind /\ r[i][2] # 0
    BY <2>1, <1>2
  <2>4. /\ r[i][1] = "bind" => /\ B[r[i][2]].status # "none"
                               /\ D[r[i][2]].phase = "absent"
        /\ r[i][1] = "unbind" => /\ B[r[i][2]].status = "unbinding"
                                 /\ D[r[i][2]].phase \notin {"retiring", "retired"}
    BY <2>1 DEF OutKept
  <2> QED
    BY <2>2, <2>3, <2>4 DEF h
<1>4. ASSUME NEW i \in 1 .. Len(r), NEW j \in 1 .. Len(r), i < j, r[i][2] = r[j][2],
             r[i][2] # 0
      PROVE  r[i][1] = "bind" /\ r[j][1] = "unbind"
  <2>1. /\ r[i] = O[i + 1] /\ i + 1 \in 1 .. Len(O) /\ r[j] = O[j + 1]
        /\ j + 1 \in 1 .. Len(O) /\ i + 1 < j + 1
    <3>1. i \in Nat /\ j \in Nat /\ i + 1 < j + 1
      BY <1>1, <1>4
    <3>2. r[i] = O[i + 1] /\ i + 1 \in 1 .. Len(O)
      BY <1>1
    <3>3. r[j] = O[j + 1] /\ j + 1 \in 1 .. Len(O)
      BY <1>1
    <3> QED
      BY <3>1, <3>2, <3>3
  <2> QED
    BY <2>1, <1>4 DEF OutKept
<1>5. OutKept(B, E, r)
  BY <1>3, <1>4 DEF OutKept
<1> QED
  BY <1>1, <1>5 DEF r

\* A binding of the daemon goes on.
LEMMA PhasesMove ==
    ASSUME NEW B \in BotTable, NEW D \in DaemonTable, NEW E \in DaemonTable,
           NEW q \in Seq(BotFrame),
           \A b \in Bind :
              /\ D[b].phase # "absent" => E[b].phase # "absent"
              /\ D[b].phase = "retired" => E[b].phase = "retired"
    PROVE  /\ LiveFrames(B, D, q) => LiveFrames(B, E, q)
           /\ LastFrames(B, D, q) => LastFrames(B, E, q)
           /\ /\ TellsBound(B, D, q)
              /\ \A b \in Bind : D[b].phase = "positive"
                                   => E[b].phase = "positive" \/ B[b].status = "unbinding"
              => TellsBound(B, E, q)
<1>1. \A i \in 1 .. Len(q) : q[i][1] # "host" => q[i][2] \in Bind
  BY ElementOfSeq, FrameKinds
<1>2. LiveFrames(B, D, q) => LiveFrames(B, E, q)
  BY <1>1 DEF LiveFrames
<1>3. LastFrames(B, D, q) => LastFrames(B, E, q)
  BY <1>1 DEF LastFrames
<1>4. \A i \in 1 .. Len(q) : q[i][1] = "bind_ok" => q[i][2] \in Bind
  BY <1>1
<1>5. ASSUME TellsBound(B, D, q),
             \A b \in Bind : D[b].phase = "positive"
                               => E[b].phase = "positive" \/ B[b].status = "unbinding"
      PROVE  TellsBound(B, E, q)
  BY <1>4, <1>5 DEF TellsBound
<1> QED
  BY <1>2, <1>3, <1>5

\* So the bot's frames stand, whatever binding of the daemon goes on.
LEMMA OutMoves ==
    ASSUME NEW B \in BotTable, NEW D \in DaemonTable, NEW E \in DaemonTable,
           NEW O \in Seq(DaemonFrame), OutKept(B, D, O),
           \A b \in Bind :
              /\ D[b].phase = "absent" => E[b].phase = "absent"
              /\ E[b].phase \in {"retiring", "retired"}
                   => D[b].phase \in {"retiring", "retired"}
    PROVE  OutKept(B, E, O)
<1>1. \A i \in 1 .. Len(O) : O[i][1] \in {"bind", "unbind"} => O[i][2] \in Bind
  BY ElementOfSeq, FrameKinds
<1> QED
  BY <1>1 DEF OutKept

-----------------------------------------------------------------------------
(* The steps.                                                              *)

\* The parts of a typed state.
LEMMA InvTyped ==
    ASSUME HostInv
    PROVE  /\ bot \in BotTable /\ dmn \in DaemonTable /\ byDesc \in [Desc -> 0 .. MaxBind]
           /\ toDaemon \in Seq(DaemonFrame) /\ toBot \in Seq(BotFrame)
           /\ Book \in BookType /\ desired \in SUBSET Desc
           /\ Book.bot = bot /\ Book.byDesc = byDesc /\ Book.out = toDaemon
  BY DEF HostInv, TypeOK, BotTable, DaemonTable, BookType, Book

\* What of a state is not the bindings' business.
RestTyped ==
    /\ routes \in 0 .. MaxRoute
    /\ authority \in [gen : 0 .. MaxGen, offline : BOOLEAN]
    /\ unbound \in BOOLEAN
    /\ probe \in {"running", "passed", "failed"}
    /\ gen \in 0 .. MaxGen
    /\ refused \in {"nothing", "replayed", "negative"}

\* The rest of the state is typed too.
LEMMA RestOfInv ==
    HostInv => RestTyped
  BY DEF HostInv, TypeOK, RestTyped

\* A closed websocket.
LEMMA Closed ==
    ASSUME HostInv, RestTyped', up' = FALSE, desired' \in SUBSET Desc,
           bot' = [b \in Bind |-> None], byDesc' = [d \in Desc |-> 0], dmn' = Absent,
           toDaemon' = <<>>, toBot' = <<>>
    PROVE  HostInv'
<1>1. \A b \in Bind : bot'[b].status = "none" /\ dmn'[b] = [phase |-> "absent", blocked |-> FALSE]
  BY DEF None, Absent
<1>2. bot' \in BotTable /\ dmn' \in DaemonTable /\ byDesc' \in [Desc -> 0 .. MaxBind]
      /\ \A d \in Desc : byDesc'[d] = 0
  BY HostBindingAssumption DEF BotTable, DaemonTable, Absent, DaemonBinding,
     HostBindingAssumption
<1>3. toDaemon' \in Seq(DaemonFrame) /\ toBot' \in Seq(BotFrame) /\ Len(toDaemon') = 0
      /\ Len(toBot') = 0
  BY EmptySeq
<1>4. TypeOK'
  BY <1>2, <1>3 DEF TypeOK, RestTyped, BotTable, DaemonTable
<1>5. RoutesReconciled' /\ SocketKept'
  BY DEF RoutesReconciled, SocketKept
<1>6. BookKept(bot, byDesc)' /\ PhaseKept(bot, dmn)'
  BY <1>1, <1>2 DEF BookKept, PhaseKept, Routed
<1>7. OutKept(bot, dmn, toDaemon)' /\ InKept(bot, dmn, toBot)'
  BY <1>1, <1>3 DEF OutKept, InKept, LiveFrames, LastFrames, TellsBound
<1>8. \A b \in Bind : ~dmn'[b].blocked
  BY <1>1
<1>9. refused' \notin {"none", "tombstone"}
  BY DEF RestTyped
<1> QED
  BY <1>4, <1>5, <1>6, <1>7, <1>8, <1>9 DEF HostInv

\* A connection that is lost takes everything bound to it along.
LEMMA LostKept ==
    ASSUME HostInv, lost, markOffline, refused' \in {"nothing", "replayed", "negative"}
    PROVE  HostInv'
<1>1. RestTyped'
  BY RestOfInv DEF RestTyped, lost, markOffline
<1> QED
  BY <1>1, Closed DEF lost, HostInv, TypeOK

\* The bot has reconciled its book.
LEMMA BookStep ==
    ASSUME NEW k \in BookType, BookKept(k.bot, k.byDesc), NEW q \in Seq(BotFrame),
           HostInv, PhaseKept(k.bot, dmn), OutKept(k.bot, dmn, k.out), InKept(k.bot, dmn, q),
           desired' \in SUBSET Desc, Keep(reconcileManagedBindings(k, desired')),
           up' = TRUE, RestTyped', UNCHANGED dmn, toBot' = q,
           probe' # "failed" => \A b \in Bind : ~dmn[b].blocked
    PROVE  HostInv'
<1> DEFINE j == reconcileManagedBindings(k, desired')
<1>1. /\ j \in BookType /\ BookKept(j.bot, j.byDesc) /\ Sends(k, j)
      /\ \A b \in Bind : j.bot[b].status \in Routed => j.bot[b].desc \in desired'
      /\ Cardinality(Used(j)) < MaxBind /\ ~(\E b \in Bind : j.bot[b].status = "unbinding")
           => \A d \in desired' : j.byDesc[d] # 0
  BY Reconciled
<1>2. bot' = j.bot /\ byDesc' = j.byDesc /\ toDaemon' = j.out
  BY DEF Keep
<1> HIDE DEF j
<1>3. dmn \in DaemonTable
  BY InvTyped
<1>4. PhaseKept(j.bot, dmn) /\ OutKept(j.bot, dmn, j.out) /\ InKept(j.bot, dmn, q)
  BY <1>1, <1>3, SentKept
<1>5. TypeOK'
  BY <1>1, <1>2, <1>3 DEF TypeOK, RestTyped, BookType, BotTable, DaemonTable
<1>6. Used(Book)' = Used(j)
  BY <1>2 DEF Used, Book
<1>7. RoutesReconciled'
  BY <1>1, <1>2, <1>6 DEF RoutesReconciled
<1>8. SocketKept'
  BY <1>1, <1>2 DEF SocketKept
<1>9. refused' \notin {"none", "tombstone"}
  BY DEF RestTyped
<1>10. BookKept(bot, byDesc)' /\ PhaseKept(bot, dmn)' /\ OutKept(bot, dmn, toDaemon)'
       /\ InKept(bot, dmn, toBot)'
  BY <1>1, <1>2, <1>4
<1> QED
  BY <1>5, <1>7, <1>8, <1>9, <1>10 DEF HostInv

\* The daemon has moved a binding, taken a frame or sent some.
LEMMA DaemonStep ==
    ASSUME HostInv, up, UNCHANGED <<desired, routes, up, botVars, gen, refused>>,
           dmn' \in DaemonTable, toDaemon' \in Seq(DaemonFrame), toBot' \in Seq(BotFrame),
           unbound' \in BOOLEAN, probe' \in {"running", "passed", "failed"},
           probe' # "failed" => \A b \in Bind : ~dmn'[b].blocked,
           PhaseKept(bot, dmn'), OutKept(bot, dmn', toDaemon'), InKept(bot, dmn', toBot')
    PROVE  HostInv'
<1>1. TypeOK'
  BY DEF HostInv, TypeOK, BotTable, DaemonTable, botVars
<1>2. Used(Book)' = Used(Book)
  BY DEF Used, Book, botVars
<1>3. RoutesReconciled'
  BY <1>2 DEF HostInv, RoutesReconciled, botVars
<1>4. SocketKept'
  BY DEF HostInv, SocketKept, botVars
<1> QED
  BY <1>1, <1>3, <1>4 DEF HostInv, botVars

\* The bot has heard a frame.
LEMMA HearStep ==
    ASSUME HostInv, up, toBot # <<>>, toBot' = Tail(toBot), bot' \in BotTable,
           UNCHANGED <<desired, routes, up, byDesc, daemonVars, toDaemon, refused>>,
           authority' \in [gen : 0 .. MaxGen, offline : BOOLEAN],
           \A b \in Bind :
              \/ bot'[b] = bot[b] /\ (Head(toBot) = <<"negative", b>> => bot[b].status # "bound")
              \/ /\ bot[b].status \in Routed /\ bot'[b].status \in Routed
                 /\ bot'[b].desc = bot[b].desc
                 /\ bot'[b].status = "bound"
                      => \/ Head(toBot) = <<"bind_ok", b>>
                         \/ bot[b].status = "bound" /\ Head(toBot) # <<"negative", b>>
    PROVE  HostInv'
<1>1. /\ bot \in BotTable /\ dmn \in DaemonTable /\ toBot \in Seq(BotFrame)
      /\ InKept(bot, dmn, toBot) /\ UNCHANGED dmn
  BY InvTyped DEF HostInv, daemonVars
<1>2. Tail(toBot) \in Seq(BotFrame) /\ InKept(bot', dmn, Tail(toBot))
  <2>1. \A b \in Bind :
          \/ /\ bot'[b].status = bot[b].status
             /\ Head(toBot) = <<"negative", b>> => bot[b].status # "bound"
          \/ bot[b].status \in Routed /\ bot'[b].status \in Routed \ {"bound"}
          \/ /\ Head(toBot) = <<"bind_ok", b>> /\ bot[b].status \in Routed
             /\ bot'[b].status = "bound"
          \/ Head(toBot) = <<"unbind_ok", b>> /\ bot'[b].status = "tombstone"
    OBVIOUS
  <2> QED
    BY <1>1, <2>1, HeardKept
<1>3. \A b \in Bind : \/ bot'[b] = bot[b]
                      \/ /\ bot[b].status \in Routed /\ bot'[b].status \in Routed
                         /\ bot'[b].desc = bot[b].desc
  OBVIOUS
<1>4. TypeOK'
  BY <1>2 DEF HostInv, TypeOK, BotTable, daemonVars
<1>5. \A b \in Bind : bot'[b] = None <=> bot[b] = None
  BY <1>1, <1>3, BotStatus DEF Routed
<1>6. Used(Book)' = Used(Book)
  BY <1>5 DEF Used, Book
<1>7. RoutesReconciled'
  BY <1>3, <1>6 DEF HostInv, RoutesReconciled, Routed
<1>8. SocketKept'
  BY <1>3 DEF HostInv, SocketKept
<1>9. BookKept(bot', byDesc)
  <2>1. \A d \in Desc : byDesc[d] # 0 => byDesc[d] \in Bind
    BY HostBindingAssumption DEF HostInv, TypeOK, Bind, HostBindingAssumption
  <2> QED
    BY <1>3, <2>1 DEF HostInv, BookKept, Routed
<1>10. PhaseKept(bot', dmn)
  BY <1>3 DEF HostInv, PhaseKept, Routed
<1>11. OutKept(bot', dmn, toDaemon)
  <2>1. \A i \in 1 .. Len(toDaemon) : toDaemon[i][1] \in {"bind", "unbind"}
                                        => toDaemon[i][2] \in Bind
    BY InvTyped, ElementOfSeq, FrameKinds
  <2> QED
    BY <1>3, <2>1 DEF HostInv, OutKept, Routed
<1> QED
  BY <1>2, <1>4, <1>7, <1>8, <1>9, <1>10, <1>11 DEF HostInv, daemonVars

\* The first state: no connection and no binding.
LEMMA InitKept ==
    ASSUME Init
    PROVE  HostInv
<1>1. \A b \in Bind : bot[b] = None /\ bot[b].status = "none"
                      /\ dmn[b] = [phase |-> "absent", blocked |-> FALSE]
  BY DEF Init, None, Absent
<1>2. Len(toDaemon) = 0 /\ Len(toBot) = 0
  BY DEF Init
<1>3. TypeOK
  <2>1. bot \in [Bind -> BotBinding \cup {None}] /\ byDesc \in [Desc -> 0 .. MaxBind]
    BY HostBindingAssumption DEF Init, HostBindingAssumption
  <2>2. dmn \in [Bind -> DaemonBinding]
    BY DEF Init, Absent, DaemonBinding
  <2>3. toDaemon \in Seq(DaemonFrame) /\ toBot \in Seq(BotFrame)
    BY EmptySeq DEF Init
  <2>4. 0 \in 0 .. MaxRoute /\ 0 \in 0 .. MaxGen
    BY HostBindingAssumption DEF HostBindingAssumption
  <2> QED
    BY <2>1, <2>2, <2>3, <2>4 DEF Init, TypeOK
<1>4. RoutesReconciled /\ SocketKept /\ refused \notin {"none", "tombstone"}
  BY DEF Init, RoutesReconciled, SocketKept
<1>5. BookKept(bot, byDesc) /\ PhaseKept(bot, dmn)
  BY <1>1 DEF Init, BookKept, PhaseKept, Routed
<1>6. OutKept(bot, dmn, toDaemon) /\ InKept(bot, dmn, toBot)
  BY <1>1, <1>2 DEF OutKept, InKept, LiveFrames, LastFrames, TellsBound
<1> QED
  BY <1>1, <1>3, <1>4, <1>5, <1>6 DEF HostInv

\* Changed routes are reconciled at once, or when the next connection comes.
LEMMA RoutesKept ==
    ASSUME HostInv, NEW want \in SUBSET Desc, setManagedRoutes(want)
    PROVE  HostInv'
<1>1. RestTyped' /\ desired' = want
  <2>1. routes' \in 0 .. MaxRoute
    BY RestOfInv, HostBindingAssumption DEF setManagedRoutes, RestTyped, HostBindingAssumption
  <2> QED
    BY <2>1, RestOfInv DEF setManagedRoutes, RestTyped, daemonVars
<1>2. CASE up
  <2>1. Keep(reconcileManagedBindings(Book, desired')) /\ up' = TRUE
    BY <1>2 DEF setManagedRoutes
  <2>2. UNCHANGED <<dmn, toBot, probe>>
    BY DEF setManagedRoutes, daemonVars
  <2>3. /\ Book \in BookType /\ BookKept(Book.bot, Book.byDesc) /\ PhaseKept(Book.bot, dmn)
        /\ OutKept(Book.bot, dmn, Book.out) /\ InKept(Book.bot, dmn, toBot)
        /\ toBot \in Seq(BotFrame)
    BY InvTyped DEF HostInv
  <2>4. probe' # "failed" => \A b \in Bind : ~dmn[b].blocked
    BY <2>2 DEF HostInv
  <2> HIDE DEF Book
  <2> QED
    BY <1>1, <2>1, <2>2, <2>3, <2>4, BookStep
<1>3. CASE ~up
  <2>1. up' = FALSE
    BY <1>3 DEF setManagedRoutes, HostInv, TypeOK
  <2> QED
    BY <1>1, <1>3, <2>1, Closed DEF setManagedRoutes, HostInv, SocketKept, daemonVars
<1> QED
  BY <1>2, <1>3

\* A new connection is told what the routes ask for.
LEMMA RegisterKept ==
    ASSUME HostInv, register
    PROVE  HostInv'
<1> DEFINE k == [Book EXCEPT !.out = <<<<"register_ok", 0>>>>]
<1>1. RestTyped' /\ desired' = desired /\ desired \in SUBSET Desc
  <2>1. gen' \in 0 .. MaxGen
    BY RestOfInv, HostBindingAssumption DEF register, RestTyped, HostBindingAssumption
  <2> QED
    BY <2>1, RestOfInv, InvTyped DEF register, RestTyped
<1>2. /\ \A b \in Bind : bot[b] = None /\ bot[b].status = "none"
                         /\ dmn[b] = [phase |-> "absent", blocked |-> FALSE]
      /\ toBot = <<>> /\ BookKept(bot, byDesc) /\ PhaseKept(bot, dmn)
  BY DEF register, HostInv, SocketKept, Absent, None
<1>3. k.bot = bot /\ k.byDesc = byDesc /\ k.out = <<<<"register_ok", 0>>>>
  BY DEF Book
<1>4. k.out \in Seq(DaemonFrame) /\ Len(k.out) = 1 /\ k.out[1] = <<"register_ok", 0>>
  <2>1. <<"register_ok", 0>> \in DaemonFrame
    BY DEF DaemonFrame
  <2> HIDE DEF k
  <2> QED
    BY <1>3, <2>1
<1>5. k \in BookType
  BY <1>3, <1>4, InvTyped DEF BookType, Book
<1>6. OutKept(k.bot, dmn, k.out)
  BY <1>4 DEF OutKept
<1>7. toBot \in Seq(BotFrame) /\ Len(toBot) = 0
  BY <1>2, InvTyped
<1>8. InKept(k.bot, dmn, toBot)
  BY <1>2, <1>3, <1>7 DEF InKept, LiveFrames, LastFrames, TellsBound
<1>9. Keep(reconcileManagedBindings(k, desired')) /\ up' = TRUE /\ UNCHANGED <<dmn, toBot>>
  BY <1>1 DEF register
<1>10. \A b \in Bind : ~dmn[b].blocked
  BY <1>2
<1> HIDE DEF k
<1> QED
  BY <1>1, <1>2, <1>3, <1>5, <1>6, <1>7, <1>8, <1>9, <1>10, BookStep

\* A daemon process that starts again knows no binding.
LEMMA RestartKept ==
    ASSUME HostInv, daemonRestarts
    PROVE  HostInv'
<1>1. RestTyped'
  <2>1. gen' \in 0 .. MaxGen
    BY HostBindingAssumption DEF daemonRestarts, HostBindingAssumption
  <2>2. authority' \in [gen : 0 .. MaxGen, offline : BOOLEAN]
    BY RestOfInv DEF RestTyped, daemonRestarts, markOffline
  <2> QED
    BY <2>1, <2>2, RestOfInv DEF RestTyped, daemonRestarts
<1> QED
  BY <1>1, Closed, InvTyped DEF daemonRestarts

\* A frame the daemon would send says nothing that is not so.
LEMMA PublishKept ==
    ASSUME NEW D \in DaemonTable, NEW q \in Seq(BotFrame), bot \in BotTable,
           PhaseKept(bot, D), LiveFrames(bot, D, q), LastFrames(bot, D, q)
    PROVE  /\ publishReadiness(D, q) \in Seq(BotFrame)
           /\ LiveFrames(bot, D, publishReadiness(D, q))
           /\ LastFrames(bot, D, publishReadiness(D, q))
           /\ TellsBound(bot, D, q) => TellsBound(bot, D, publishReadiness(D, q))
<1> DEFINE r == publishReadiness(D, q)
<1>1. /\ r \in Seq(BotFrame) /\ Extends(q, r)
      /\ \A i \in Len(q) + 1 .. Len(r) :
            \/ r[i] = <<"host", 0>>
            \/ r[i][1] \in ReadinessKinds /\ r[i][2] \in Held(D)
  BY Published
<1> HIDE DEF r
<1>2. /\ LiveFrames(bot, D, r) /\ LastFrames(bot, D, r)
      /\ TellsBound(bot, D, q) => TellsBound(bot, D, r)
  BY <1>1, ToldKept
<1> QED
  BY <1>1, <1>2 DEF r

\* The answer to the registration publishes what the daemon holds.
LEMMA RegisterOkKept ==
    ASSUME HostInv, registerOk
    PROVE  HostInv'
<1>1. /\ bot \in BotTable /\ dmn \in DaemonTable /\ toBot \in Seq(BotFrame)
      /\ toDaemon \in Seq(DaemonFrame) /\ PhaseKept(bot, dmn) /\ InKept(bot, dmn, toBot)
      /\ OutKept(bot, dmn, toDaemon)
  BY InvTyped DEF HostInv
<1>2. toDaemon # <<>> /\ Head(toDaemon)[1] = "register_ok" /\ toDaemon' = Tail(toDaemon)
  BY DEF registerOk, Takes
<1>3. Tail(toDaemon) \in Seq(DaemonFrame) /\ OutKept(bot, dmn, Tail(toDaemon))
  BY <1>1, <1>2, TakenKept
<1>4. toBot' \in Seq(BotFrame) /\ InKept(bot, dmn, toBot')
  BY <1>1, PublishKept DEF registerOk, InKept
<1> QED
  BY <1>1, <1>2, <1>3, <1>4, DaemonStep
     DEF registerOk, Takes, HostInv, TypeOK, daemonVars

\* So does the timer of the publication.
LEMMA ScheduleKept ==
    ASSUME HostInv, scheduleReadinessPublication
    PROVE  HostInv'
<1>1. /\ bot \in BotTable /\ dmn \in DaemonTable /\ toBot \in Seq(BotFrame)
      /\ toDaemon \in Seq(DaemonFrame) /\ PhaseKept(bot, dmn) /\ InKept(bot, dmn, toBot)
      /\ OutKept(bot, dmn, toDaemon)
  BY InvTyped DEF HostInv
<1>2. toBot' \in Seq(BotFrame) /\ InKept(bot, dmn, toBot')
  BY <1>1, PublishKept DEF scheduleReadinessPublication, InKept
<1> QED
  BY <1>1, <1>2, DaemonStep DEF scheduleReadinessPublication, HostInv, TypeOK, daemonVars

\* A bind is of a binding the daemon did not know.
LEMMA BindKept ==
    ASSUME HostInv, acceptReceiptBinding
    PROVE  HostInv'
<1> DEFINE b == Taken
           D == [dmn EXCEPT ![b] = [phase |-> "reading", blocked |-> FALSE]]
<1>1. /\ bot \in BotTable /\ dmn \in DaemonTable /\ toBot \in Seq(BotFrame)
      /\ toDaemon \in Seq(DaemonFrame) /\ PhaseKept(bot, dmn) /\ InKept(bot, dmn, toBot)
      /\ OutKept(bot, dmn, toDaemon)
  BY InvTyped DEF HostInv
<1>2. /\ toDaemon # <<>> /\ Head(toDaemon)[1] = "bind" /\ toDaemon' = Tail(toDaemon)
      /\ b = Head(toDaemon)[2] /\ dmn' = D /\ toBot' = publishReadiness(D, toBot)
  BY DEF acceptReceiptBinding, Takes, Taken
<1>3. b \in Bind /\ bot[b].status # "none" /\ dmn[b].phase = "absent"
  BY <1>1, <1>2, TakenIs
<1>4. /\ D \in DaemonTable /\ D[b] = [phase |-> "reading", blocked |-> FALSE]
      /\ \A c \in Bind : c # b => D[c] = dmn[c]
  BY <1>1, <1>3 DEF DaemonTable, DaemonBinding
<1> HIDE DEF D, b
<1>5. Tail(toDaemon) \in Seq(DaemonFrame) /\ OutKept(bot, D, Tail(toDaemon))
  BY <1>1, <1>2, <1>3, <1>4, TakenKept
<1>6. PhaseKept(bot, D)
  BY <1>1, <1>3, <1>4 DEF PhaseKept
<1>7. InKept(bot, D, toBot)
  BY <1>1, <1>3, <1>4, PhasesMove DEF InKept
<1>8. toBot' \in Seq(BotFrame) /\ InKept(bot, D, toBot')
  BY <1>1, <1>2, <1>4, <1>6, <1>7, PublishKept DEF InKept
<1>9. probe # "failed" => \A c \in Bind : ~D[c].blocked
  BY <1>3, <1>4 DEF HostInv
<1>10. /\ up /\ UNCHANGED <<desired, routes, up, botVars, gen, refused, probe>>
       /\ unbound' \in BOOLEAN /\ probe' \in {"running", "passed", "failed"}
  BY DEF acceptReceiptBinding, Takes, HostInv, TypeOK
<1> QED
  BY <1>2, <1>4, <1>5, <1>6, <1>8, <1>9, <1>10, DaemonStep

\* A bind is decided: bind_ok goes out only with a proof.
LEMMA DecidedKept ==
    ASSUME HostInv, NEW b \in Bind, NEW how \in {"positive", "negative", "pending"},
           bindDecided(b, how)
    PROVE  HostInv'
<1> DEFINE D == [dmn EXCEPT ![b] = [phase |-> how, blocked |-> FALSE]]
           q == IF how = "positive" THEN Append(toBot, <<"bind_ok", b>>) ELSE toBot
<1>1. /\ bot \in BotTable /\ dmn \in DaemonTable /\ toBot \in Seq(BotFrame)
      /\ toDaemon \in Seq(DaemonFrame) /\ PhaseKept(bot, dmn) /\ InKept(bot, dmn, toBot)
      /\ OutKept(bot, dmn, toDaemon)
  BY InvTyped DEF HostInv
<1>2. dmn' = D /\ toBot' = publishReadiness(D, q) /\ dmn[b].phase = "reading"
  BY DEF bindDecided
<1>3. /\ D \in DaemonTable /\ D[b] = [phase |-> how, blocked |-> FALSE]
      /\ \A c \in Bind : c # b => D[c] = dmn[c]
  BY <1>1 DEF DaemonTable, DaemonBinding
<1> HIDE DEF D
<1>4. OutKept(bot, D, toDaemon)
  BY <1>1, <1>2, <1>3, OutMoves
<1>5. PhaseKept(bot, D)
  BY <1>1, <1>2, <1>3 DEF PhaseKept
<1>6. InKept(bot, D, toBot)
  BY <1>1, <1>2, <1>3, PhasesMove DEF InKept
<1>7. q \in Seq(BotFrame) /\ InKept(bot, D, q)
  <2>1. CASE how = "positive"
    <3>1. bot[b].status \notin {"none", "tombstone"}
      BY <1>1, <1>2 DEF PhaseKept
    <3>2. \A i \in 1 .. Len(toBot) : toBot[i] # <<"unbind_ok", b>>
      <4>1. \A i \in 1 .. Len(toBot) :
              toBot[i][1] = "unbind_ok" => dmn[toBot[i][2]].phase = "retired"
        BY <1>1 DEF InKept, LastFrames
      <4> QED
        BY <1>2, <4>1
    <3>3. D[b].phase = "positive"
      BY <1>3, <2>1
    <3> QED
      BY <1>1, <1>3, <1>6, <2>1, <3>1, <3>2, <3>3, AnswerKept
  <2>2. CASE how # "positive"
    BY <1>1, <1>6, <2>2
  <2> QED
    BY <2>1, <2>2
<1> HIDE DEF q
<1>8. toBot' \in Seq(BotFrame) /\ InKept(bot, D, toBot')
  BY <1>1, <1>2, <1>3, <1>5, <1>7, PublishKept DEF InKept
<1>9. probe # "failed" => \A c \in Bind : ~D[c].blocked
  BY <1>3 DEF HostInv
<1>10. /\ up /\ UNCHANGED <<desired, routes, up, botVars, gen, refused, probe, toDaemon>>
       /\ unbound' \in BOOLEAN /\ probe' \in {"running", "passed", "failed"}
  BY DEF bindDecided, HostInv, TypeOK
<1> QED
  BY <1>1, <1>2, <1>3, <1>4, <1>5, <1>8, <1>9, <1>10, DaemonStep

\* An admission that finds the inventory moved withdraws the proof and says so.
LEMMA StaleKept ==
    ASSUME HostInv, NEW b \in Bind, admissionStale(b)
    PROVE  HostInv'
<1> DEFINE D == [dmn EXCEPT ![b] = [phase |-> "negative", blocked |-> FALSE]]
           q == toBot
           r == publishReadiness(D, q)
<1>1. /\ bot \in BotTable /\ dmn \in DaemonTable /\ q \in Seq(BotFrame)
      /\ toDaemon \in Seq(DaemonFrame) /\ PhaseKept(bot, dmn) /\ InKept(bot, dmn, q)
      /\ OutKept(bot, dmn, toDaemon)
  BY InvTyped DEF HostInv
<1>2. dmn' = D /\ toBot' = r /\ dmn[b].phase = "positive" /\ probe = "passed"
  BY DEF admissionStale
<1>3. /\ D \in DaemonTable /\ D[b] = [phase |-> "negative", blocked |-> FALSE]
      /\ \A c \in Bind : c # b => D[c] = dmn[c]
  BY <1>1 DEF DaemonTable, DaemonBinding
<1>4. \A c \in Bind : ~D[c].blocked
  BY <1>2, <1>3 DEF HostInv
<1> HIDE DEF D, q, r
<1>5. OutKept(bot, D, toDaemon)
  BY <1>1, <1>2, <1>3, OutMoves
<1>6. PhaseKept(bot, D)
  BY <1>1, <1>2, <1>3 DEF PhaseKept
<1>7. LiveFrames(bot, D, q) /\ LastFrames(bot, D, q)
  BY <1>1, <1>2, <1>3, PhasesMove DEF InKept
<1>8. r \in Seq(BotFrame) /\ LiveFrames(bot, D, r) /\ LastFrames(bot, D, r)
  BY <1>1, <1>3, <1>6, <1>7, PublishKept DEF r
<1>9. /\ Extends(q, r) /\ Len(q) \in Nat /\ Len(r) \in Nat
      /\ \A i \in Len(q) + 1 .. Len(r) :
            r[i] = <<"host", 0>> \/ r[i][1] \in ReadinessKinds
      /\ \E i \in Len(q) + 1 .. Len(r) : r[i] = <<"negative", b>>
  <2>1. b \in Held(D) /\ readinessFrame(D, b) = <<"negative", b>>
    BY <1>3 DEF Held, readinessFrame
  <2> QED
    BY <2>1, <1>1, <1>3, <1>4, <1>8, Published, LenProperties DEF r
<1>10. TellsBound(bot, D, r)
  <2>1. \A i \in 1 .. Len(q) : Withdrawn(b, r, i) /\ Withdrawn(b, r, 0)
    BY <1>9 DEF Withdrawn
  <2>2. Withdrawn(b, r, 0)
    BY <1>9 DEF Withdrawn
  <2>3. \A c, i : Withdrawn(c, q, i) => Withdrawn(c, r, i)
    BY <1>9 DEF Withdrawn, Extends
  <2>4. ASSUME NEW i \in 1 .. Len(r), r[i][1] = "bind_ok"
        PROVE  \/ bot[r[i][2]].status = "unbinding" \/ D[r[i][2]].phase = "positive"
               \/ Withdrawn(r[i][2], r, i)
    <3>1. i \in 1 .. Len(q) /\ r[i] = q[i]
      BY <2>4, <1>9 DEF ReadinessKinds, Extends
    <3>2. q[i][2] \in Bind
      BY <2>4, <3>1, <1>1, ElementOfSeq, FrameKinds
    <3>3. \/ bot[q[i][2]].status = "unbinding" \/ dmn[q[i][2]].phase = "positive"
          \/ Withdrawn(q[i][2], q, i)
      BY <2>4, <3>1, <1>1 DEF InKept, TellsBound
    <3> QED
      BY <3>1, <3>2, <3>3, <2>1, <2>3, <1>3
  <2>5. \A c \in Bind : bot[c].status = "bound" => D[c].phase = "positive" \/ Withdrawn(c, r, 0)
    BY <2>2, <2>3, <1>1, <1>3 DEF InKept, TellsBound
  <2> QED
    BY <2>4, <2>5 DEF TellsBound
<1>11. /\ up /\ UNCHANGED <<desired, routes, up, botVars, gen, refused, probe, toDaemon>>
       /\ unbound' \in BOOLEAN /\ probe' \in {"running", "passed", "failed"}
  BY DEF admissionStale, HostInv, TypeOK
<1> QED
  BY <1>1, <1>2, <1>3, <1>4, <1>5, <1>6, <1>8, <1>10, <1>11, DaemonStep DEF InKept

\* A binding that the bot unbinds is retired or waits for its session.
LEMMA RetiredKept ==
    ASSUME NEW b \in Bind, NEW phase \in {"retiring", "retired"}, NEW answer \in BOOLEAN,
           bot \in BotTable, dmn \in DaemonTable, toBot \in Seq(BotFrame),
           PhaseKept(bot, dmn), InKept(bot, dmn, toBot), unbindAs(b, phase, answer),
           bot[b].status = "unbinding", dmn[b].phase # "retired",
           answer => phase = "retired"
    PROVE  /\ dmn' \in DaemonTable /\ dmn'[b] = [phase |-> phase, blocked |-> FALSE]
           /\ \A c \in Bind : c # b => dmn'[c] = dmn[c]
           /\ toBot' \in Seq(BotFrame) /\ PhaseKept(bot, dmn') /\ InKept(bot, dmn', toBot')
           /\ unbound \in BOOLEAN => unbound' \in BOOLEAN
<1> DEFINE D == [dmn EXCEPT ![b] = [phase |-> phase, blocked |-> FALSE]]
<1>1. dmn' = D /\ unbound' = (unbound \/ (phase = "retired" /\ Held(D) = {}))
      /\ toBot' = IF answer THEN Append(toBot, <<"unbind_ok", b>>) ELSE toBot
  BY DEF unbindAs
<1>2. /\ D \in DaemonTable /\ D[b] = [phase |-> phase, blocked |-> FALSE]
      /\ \A c \in Bind : c # b => D[c] = dmn[c]
  BY DEF DaemonTable, DaemonBinding
<1> HIDE DEF D
<1>3. PhaseKept(bot, D)
  BY <1>2 DEF PhaseKept
<1>4. InKept(bot, D, toBot)
  BY <1>2, PhasesMove DEF InKept
<1>5. toBot' \in Seq(BotFrame) /\ InKept(bot, D, toBot')
  <2>1. CASE answer
    <3>1. \A i \in 1 .. Len(toBot) : toBot[i] # <<"unbind_ok", b>>
      <4>1. \A i \in 1 .. Len(toBot) :
              toBot[i][1] = "unbind_ok" => dmn[toBot[i][2]].phase = "retired"
        BY DEF InKept, LastFrames
      <4> QED
        BY <4>1
    <3>2. D[b].phase = "retired"
      BY <1>2, <2>1
    <3> QED
      BY <1>1, <1>2, <1>4, <2>1, <3>1, <3>2, AnswerKept
  <2>2. CASE ~answer
    BY <1>1, <1>4, <2>2
  <2> QED
    BY <2>1, <2>2
<1>6. unbound \in BOOLEAN => unbound' \in BOOLEAN
  BY <1>1
<1> QED
  BY <1>1, <1>2, <1>3, <1>5, <1>6

\* An unbind is of a binding the bot has given up.
LEMMA UnbindKept ==
    ASSUME HostInv, unbindReceiptBinding
    PROVE  HostInv'
<1> DEFINE b == Taken
           proved == dmn[b].phase = "positive"
           phase == IF proved THEN "retiring" ELSE "retired"
<1>1. /\ bot \in BotTable /\ dmn \in DaemonTable /\ toBot \in Seq(BotFrame)
      /\ toDaemon \in Seq(DaemonFrame) /\ PhaseKept(bot, dmn) /\ InKept(bot, dmn, toBot)
      /\ OutKept(bot, dmn, toDaemon)
  BY InvTyped DEF HostInv
<1>2. /\ toDaemon # <<>> /\ Head(toDaemon)[1] = "unbind" /\ toDaemon' = Tail(toDaemon)
      /\ b = Head(toDaemon)[2] /\ unbindAs(b, phase, ~proved)
  BY DEF unbindReceiptBinding, Takes, Taken
<1>3. phase \in {"retiring", "retired"} /\ (~proved) \in BOOLEAN /\ (~proved => phase = "retired")
  OBVIOUS
<1> HIDE DEF b, phase, proved
<1>4. b \in Bind /\ bot[b].status = "unbinding" /\ dmn[b].phase \notin {"retiring", "retired"}
  BY <1>1, <1>2, TakenIs
<1>5. /\ dmn' \in DaemonTable /\ dmn'[b] = [phase |-> phase, blocked |-> FALSE]
      /\ \A c \in Bind : c # b => dmn'[c] = dmn[c]
      /\ toBot' \in Seq(BotFrame) /\ PhaseKept(bot, dmn') /\ InKept(bot, dmn', toBot')
      /\ unbound \in BOOLEAN => unbound' \in BOOLEAN
  BY <1>1, <1>2, <1>3, <1>4, RetiredKept
<1>6. Tail(toDaemon) \in Seq(DaemonFrame) /\ OutKept(bot, dmn', Tail(toDaemon))
  BY <1>1, <1>2, <1>5, TakenKept
<1>7. probe # "failed" => \A c \in Bind : ~dmn'[c].blocked
  BY <1>5 DEF HostInv
<1>8. /\ up /\ UNCHANGED <<desired, routes, up, botVars, gen, refused, probe>>
      /\ unbound \in BOOLEAN /\ probe' \in {"running", "passed", "failed"}
  BY DEF unbindReceiptBinding, Takes, HostInv, TypeOK
<1> QED
  BY <1>2, <1>5, <1>6, <1>7, <1>8, DaemonStep

\* The session of an unbound binding is retired, then the bot is answered.
LEMMA SessionRetiredKept ==
    ASSUME HostInv, NEW b \in Bind, sessionRetired(b)
    PROVE  HostInv'
<1>1. /\ bot \in BotTable /\ dmn \in DaemonTable /\ toBot \in Seq(BotFrame)
      /\ toDaemon \in Seq(DaemonFrame) /\ PhaseKept(bot, dmn) /\ InKept(bot, dmn, toBot)
      /\ OutKept(bot, dmn, toDaemon)
  BY InvTyped DEF HostInv
<1>2. dmn[b].phase = "retiring" /\ unbindAs(b, "retired", TRUE)
  BY DEF sessionRetired
<1>3. bot[b].status = "unbinding"
  BY <1>1, <1>2 DEF PhaseKept
<1>4. /\ dmn' \in DaemonTable /\ dmn'[b] = [phase |-> "retired", blocked |-> FALSE]
      /\ \A c \in Bind : c # b => dmn'[c] = dmn[c]
      /\ toBot' \in Seq(BotFrame) /\ PhaseKept(bot, dmn') /\ InKept(bot, dmn', toBot')
      /\ unbound \in BOOLEAN => unbound' \in BOOLEAN
  BY <1>1, <1>2, <1>3, RetiredKept
<1>5. OutKept(bot, dmn', toDaemon)
  BY <1>1, <1>2, <1>4, OutMoves
<1>6. probe # "failed" => \A c \in Bind : ~dmn'[c].blocked
  BY <1>4 DEF HostInv
<1>7. /\ up /\ UNCHANGED <<desired, routes, up, botVars, gen, refused, probe, toDaemon>>
      /\ unbound \in BOOLEAN /\ probe' \in {"running", "passed", "failed"}
  BY DEF sessionRetired, HostInv, TypeOK
<1> QED
  BY <1>1, <1>4, <1>5, <1>6, <1>7, DaemonStep

\* The probe blocks frames, it moves no binding.
LEMMA ProbeKept ==
    ASSUME HostInv, NEW passed \in BOOLEAN, probeReadiness(passed)
    PROVE  HostInv'
<1>1. /\ bot \in BotTable /\ dmn \in DaemonTable /\ toBot \in Seq(BotFrame)
      /\ toDaemon \in Seq(DaemonFrame) /\ PhaseKept(bot, dmn) /\ InKept(bot, dmn, toBot)
      /\ OutKept(bot, dmn, toDaemon)
  BY InvTyped DEF HostInv
<1>2. /\ dmn' \in DaemonTable /\ \A b \in Bind : dmn'[b].phase = dmn[b].phase
      /\ toBot' = publishReadiness(dmn', toBot)
  <2>1. CASE passed
    BY <1>1, <2>1 DEF probeReadiness, DaemonTable, DaemonBinding
  <2>2. CASE ~passed
    <3>1. dmn' = [b \in Bind |-> [dmn[b] EXCEPT !.blocked = b \in Held(dmn)]]
          /\ toBot' = publishReadiness(dmn', toBot)
      BY <2>2 DEF probeReadiness
    <3>2. ASSUME NEW b \in Bind, NEW h \in BOOLEAN
          PROVE  /\ [dmn[b] EXCEPT !.blocked = h] \in DaemonBinding
                 /\ [dmn[b] EXCEPT !.blocked = h].phase = dmn[b].phase
      BY <1>1 DEF DaemonTable, DaemonBinding
    <3>3. \A b \in Bind : (b \in Held(dmn)) \in BOOLEAN
      OBVIOUS
    <3>4. \A b \in Bind : dmn'[b] \in DaemonBinding /\ dmn'[b].phase = dmn[b].phase
      BY <3>1, <3>2, <3>3
    <3>5. dmn' \in DaemonTable
      BY <3>1, <3>4 DEF DaemonTable
    <3> QED
      BY <3>1, <3>4, <3>5
  <2> QED
    BY <2>1, <2>2
<1>3. /\ probe' \in {"running", "passed", "failed"}
      /\ probe' # "failed" => \A b \in Bind : ~dmn'[b].blocked
  BY <1>1 DEF probeReadiness, HostInv, DaemonTable, DaemonBinding
<1>4. PhaseKept(bot, dmn') /\ OutKept(bot, dmn', toDaemon) /\ InKept(bot, dmn', toBot)
  <2>1. PhaseKept(bot, dmn')
    BY <1>1, <1>2 DEF PhaseKept
  <2>2. OutKept(bot, dmn', toDaemon)
    BY <1>1, <1>2, OutMoves
  <2> QED
    BY <1>1, <1>2, <2>1, <2>2, PhasesMove DEF InKept
<1>5. toBot' \in Seq(BotFrame) /\ InKept(bot, dmn', toBot')
  BY <1>1, <1>2, <1>4, PublishKept DEF InKept
<1>6. /\ up /\ UNCHANGED <<desired, routes, up, botVars, gen, refused, toDaemon>>
      /\ unbound' \in BOOLEAN
  BY DEF probeReadiness, HostInv, TypeOK
<1> QED
  BY <1>1, <1>2, <1>3, <1>4, <1>5, <1>6, DaemonStep

\* What the bot hears of a binding it has and still waits for or routes through.
LEMMA HeardIs ==
    ASSUME HostInv, toBot # <<>>
    PROVE  /\ toBot \in Seq(BotFrame) /\ bot \in BotTable
           /\ Head(toBot) = <<Head(toBot)[1], Heard>> /\ Head(toBot) \in BotFrame
           /\ Head(toBot)[1] # "host" =>
                 /\ Heard \in Bind /\ dmn[Heard].phase # "absent"
                 /\ bot[Heard].status \in Routed \cup {"unbinding"}
                 /\ bot[Heard] \in BotBinding
           /\ Head(toBot)[1] = "unbind_ok" =>
                 /\ bot[Heard].status = "unbinding" /\ dmn[Heard].phase = "retired"
<1>1. /\ toBot \in Seq(BotFrame) /\ bot \in BotTable /\ InKept(bot, dmn, toBot)
      /\ Head(toBot) = toBot[1] /\ 1 \in 1 .. Len(toBot) /\ toBot[1] \in BotFrame
  BY InvTyped, HeadTailProperties, LenProperties, EmptySeq, ElementOfSeq DEF HostInv
<1>2. toBot[1] = <<toBot[1][1], toBot[1][2]>> /\ (toBot[1][1] # "host" => toBot[1][2] \in Bind)
  BY <1>1, FrameKinds DEF BotFrame
<1>3. toBot[1][1] # "host" => /\ bot[toBot[1][2]].status \notin {"none", "tombstone"}
                              /\ dmn[toBot[1][2]].phase # "absent"
  BY <1>1 DEF InKept, LiveFrames
<1>4. toBot[1][1] = "unbind_ok" => /\ bot[toBot[1][2]].status = "unbinding"
                                   /\ dmn[toBot[1][2]].phase = "retired"
  BY <1>1 DEF InKept, LastFrames
<1>5. toBot[1][1] # "host" => /\ bot[toBot[1][2]].status \in Routed \cup {"unbinding"}
                              /\ bot[toBot[1][2]] \in BotBinding
  BY <1>1, <1>2, <1>3, BotStatus DEF Routed
<1> QED
  BY <1>1, <1>2, <1>3, <1>4, <1>5 DEF Heard

\* The first host frame of a connection is taken, or ends it.
LEMMA HostFrameKept ==
    ASSUME HostInv, acceptReadiness
    PROVE  HostInv'
<1>1. up /\ toBot # <<>> /\ Head(toBot)[1] = "host"
  BY DEF acceptReadiness, Hears
<1>2. CASE authority.offline /\ gen <= authority.gen
  <2>1. lost /\ markOffline /\ refused' = "replayed"
    BY <1>2 DEF acceptReadiness, close
  <2> QED
    BY <2>1, LostKept
<1>3. CASE ~(authority.offline /\ gen <= authority.gen)
  <2>1. /\ authority' = [gen |-> gen, offline |-> FALSE] /\ toBot' = Tail(toBot)
        /\ UNCHANGED <<desired, routes, up, bot, byDesc, daemonVars, toDaemon, refused>>
    BY <1>3 DEF acceptReadiness
  <2>2. authority' \in [gen : 0 .. MaxGen, offline : BOOLEAN] /\ bot' \in BotTable
    BY <2>1, InvTyped DEF HostInv, TypeOK
  <2>3. \A b \in Bind : bot'[b] = bot[b] /\ Head(toBot) # <<"negative", b>>
    BY <1>1, <2>1
  <2> QED
    BY <1>1, <2>1, <2>2, <2>3, HearStep
<1> QED
  BY <1>2, <1>3

\* A readiness frame moves the binding it is about, or ends the connection when
\* the binding is already negative.
LEMMA ReadinessFrameKept ==
    ASSUME HostInv, acceptInventoryReceiptReadiness
    PROVE  HostInv'
<1> DEFINE b == Heard
           kind == Head(toBot)[1]
           x == bot[b]
<1>1. up /\ toBot # <<>> /\ kind \in {"pending", "negative", "positive"}
  BY DEF acceptInventoryReceiptReadiness, Hears
<1>2. /\ b \in Bind /\ x.status \in Routed \cup {"unbinding"} /\ x \in BotBinding
      /\ Head(toBot) = <<kind, b>> /\ bot \in BotTable
  BY <1>1, HeardIs
<1>3. CASE x.status \in {"none", "tombstone", "negative"}
  <2>1. lost /\ markOffline /\ refused' = x.status
    BY <1>3 DEF acceptInventoryReceiptReadiness, close
  <2>2. x.status = "negative"
    BY <1>2, <1>3 DEF Routed
  <2> QED
    BY <2>1, <2>2, LostKept
<1>4. CASE x.status \notin {"none", "tombstone", "negative"}
  <2>1. /\ toBot' = Tail(toBot)
        /\ UNCHANGED <<desired, routes, up, byDesc, authority, daemonVars, toDaemon, refused>>
    BY <1>4 DEF acceptInventoryReceiptReadiness
  <2>2. authority' \in [gen : 0 .. MaxGen, offline : BOOLEAN]
    BY <2>1 DEF HostInv, TypeOK
  <2>3. CASE x.status = "unbinding"
    <3>1. bot' = bot
      BY <1>4, <2>3 DEF acceptInventoryReceiptReadiness
    <3>2. \A c \in Bind : /\ bot'[c] = bot[c]
                          /\ Head(toBot) = <<"negative", c>> => bot[c].status # "bound"
      BY <3>1, <2>3, <1>2
    <3>3. bot' \in BotTable
      BY <3>1, <1>2
    <3> QED
      BY <1>1, <2>1, <2>2, <3>2, <3>3, HearStep
  <2>4. CASE x.status # "unbinding"
    <3>1. x.status \in {"binding", "pending", "bound"}
      BY <1>2, <1>4, <2>4 DEF Routed
    <3>2. PICK y \in BotBinding :
             /\ bot' = [bot EXCEPT ![b] = y]
             /\ y.desc = x.desc /\ y.status \in Routed
             /\ y.status = "bound" => x.status = "bound" /\ kind # "negative"
      <4>1. CASE kind = "pending"
        <5>1. bot' = [bot EXCEPT ![b] = [x EXCEPT !.status = "pending", !.held = FALSE]]
          BY <1>4, <2>4, <4>1 DEF acceptInventoryReceiptReadiness
        <5>2. /\ [x EXCEPT !.status = "pending", !.held = FALSE] \in BotBinding
              /\ [x EXCEPT !.status = "pending", !.held = FALSE].status = "pending"
              /\ [x EXCEPT !.status = "pending", !.held = FALSE].desc = x.desc
          BY <1>2 DEF BotBinding
        <5> QED
          BY <5>1, <5>2 DEF Routed
      <4>2. CASE kind = "negative"
        <5> DEFINE y == [x EXCEPT !.status = "negative", !.deadline = FALSE, !.held = FALSE]
        <5>1. bot' = [bot EXCEPT ![b] = y]
          BY <1>4, <2>4, <4>2 DEF acceptInventoryReceiptReadiness
        <5>2. y \in BotBinding /\ y.status = "negative" /\ y.desc = x.desc
          BY <1>2 DEF BotBinding
        <5> QED
          BY <5>1, <5>2 DEF Routed
      <4>3. CASE kind = "positive"
        <5> DEFINE y == IF x.status = "bound" THEN x ELSE [x EXCEPT !.held = TRUE]
        <5>1. bot' = [bot EXCEPT ![b] = y]
          BY <1>4, <2>4, <4>3 DEF acceptInventoryReceiptReadiness
        <5>2. y \in BotBinding /\ y.status = x.status /\ y.desc = x.desc
          BY <1>2 DEF BotBinding
        <5> QED
          BY <5>1, <5>2, <3>1, <4>3 DEF Routed
      <4> QED
        BY <1>1, <4>1, <4>2, <4>3
    <3>3. bot' \in BotTable /\ bot'[b] = y /\ \A c \in Bind : c # b => bot'[c] = bot[c]
      BY <1>2, <3>2 DEF BotTable
    <3>4. ASSUME NEW c \in Bind
          PROVE  \/ bot'[c] = bot[c] /\ (Head(toBot) = <<"negative", c>> => bot[c].status # "bound")
                 \/ /\ bot[c].status \in Routed /\ bot'[c].status \in Routed
                    /\ bot'[c].desc = bot[c].desc
                    /\ bot'[c].status = "bound"
                         => \/ Head(toBot) = <<"bind_ok", c>>
                            \/ bot[c].status = "bound" /\ Head(toBot) # <<"negative", c>>
      <4>1. CASE c = b
        BY <4>1, <1>2, <3>1, <3>2, <3>3 DEF Routed
      <4>2. CASE c # b
        BY <4>2, <1>2, <3>3
      <4> QED
        BY <4>1, <4>2
    <3> HIDE DEF b, kind, x
    <3> QED
      BY <1>1, <2>1, <2>2, <3>3, <3>4, HearStep
  <2> QED
    BY <2>3, <2>4
<1> QED
  BY <1>3, <1>4

\* A bind_ok makes a binding routable unless the routes have left it.
LEMMA BindOkKept ==
    ASSUME HostInv, acceptBindOk
    PROVE  HostInv'
<1> DEFINE b == Heard
           x == bot[b]
<1>1. up /\ toBot # <<>> /\ Head(toBot)[1] = "bind_ok"
  BY DEF acceptBindOk, Hears
<1>2. /\ b \in Bind /\ x.status \in Routed \cup {"unbinding"} /\ x \in BotBinding
      /\ Head(toBot) = <<"bind_ok", b>> /\ bot \in BotTable
  BY <1>1, HeardIs
<1>3. CASE x.status \in {"none", "tombstone", "negative"}
  <2>1. lost /\ markOffline /\ refused' = x.status
    BY <1>3 DEF acceptBindOk, close
  <2>2. x.status = "negative"
    BY <1>2, <1>3 DEF Routed
  <2> QED
    BY <2>1, <2>2, LostKept
<1>4. CASE x.status \notin {"none", "tombstone", "negative"}
  <2>1. /\ toBot' = Tail(toBot)
        /\ UNCHANGED <<desired, routes, up, byDesc, authority, daemonVars, toDaemon, refused>>
    BY <1>4 DEF acceptBindOk
  <2>2. authority' \in [gen : 0 .. MaxGen, offline : BOOLEAN]
    BY <2>1 DEF HostInv, TypeOK
  <2>3. CASE x.status \in {"unbinding", "bound"}
    <3>1. bot' = bot
      BY <1>4, <2>3 DEF acceptBindOk
    <3>2. \A c \in Bind : bot'[c] = bot[c] /\ Head(toBot) # <<"negative", c>>
      BY <3>1, <1>2
    <3>3. bot' \in BotTable
      BY <3>1, <1>2
    <3> QED
      BY <1>1, <2>1, <2>2, <3>2, <3>3, HearStep
  <2>4. CASE x.status \notin {"unbinding", "bound"}
    <3> DEFINE y == [x EXCEPT !.status = "bound", !.deadline = FALSE, !.held = FALSE]
    <3>1. bot' = [bot EXCEPT ![b].status = "bound", ![b].deadline = FALSE, ![b].held = FALSE]
      BY <1>4, <2>4 DEF acceptBindOk
    <3>2. y \in BotBinding /\ y.status = "bound" /\ y.desc = x.desc
      BY <1>2 DEF BotBinding
    <3>3. bot' \in BotTable /\ bot'[b] = y /\ \A c \in Bind : c # b => bot'[c] = bot[c]
      BY <1>2, <3>1, <3>2 DEF BotTable
    <3>4. ASSUME NEW c \in Bind
          PROVE  \/ bot'[c] = bot[c] /\ (Head(toBot) = <<"negative", c>> => bot[c].status # "bound")
                 \/ /\ bot[c].status \in Routed /\ bot'[c].status \in Routed
                    /\ bot'[c].desc = bot[c].desc
                    /\ bot'[c].status = "bound"
                         => \/ Head(toBot) = <<"bind_ok", c>>
                            \/ bot[c].status = "bound" /\ Head(toBot) # <<"negative", c>>
      <4>1. CASE c = b
        BY <4>1, <1>2, <2>4, <3>2, <3>3 DEF Routed
      <4>2. CASE c # b
        BY <4>2, <1>2, <3>3
      <4> QED
        BY <4>1, <4>2
    <3> HIDE DEF b, x, y
    <3> QED
      BY <1>1, <2>1, <2>2, <3>3, <3>4, HearStep
  <2> QED
    BY <2>3, <2>4
<1> QED
  BY <1>3, <1>4

\* An unbind_ok ends its binding, and the routes may bind again.
LEMMA UnbindOkKept ==
    ASSUME HostInv, acceptUnbindOk
    PROVE  HostInv'
<1> DEFINE b == Heard
           y == [bot[b] EXCEPT !.status = "tombstone", !.deadline = FALSE]
           k == [Book EXCEPT !.bot[b] = [@ EXCEPT !.status = "tombstone", !.deadline = FALSE]]
           q == Tail(toBot)
<1>1. /\ up /\ toBot # <<>> /\ Head(toBot)[1] = "unbind_ok" /\ toBot' = q
      /\ Keep(reconcileManagedBindings(k, desired))
      /\ UNCHANGED <<desired, routes, up, authority, daemonVars, refused>>
  BY DEF acceptUnbindOk, Hears
<1>2. /\ b \in Bind /\ bot[b].status = "unbinding" /\ bot[b] \in BotBinding
      /\ dmn[b].phase = "retired" /\ Head(toBot) = <<"unbind_ok", b>>
  BY <1>1, HeardIs
<1>3. /\ bot \in BotTable /\ dmn \in DaemonTable /\ toBot \in Seq(BotFrame)
      /\ toDaemon \in Seq(DaemonFrame) /\ PhaseKept(bot, dmn) /\ InKept(bot, dmn, toBot)
      /\ OutKept(bot, dmn, toDaemon) /\ BookKept(bot, byDesc)
      /\ byDesc \in [Desc -> 0 .. MaxBind]
  BY InvTyped DEF HostInv
<1>4. y \in BotBinding /\ y.status = "tombstone" /\ y.desc = bot[b].desc
  BY <1>2 DEF BotBinding
<1>5. /\ k.bot \in BotTable /\ k.byDesc = byDesc /\ k.out = toDaemon
      /\ k.bot[b] = y /\ \A c \in Bind : c # b => k.bot[c] = bot[c]
      /\ k = [bot |-> k.bot, byDesc |-> byDesc, out |-> toDaemon]
  <2>1. k = [bot |-> [bot EXCEPT ![b] = y], byDesc |-> byDesc, out |-> toDaemon]
    BY DEF Book
  <2>2. /\ [bot EXCEPT ![b] = y] \in BotTable /\ [bot EXCEPT ![b] = y][b] = y
        /\ \A c \in Bind : c # b => [bot EXCEPT ![b] = y][c] = bot[c]
    BY <1>2, <1>3, <1>4 DEF BotTable
  <2> HIDE DEF k, y, b
  <2> QED
    BY <2>1, <2>2
<1> HIDE DEF k, y, b, q
<1>6. k \in BookType
  BY <1>3, <1>5 DEF BookType
<1>7. BookKept(k.bot, byDesc)
  <2>1. \A d \in Desc : byDesc[d] # 0 => byDesc[d] \in Bind
    BY <1>3, HostBindingAssumption DEF Bind, HostBindingAssumption
  <2>2. \A c \in Bind : /\ k.bot[c].status \in Routed => c # b
                        /\ k.bot[c].status # "none" <=> bot[c].status # "none"
    BY <1>2, <1>4, <1>5 DEF Routed
  <2>3. \A c, e \in Bind : k.bot[c].status # "none" /\ e <= c => k.bot[e].status # "none"
    BY <1>3, <2>2 DEF BookKept
  <2>4. ASSUME NEW d \in Desc, byDesc[d] # 0
        PROVE  k.bot[byDesc[d]].status \in Routed /\ k.bot[byDesc[d]].desc = d
    <3>1. bot[byDesc[d]].status \in Routed /\ bot[byDesc[d]].desc = d
      BY <1>3, <2>4 DEF BookKept
    <3>2. byDesc[d] # b
      BY <1>2, <3>1 DEF Routed
    <3> QED
      BY <1>5, <2>1, <2>4, <3>1, <3>2
  <2>5. \A c \in Bind : k.bot[c].status \in Routed => byDesc[k.bot[c].desc] = c
    BY <1>3, <1>5, <2>2 DEF BookKept
  <2> QED
    BY <2>3, <2>4, <2>5 DEF BookKept
<1>8. PhaseKept(k.bot, dmn)
  BY <1>2, <1>3, <1>4, <1>5 DEF PhaseKept
<1>9. OutKept(k.bot, dmn, toDaemon)
  <2>1. \A i \in 1 .. Len(toDaemon) : toDaemon[i][1] \in {"bind", "unbind"}
                                        => toDaemon[i][2] \in Bind
    BY <1>3, ElementOfSeq, FrameKinds
  <2>2. \A i \in 1 .. Len(toDaemon) : toDaemon[i][1] \in {"bind", "unbind"}
                                        => toDaemon[i][2] # b
    BY <1>2, <1>3 DEF OutKept
  <2> QED
    BY <1>3, <1>5, <2>1, <2>2 DEF OutKept
<1>10. q \in Seq(BotFrame) /\ InKept(k.bot, dmn, q)
  <2>1. \A c \in Bind :
          \/ /\ k.bot[c].status = bot[c].status
             /\ Head(toBot) = <<"negative", c>> => bot[c].status # "bound"
          \/ Head(toBot) = <<"unbind_ok", c>> /\ k.bot[c].status = "tombstone"
    BY <1>2, <1>4, <1>5
  <2> QED
    BY <1>1, <1>3, <1>5, <2>1, HeardKept DEF q
<1>11. RestTyped' /\ desired' \in SUBSET Desc /\ desired' = desired /\ UNCHANGED <<dmn, probe>>
       /\ up' = TRUE
  BY <1>1, RestOfInv, InvTyped DEF RestTyped, daemonVars, HostInv, TypeOK
<1>12. probe' # "failed" => \A c \in Bind : ~dmn[c].blocked
  BY <1>11 DEF HostInv
<1> QED
  BY <1>1, <1>5, <1>6, <1>7, <1>8, <1>9, <1>10, <1>11, <1>12, BookStep

\* The connection is lost, or the fence of an old one is.
LEMMA EndKept ==
    ASSUME HostInv,
           closeEvent \/ retireAuthority \/ \E b \in Bind : bindingDeadline(b)
    PROVE  HostInv'
<1>1. CASE closeEvent \/ \E b \in Bind : bindingDeadline(b)
  <2>1. lost /\ markOffline /\ refused' = refused
    BY <1>1 DEF closeEvent, bindingDeadline
  <2> QED
    BY <2>1, LostKept, RestOfInv DEF RestTyped
<1>2. CASE retireAuthority
  <2>1. /\ UNCHANGED <<desired, routes, up, bot, byDesc, dmn, unbound, probe, gen, toDaemon,
                       toBot, refused>>
        /\ authority' \in [gen : 0 .. MaxGen, offline : BOOLEAN]
    BY <1>2, HostBindingAssumption
       DEF retireAuthority, daemonVars, HostBindingAssumption
  <2>2. TypeOK'
    BY <2>1 DEF HostInv, TypeOK
  <2>3. RoutesReconciled' /\ SocketKept'
    BY <2>1 DEF HostInv, RoutesReconciled, SocketKept, Used, Book
  <2> QED
    BY <2>1, <2>2, <2>3 DEF HostInv
<1> QED
  BY <1>1, <1>2

\* No step of the bot, of the daemon or of the network breaks the invariant.
LEMMA NextKept ==
    ASSUME HostInv, [Next]_vars
    PROVE  HostInv'
<1>1. CASE Next
  BY <1>1, RoutesKept, RegisterKept, EndKept, RestartKept, RegisterOkKept, BindKept, UnbindKept,
     ScheduleKept, StaleKept, SessionRetiredKept, DecidedKept, ProbeKept, HostFrameKept,
     ReadinessFrameKept, BindOkKept, UnbindOkKept DEF Next, BotHears
<1>2. CASE UNCHANGED vars
  <2>1. UNCHANGED <<desired, routes, up, bot, byDesc, authority, dmn, unbound, probe, gen,
                    toDaemon, toBot, refused>>
    BY <1>2 DEF vars
  <2>2. TypeOK' /\ RoutesReconciled' /\ SocketKept'
    BY <2>1 DEF HostInv, TypeOK, RoutesReconciled, SocketKept, Used, Book
  <2> QED
    BY <2>1, <2>2 DEF HostInv
<1> QED
  BY <1>1, <1>2

-----------------------------------------------------------------------------
(* The theorems.                                                           *)

\* In every state the bot's bindings, the daemon's and the frames between them
\* say of each other what HostInv says (host-registry.js
\* #reconcileManagedBindings, daemon.js acceptReceiptBinding and
\* unbindReceiptBinding, publishReadiness).
THEOREM HostInvariance == Spec => []HostInv
<1>1. Init => HostInv
  BY InitKept
<1>2. HostInv /\ [Next]_vars => HostInv'
  BY NextKept
<1> QED
  BY <1>1, <1>2, PTL DEF Spec

\* The bot's bindings follow its routes and the daemon's proofs, for any
\* descriptors, limits and bounds (#reconcileManagedBindings, #acceptBindOk,
\* #acceptReadiness, #unbindBinding).
THEOREM BindingsAlwaysAgree == Spec => []BindingsAgree
<1>1. HostInv => BindingsAgree
  <2> SUFFICES ASSUME HostInv PROVE BindingsAgree
    OBVIOUS
  <2>1. bot \in BotTable /\ dmn \in DaemonTable
    BY InvTyped
  <2>2. RoutedBindingIsDesired
    <3>1. ASSUME NEW b \in Bind, bot[b].status \in Routed
          PROVE  up /\ bot[b].desc \in desired /\ byDesc[bot[b].desc] = b
      <4>1. up
        BY <3>1 DEF HostInv, SocketKept, None, Routed
      <4> QED
        BY <3>1, <4>1 DEF HostInv, SocketKept, BookKept
    <3> QED
      BY <3>1 DEF RoutedBindingIsDesired, Routed
  <2>3. StaleBoundIsAnnounced
    BY DEF HostInv, InKept, TellsBound, Withdrawn, StaleBoundIsAnnounced
  <2>4. TombstoneRetired
    BY DEF HostInv, PhaseKept, TombstoneRetired
  <2> QED
    BY <2>2, <2>3, <2>4 DEF HostInv, BindingsAgree
<1> QED
  BY <1>1, HostInvariance, PTL

\* The bot never closes the websocket of a daemon for a frame that crossed one of
\* its own (#acceptInventoryReceiptReadiness, #acceptBindOk).
THEOREM CrossedFramesAlwaysTolerated == Spec => []CrossedFramesTolerated
<1>1. HostInv => CrossedFramesTolerated
  BY DEF HostInv, TypeOK, CrossedFramesTolerated
<1> QED
  BY <1>1, HostInvariance, PTL
=============================================================================
