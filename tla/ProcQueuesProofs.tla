--------------------------- MODULE ProcQueuesProofs ---------------------------
(***************************************************************************)
(* The links of pcb.c always stand for lists, and what its functions do to *)
(* these lists is what ProcLists promises, for any number of blocks and of *)
(* queues.                                                                 *)
(***************************************************************************)
EXTENDS ProcQueues, PcbLemmas

\* The memory m holds the queues Q, the lists of children K and the free list o.
Holds(m, Q, K, o) ==
    /\ m \in [Locations -> Pcb \cup {NULL}]
    /\ Q \in [ProcQ -> Seq(Pcb)]
    /\ K \in [Pcb -> Seq(Pcb)]
    /\ o \in Seq(Pcb) /\ IsInjective(o) /\ Linked(m, "p_next", FreeHead, o)
    /\ \A q \in ProcQ : /\ IsInjective(Q[q]) /\ Ring(m, tail(q), Q[q])
                        /\ Range(Q[q]) \cap Range(o) = {}
    /\ \A p \in Pcb : /\ IsInjective(K[p]) /\ Family(m, p, K[p])
                      /\ Range(K[p]) \cap Range(o) = {}
                      /\ p \in Range(o) => K[p] = <<>>
    /\ \A q, r \in ProcQ : q # r => Range(Q[q]) \cap Range(Q[r]) = {}
    /\ \A p, r \in Pcb : p # r => Range(K[p]) \cap Range(K[r]) = {}

FreeList == ListFrom(mem, "p_next", mem[FreeHead])

\* A block that was in no tree since it was allocated has no relatives.
Orphans(m, S) ==
    \A p \in S : m[parent(p)] = NULL /\ m[nextSib(p)] = NULL /\ m[prevSib(p)] = NULL

IInv ==
    /\ Holds(mem, queue, kids, FreeList)
    /\ free = Range(FreeList)
    /\ used \subseteq Pcb /\ used \cap free = {} /\ Kids \subseteq used
    /\ Orphans(mem, Pcb \ (free \cup used))
    /\ result \in Pcb \cup {NULL}

LEMMA MemoryType ==
  ASSUME NEW m \in [Locations -> Pcb \cup {NULL}]
  PROVE  /\ IsMemory(m)
         /\ \A n, L : Changes(m, n, L) => n \in [Locations -> Pcb \cup {NULL}]
<1>1. IsMemory(m)
  BY DEF IsMemory
<1>2. ASSUME NEW n, NEW L, Changes(m, n, L) PROVE n \in [Locations -> Pcb \cup {NULL}]
  <2>1. \A l \in Locations : n[l] \in Pcb \cup {NULL}
    BY <1>2 DEF Changes
  <2>2. n = [l \in Locations |-> n[l]]
    BY <1>2 DEF Changes
  <2> QED
    BY <2>1, <2>2
<1> QED
  BY <1>1, <1>2

(* A queue and a list of children have no location in common, and neither  *)
(* has one with those of other queues or lists, or with what the free list *)
(* is made of.                                                             *)
LEMMA Apart ==
  ASSUME NEW q \in ProcQ, NEW R \in SUBSET Pcb
  PROVE  /\ \A r \in ProcQ, T \in SUBSET Pcb : r # q /\ R \cap T = {} =>
               QueueLocs(tail(q), R) \cap QueueLocs(tail(r), T) = {}
         /\ \A par \in Pcb, T \in SUBSET Pcb :
               QueueLocs(tail(q), R) \cap FamilyLocs(par, T) = {}
         /\ FreeHead \notin QueueLocs(tail(q), R)
         /\ \A T \in SUBSET Pcb : R \cap T = {} =>
               QueueLocs(tail(q), R) \cap ({"p_next"} \X T) = {}
BY DEF QueueLocs, FamilyLocs, tail, child, FreeHead

LEMMA FamiliesApart ==
  ASSUME NEW par \in Pcb, NEW R \in SUBSET Pcb
  PROVE  /\ \A r \in Pcb, T \in SUBSET Pcb : r # par /\ R \cap T = {} =>
               FamilyLocs(par, R) \cap FamilyLocs(r, T) = {}
         /\ FreeHead \notin FamilyLocs(par, R)
         /\ \A T : FamilyLocs(par, R) \cap ({"p_next"} \X T) = {}
BY DEF FamilyLocs, tail, child, FreeHead

(* What the lists of a memory that holds lists are. *)
LEMMA ViewsAre ==
  ASSUME NEW m, NEW Q, NEW K, NEW o, Holds(m, Q, K, o)
  PROVE  /\ Views(m).queue = Q
         /\ Views(m).kids = K
         /\ Views(m).free = Range(o)
         /\ ListFrom(m, "p_next", m[FreeHead]) = o
<1>1. ASSUME NEW q \in ProcQ PROVE QueueAt(m, tail(q)) = Q[q]
  <2>1. Q[q] \in Seq(Pcb) /\ IsInjective(Q[q]) /\ Ring(m, tail(q), Q[q])
    BY DEF Holds
  <2> QED
    BY <2>1, RingIsQueue
<1>2. ASSUME NEW p \in Pcb PROVE KidsOf(m, p) = K[p]
  <2>1. /\ K[p] \in Seq(Pcb) /\ IsInjective(K[p])
        /\ Linked(m, "p_nextSib", child(p), K[p])
    BY DEF Holds, Family
  <2>2. Len(K[p]) <= N + 2
    BY <2>1, ListLen, BlocksCount
  <2> QED
    BY <2>1, <2>2, LinkedList, BlockAssumption DEF KidsOf
<1>3. ListFrom(m, "p_next", m[FreeHead]) = o
  <2>1. o \in Seq(Pcb) /\ IsInjective(o) /\ Linked(m, "p_next", FreeHead, o)
    BY DEF Holds
  <2>2. Len(o) <= N + 2
    BY <2>1, ListLen, BlocksCount
  <2> QED
    BY <2>1, <2>2, LinkedList, BlockAssumption
<1>4. Q = [q \in ProcQ |-> Q[q]] /\ K = [p \in Pcb |-> K[p]]
  BY DEF Holds
<1>5. Views(m).queue = Q
  <2>1. Views(m).queue = [q \in ProcQ |-> QueueAt(m, tail(q))]
    BY DEF Views
  <2> QED
    BY <1>1, <1>4, <2>1
<1>6. Views(m).kids = K
  <2>1. Views(m).kids = [p \in Pcb |-> KidsOf(m, p)]
    BY DEF Views
  <2> QED
    BY <1>2, <1>4, <2>1
<1>7. Views(m).free = Range(o)
  BY <1>3 DEF Views, FreeBlocks, Range
<1> QED
  BY <1>3, <1>5, <1>6, <1>7

(* One queue changes, in the locations of blocks that are on no other list. *)
LEMMA HoldsQueue ==
  ASSUME NEW m, NEW Q, NEW K, NEW o, Holds(m, Q, K, o),
         NEW q \in ProcQ, NEW n, NEW s \in Seq(Pcb), IsInjective(s), NEW R \in SUBSET Pcb,
         Changes(m, n, QueueLocs(tail(q), R)), Ring(n, tail(q), s), Range(s) \subseteq R,
         R \cap Range(o) = {}, \A r \in ProcQ \ {q} : R \cap Range(Q[r]) = {}
  PROVE  Holds(n, [Q EXCEPT ![q] = s], K, o)
<1> DEFINE L == QueueLocs(tail(q), R)  P == [Q EXCEPT ![q] = s]
<1>1. /\ m \in [Locations -> Pcb \cup {NULL}] /\ IsMemory(m)
      /\ n \in [Locations -> Pcb \cup {NULL}]
  BY MemoryType DEF Holds
<1>2. /\ P \in [ProcQ -> Seq(Pcb)] /\ P[q] = s
      /\ \A r \in ProcQ \ {q} : P[r] = Q[r]
  BY DEF Holds
<1>3. o \in Seq(Pcb) /\ IsInjective(o) /\ Linked(n, "p_next", FreeHead, o)
  <2>1. o \in Seq(Pcb) /\ IsInjective(o) /\ Linked(m, "p_next", FreeHead, o)
    BY DEF Holds
  <2>2. Range(o) \subseteq Pcb
    BY <2>1, RangeOf
  <2>3. {"p_next"} \X Range(o) \subseteq DOMAIN m /\ FreeHead \in DOMAIN m
    BY <1>1, <2>2 DEF Locations, Fields
  <2>4. FreeHead \notin L /\ L \cap ({"p_next"} \X Range(o)) = {}
    BY <2>2, Apart
  <2> QED
    BY <2>1, <2>3, <2>4, LinkedFrame
<1>4. ASSUME NEW r \in ProcQ
      PROVE  IsInjective(P[r]) /\ Ring(n, tail(r), P[r]) /\ Range(P[r]) \cap Range(o) = {}
  <2>1. CASE r = q
    BY <1>2, <2>1
  <2>2. CASE r # q
    <3>1. /\ Q[r] \in Seq(Pcb) /\ IsInjective(Q[r]) /\ Ring(m, tail(r), Q[r])
          /\ Range(Q[r]) \cap Range(o) = {} /\ P[r] = Q[r]
      BY <1>2, <2>2 DEF Holds
    <3>2. Range(Q[r]) \in SUBSET Pcb /\ R \cap Range(Q[r]) = {}
      BY <2>2, <3>1, RangeOf
    <3>3. L \cap QueueLocs(tail(r), Range(Q[r])) = {}
      BY <2>2, <3>2, Apart
    <3>4. Ring(n, tail(r), Q[r])
      BY <1>1, <3>1, <3>3, RingFrame
    <3> QED
      BY <3>1, <3>4
  <2> QED
    BY <2>1, <2>2
<1>5. ASSUME NEW p \in Pcb PROVE Family(n, p, K[p])
  <2>1. K[p] \in Seq(Pcb) /\ Family(m, p, K[p])
    BY DEF Holds
  <2>2. L \cap FamilyLocs(p, Range(K[p])) = {}
    BY <2>1, RangeOf, Apart
  <2> QED
    BY <1>1, <2>1, <2>2, FamilyFrame
<1>6. \A a, b \in ProcQ : a # b => Range(P[a]) \cap Range(P[b]) = {}
  <2> SUFFICES ASSUME NEW a \in ProcQ, NEW b \in ProcQ, a # b
               PROVE  Range(P[a]) \cap Range(P[b]) = {}
    OBVIOUS
  <2>1. Range(Q[a]) \cap Range(Q[b]) = {}
    BY DEF Holds
  <2> QED
    BY <1>2, <2>1
<1>7. /\ K \in [Pcb -> Seq(Pcb)]
      /\ \A p \in Pcb : /\ IsInjective(K[p]) /\ Range(K[p]) \cap Range(o) = {}
                        /\ p \in Range(o) => K[p] = <<>>
      /\ \A p, r \in Pcb : p # r => Range(K[p]) \cap Range(K[r]) = {}
  BY DEF Holds
<1> QED
  BY <1>1, <1>2, <1>3, <1>4, <1>5, <1>6, <1>7 DEF Holds

(* The children of one block change. *)
LEMMA HoldsFamily ==
  ASSUME NEW m, NEW Q, NEW K, NEW o, Holds(m, Q, K, o),
         NEW par \in Pcb \ Range(o), NEW n, NEW s \in Seq(Pcb), IsInjective(s),
         NEW R \in SUBSET Pcb,
         Changes(m, n, FamilyLocs(par, R)), Family(n, par, s), Range(s) \subseteq R,
         R \cap Range(o) = {}, \A r \in Pcb \ {par} : R \cap Range(K[r]) = {}
  PROVE  Holds(n, Q, [K EXCEPT ![par] = s], o)
<1> DEFINE L == FamilyLocs(par, R)  P == [K EXCEPT ![par] = s]
<1>1. /\ m \in [Locations -> Pcb \cup {NULL}] /\ IsMemory(m)
      /\ n \in [Locations -> Pcb \cup {NULL}]
  BY MemoryType DEF Holds
<1>2. /\ P \in [Pcb -> Seq(Pcb)] /\ P[par] = s
      /\ \A r \in Pcb \ {par} : P[r] = K[r]
  BY DEF Holds
<1>3. o \in Seq(Pcb) /\ IsInjective(o) /\ Linked(n, "p_next", FreeHead, o)
  <2>1. o \in Seq(Pcb) /\ IsInjective(o) /\ Linked(m, "p_next", FreeHead, o)
    BY DEF Holds
  <2>2. Range(o) \subseteq Pcb
    BY <2>1, RangeOf
  <2>3. {"p_next"} \X Range(o) \subseteq DOMAIN m /\ FreeHead \in DOMAIN m
    BY <1>1, <2>2 DEF Locations, Fields
  <2>4. FreeHead \notin L /\ L \cap ({"p_next"} \X Range(o)) = {}
    BY FamiliesApart
  <2> QED
    BY <2>1, <2>3, <2>4, LinkedFrame
<1>4. ASSUME NEW q \in ProcQ PROVE Ring(n, tail(q), Q[q])
  <2>1. Q[q] \in Seq(Pcb) /\ Ring(m, tail(q), Q[q])
    BY DEF Holds
  <2>2. Range(Q[q]) \in SUBSET Pcb
    BY <2>1, RangeOf
  <2>3. L \cap QueueLocs(tail(q), Range(Q[q])) = {}
    BY <2>2, Apart
  <2> QED
    BY <1>1, <2>1, <2>3, RingFrame
<1>5. ASSUME NEW p \in Pcb
      PROVE  /\ IsInjective(P[p]) /\ Family(n, p, P[p]) /\ Range(P[p]) \cap Range(o) = {}
             /\ p \in Range(o) => P[p] = <<>>
  <2>1. CASE p = par
    BY <1>2, <2>1
  <2>2. CASE p # par
    <3>1. /\ K[p] \in Seq(Pcb) /\ IsInjective(K[p]) /\ Family(m, p, K[p])
          /\ Range(K[p]) \cap Range(o) = {} /\ P[p] = K[p]
          /\ p \in Range(o) => K[p] = <<>>
      BY <1>2, <2>2 DEF Holds
    <3>2. Range(K[p]) \in SUBSET Pcb /\ R \cap Range(K[p]) = {}
      BY <2>2, <3>1, RangeOf
    <3>3. L \cap FamilyLocs(p, Range(K[p])) = {}
      BY <2>2, <3>2, FamiliesApart
    <3>4. Family(n, p, K[p])
      BY <1>1, <3>1, <3>3, FamilyFrame
    <3> QED
      BY <3>1, <3>4
  <2> QED
    BY <2>1, <2>2
<1>6. \A a, b \in Pcb : a # b => Range(P[a]) \cap Range(P[b]) = {}
  <2> SUFFICES ASSUME NEW a \in Pcb, NEW b \in Pcb, a # b
               PROVE  Range(P[a]) \cap Range(P[b]) = {}
    OBVIOUS
  <2>1. Range(K[a]) \cap Range(K[b]) = {}
    BY DEF Holds
  <2> QED
    BY <1>2, <2>1
<1>7. /\ Q \in [ProcQ -> Seq(Pcb)]
      /\ \A q \in ProcQ : IsInjective(Q[q]) /\ Range(Q[q]) \cap Range(o) = {}
      /\ \A q, r \in ProcQ : q # r => Range(Q[q]) \cap Range(Q[r]) = {}
  BY DEF Holds
<1> QED
  BY <1>1, <1>2, <1>3, <1>4, <1>5, <1>6, <1>7 DEF Holds

(* A block that is on no other list comes to the free list. *)
LEMMA HoldsFree ==
  ASSUME NEW m, NEW Q, NEW K, NEW o, Holds(m, Q, K, o),
         NEW p \in Pcb \ Range(o), K[p] = <<>>,
         \A q \in ProcQ : p \notin Range(Q[q]), \A r \in Pcb : p \notin Range(K[r])
  PROVE  /\ Holds(freePcb(m, p), Q, K, <<p>> \o o)
         /\ Range(<<p>> \o o) = Range(o) \cup {p}
         /\ Changes(m, freePcb(m, p), {FreeHead, next(p)})
<1> DEFINE n == freePcb(m, p)  t == <<p>> \o o  L == {FreeHead, next(p)}
<1>1. m \in [Locations -> Pcb \cup {NULL}] /\ IsMemory(m)
  BY MemoryType DEF Holds
<1>2. o \in Seq(Pcb) /\ IsInjective(o) /\ Linked(m, "p_next", FreeHead, o)
  BY DEF Holds
<1>3. Linked(n, "p_next", FreeHead, t) /\ Changes(m, n, L)
  BY <1>1, <1>2, FreeLinked
<1>4. t \in Seq(Pcb) /\ IsInjective(t) /\ Range(t) = Range(o) \cup {p}
  BY <1>2, PrependMembers
<1>5. n \in [Locations -> Pcb \cup {NULL}]
  BY <1>1, <1>3, MemoryType
<1> HIDE DEF n, t, L
<1>6. ASSUME NEW q \in ProcQ PROVE Ring(n, tail(q), Q[q]) /\ Range(Q[q]) \cap Range(t) = {}
  <2>1. /\ Q[q] \in Seq(Pcb) /\ Ring(m, tail(q), Q[q])
        /\ Range(Q[q]) \cap Range(o) = {} /\ p \notin Range(Q[q])
    BY DEF Holds
  <2>2. L \cap QueueLocs(tail(q), Range(Q[q])) = {}
    BY <2>1 DEF QueueLocs, next, tail, FreeHead, L
  <2> QED
    BY <1>1, <1>3, <1>4, <2>1, <2>2, RingFrame
<1>7. ASSUME NEW r \in Pcb
      PROVE  /\ Family(n, r, K[r]) /\ Range(K[r]) \cap Range(t) = {}
             /\ r \in Range(t) => K[r] = <<>>
  <2>1. /\ K[r] \in Seq(Pcb) /\ Family(m, r, K[r]) /\ Range(K[r]) \cap Range(o) = {}
        /\ p \notin Range(K[r])
        /\ r \in Range(o) => K[r] = <<>>
    BY DEF Holds
  <2>2. L \cap FamilyLocs(r, Range(K[r])) = {}
    BY DEF FamilyLocs, next, child, FreeHead, L
  <2> QED
    BY <1>1, <1>3, <1>4, <2>1, <2>2, FamilyFrame
<1>8. /\ Q \in [ProcQ -> Seq(Pcb)] /\ K \in [Pcb -> Seq(Pcb)]
      /\ \A q \in ProcQ : IsInjective(Q[q])
      /\ \A r \in Pcb : IsInjective(K[r])
      /\ \A q, r \in ProcQ : q # r => Range(Q[q]) \cap Range(Q[r]) = {}
      /\ \A a, r \in Pcb : a # r => Range(K[a]) \cap Range(K[r]) = {}
  BY DEF Holds
<1>9. Holds(n, Q, K, t)
  BY <1>3, <1>4, <1>5, <1>6, <1>7, <1>8 DEF Holds
<1> QED
  BY <1>3, <1>4, <1>9 DEF n, t, L

(* The first free block is taken. *)
LEMMA HoldsAlloc ==
  ASSUME NEW m, NEW Q, NEW K, NEW o, Holds(m, Q, K, o), o # <<>>
  PROVE  /\ Holds(allocPcb(m).mem, Q, K, Tail(o))
         /\ allocPcb(m).ptr = Head(o)
         /\ Head(o) \in Range(o) /\ Range(Tail(o)) = Range(o) \ {Head(o)}
         /\ Changes(m, allocPcb(m).mem, {FreeHead} \cup (Fields \X {Head(o)}))
         /\ Orphans(allocPcb(m).mem, {Head(o)})
<1> DEFINE n == allocPcb(m).mem  t == Tail(o)  p == Head(o)
           L == {FreeHead} \cup (Fields \X {p})
<1>1. m \in [Locations -> Pcb \cup {NULL}] /\ IsMemory(m)
  BY MemoryType DEF Holds
<1>2. o \in Seq(Pcb) /\ IsInjective(o) /\ Linked(m, "p_next", FreeHead, o)
  BY DEF Holds
<1>3. /\ allocPcb(m).ptr = p /\ Linked(n, "p_next", FreeHead, t) /\ Changes(m, n, L)
      /\ \A l \in Fields \X {p} : n[l] = NULL
  BY <1>1, <1>2, AllocLinked
<1>4. /\ t \in Seq(Pcb) /\ IsInjective(t) /\ Range(t) = Range(o) \ {p}
      /\ p \in Range(o) /\ p \in Pcb
  BY <1>2, RangeTail
<1>5. n \in [Locations -> Pcb \cup {NULL}]
  BY <1>1, <1>3, MemoryType
<1> HIDE DEF n, t, L, p
<1>6. ASSUME NEW q \in ProcQ PROVE Ring(n, tail(q), Q[q]) /\ Range(Q[q]) \cap Range(t) = {}
  <2>1. /\ Q[q] \in Seq(Pcb) /\ Ring(m, tail(q), Q[q])
        /\ Range(Q[q]) \cap Range(o) = {} /\ p \notin Range(Q[q])
    BY <1>4 DEF Holds
  <2>2. L \cap QueueLocs(tail(q), Range(Q[q])) = {}
    BY <2>1 DEF QueueLocs, Fields, tail, FreeHead, L
  <2> QED
    BY <1>1, <1>3, <1>4, <2>1, <2>2, RingFrame
<1>7. ASSUME NEW r \in Pcb
      PROVE  /\ Family(n, r, K[r]) /\ Range(K[r]) \cap Range(t) = {}
             /\ r \in Range(t) => K[r] = <<>>
  <2>1. /\ K[r] \in Seq(Pcb) /\ Family(m, r, K[r]) /\ Range(K[r]) \cap Range(o) = {}
        /\ p \notin Range(K[r])
        /\ r \in Range(o) => K[r] = <<>>
    BY <1>4 DEF Holds
  <2>2. CASE r = p
    <3>1. n[child(p)] = NULL
      BY <1>3 DEF child, Fields
    <3>2. Family(n, p, <<>>)
      BY <3>1, FamilyFacts
    <3> QED
      BY <1>4, <2>1, <2>2, <3>2
  <2>3. CASE r # p
    <3>1. L \cap FamilyLocs(r, Range(K[r])) = {}
      <4> DEFINE S == Range(K[r])
      <4>1. p \notin S
        BY <2>1
      <4> HIDE DEF S
      <4>2. (Fields \X {p}) \cap ({"p_nextSib", "p_prevSib", "p_parent"} \X S) = {}
        BY <4>1
      <4>3. child(r) \notin L /\ FreeHead \notin FamilyLocs(r, S)
        BY <2>3 DEF child, FreeHead, FamilyLocs, L
      <4> QED
        BY <4>2, <4>3 DEF FamilyLocs, L, S
    <3> QED
      BY <1>1, <1>3, <1>4, <2>1, <3>1, FamilyFrame
  <2> QED
    BY <2>2, <2>3
<1>8. /\ Q \in [ProcQ -> Seq(Pcb)] /\ K \in [Pcb -> Seq(Pcb)]
      /\ \A q \in ProcQ : IsInjective(Q[q])
      /\ \A r \in Pcb : IsInjective(K[r])
      /\ \A q, r \in ProcQ : q # r => Range(Q[q]) \cap Range(Q[r]) = {}
      /\ \A a, r \in Pcb : a # r => Range(K[a]) \cap Range(K[r]) = {}
  BY DEF Holds
<1>9. Holds(n, Q, K, t)
  BY <1>3, <1>4, <1>5, <1>6, <1>7, <1>8 DEF Holds
<1>10. Orphans(n, {p})
  BY <1>3 DEF Orphans, Fields, parent, nextSib, prevSib
<1> QED
  BY <1>3, <1>4, <1>9, <1>10 DEF n, t, L, p

------------------------------------------------------------------------------
(* The invariant. *)

(* After initPcbs() all blocks are free. *)
LEMMA InitHolds ==
  ASSUME Init
  PROVE  /\ Holds(mem, queue, kids, FreeList) /\ free = Pcb /\ free = Range(FreeList)
         /\ queue = [q \in ProcQ |-> <<>>] /\ kids = [p \in Pcb |-> <<>>]
<1> DEFINE nulls == [l \in Locations |-> NULL]
           Q == [q \in ProcQ |-> <<>>]  K == [p \in Pcb |-> <<>>]
<1>1. PICK order \in Orders(Pcb) :
         /\ mem = Stacked(nulls, FreeHead, "p_next", order)
         /\ queue = Views(mem).queue
         /\ kids = Views(mem).kids
         /\ free = Views(mem).free
  BY DEF Init
<1>2. /\ order \in Seq(Pcb) /\ IsInjective(order) /\ Range(order) = Pcb
      /\ order # <<>>
  <2>1. order \in Seq(Pcb) /\ IsInjective(order) /\ Range(order) = Pcb
    BY OrderFacts, BlockAssumption
  <2> QED
    BY <2>1, BlockAssumption, EmptyQueue
<1>3. /\ DOMAIN nulls = Locations /\ FreeHead \in Locations
      /\ {"p_next"} \X Pcb \subseteq Locations /\ FreeHead \notin {"p_next"} \X Pcb
      /\ \A x \in Pcb : nulls[<<"p_next", x>>] = NULL
      /\ \A l \in Locations : nulls[l] = NULL
  BY DEF Locations, Fields, FreeHead
<1> HIDE DEF nulls
<1>4. /\ Linked(mem, "p_next", FreeHead, order)
      /\ mem = [l \in Locations |-> mem[l]]
      /\ \A l \in Locations \ ({FreeHead} \cup ({"p_next"} \X Pcb)) : mem[l] = NULL
  <2> DEFINE st == Stacked(nulls, FreeHead, "p_next", order)
  <2>1. Blank(nulls, FreeHead, "p_next", Pcb)
    BY <1>3 DEF Blank
  <2>2. /\ Linked(st, "p_next", FreeHead, order)
        /\ st = [l \in DOMAIN nulls |-> st[l]]
        /\ \A l \in DOMAIN nulls \ ({FreeHead} \cup ({"p_next"} \X Pcb)) : st[l] = nulls[l]
    BY <1>2, <2>1, StackedLinked
  <2> HIDE DEF st
  <2>3. mem = st
    BY <1>1 DEF st
  <2> QED
    BY <1>3, <2>2, <2>3
<1>5. mem \in [Locations -> Pcb \cup {NULL}]
  <2>1. ASSUME NEW x \in Pcb PROVE mem[<<"p_next", x>>] \in Pcb \cup {NULL}
    <3>1. PICK i \in 1 .. Len(order) : order[i] = x
      BY <1>2, RangeOf
    <3>2. i # Len(order) => order[i + 1] \in Pcb
      BY <1>2
    <3> QED
      BY <1>4, <3>1, <3>2 DEF Linked
  <2>2. mem[FreeHead] \in Pcb
    BY <1>2, <1>4 DEF Linked
  <2>3. \A l \in Locations : mem[l] \in Pcb \cup {NULL}
    BY <1>4, <2>1, <2>2
  <2> QED
    BY <1>4, <2>3
<1>6. ASSUME NEW q \in ProcQ PROVE Ring(mem, tail(q), <<>>)
  <2>1. tail(q) \in Locations \ ({FreeHead} \cup ({"p_next"} \X Pcb))
    BY LocationFacts DEF tail, FreeHead
  <2> QED
    BY <1>4, <2>1 DEF Ring
<1>7. ASSUME NEW p \in Pcb PROVE Family(mem, p, <<>>)
  <2>1. child(p) \in Locations \ ({FreeHead} \cup ({"p_next"} \X Pcb))
    BY LocationFacts DEF child, FreeHead
  <2> QED
    BY <1>4, <2>1, FamilyFacts
<1>8. /\ Q \in [ProcQ -> Seq(Pcb)] /\ K \in [Pcb -> Seq(Pcb)]
      /\ \A q \in ProcQ : Q[q] = <<>>
      /\ \A p \in Pcb : K[p] = <<>>
  OBVIOUS
<1> HIDE DEF Q, K
<1>9. Holds(mem, Q, K, order)
  BY <1>2, <1>4, <1>5, <1>6, <1>7, <1>8, EmptyQueue DEF Holds
<1>10. queue = Q /\ kids = K /\ FreeList = order /\ free = Pcb
  BY <1>1, <1>2, <1>9, ViewsAre DEF FreeList
<1> QED
  BY <1>2, <1>9, <1>10 DEF Q, K

LEMMA InitInvariant == Init => IInv
<1> SUFFICES ASSUME Init PROVE IInv
  OBVIOUS
<1>1. /\ Holds(mem, queue, kids, FreeList) /\ free = Pcb /\ free = Range(FreeList)
      /\ kids = [p \in Pcb |-> <<>>]
  BY InitHolds
<1>2. used = {} /\ result = NULL
  BY DEF Init
<1>3. Kids = {}
  BY <1>1, EmptyQueue DEF Kids
<1>4. Orphans(mem, Pcb \ (free \cup used))
  BY <1>1 DEF Orphans
<1> QED
  BY <1>1, <1>2, <1>3, <1>4 DEF IInv

(* The operators of ProcLists are those of ProcQueues. *)
LEMMA SameOperators ==
  /\ \A f : Lists!Range(f) = Range(f)
  /\ \A q, K : Lists!Without(q, K) = Without(q, K)
  /\ \A k, p : Lists!Descendants(k, p) = Descendants(k, p)
  /\ Lists!Queued = Queued
  /\ Lists!Kids = Kids
<1>1. \A f : Lists!Range(f) = Range(f)
  BY DEF Lists!Range, Range
<1>2. \A S : Lists!Cardinality(S) = Cardinality(S)
  BY DEF Lists!Cardinality, Cardinality
<1>3. \A q, K : Lists!Without(q, K) = Without(q, K)
  BY <1>1, <1>2, Zenon DEF Lists!Without, Without
<1>4. \A k, S : Lists!ChildClosed(k, S) = ChildClosed(k, S)
  BY <1>1, Zenon DEF Lists!ChildClosed, ChildClosed
<1>5. \A k, p : Lists!Descendants(k, p) = Descendants(k, p)
  BY <1>4, Zenon DEF Lists!Descendants, Descendants
<1>6. Lists!Queued = Queued /\ Lists!Kids = Kids
  BY <1>1 DEF Lists!Queued, Lists!Kids, Queued, Kids
<1> QED
  BY <1>1, <1>3, <1>5, <1>6

(* What the invariant says of one queue and of the children of one block. *)
LEMMA HoldsFacts ==
  ASSUME IInv
  PROVE  /\ Holds(mem, queue, kids, FreeList)
         /\ mem \in [Locations -> Pcb \cup {NULL}] /\ IsMemory(mem)
         /\ \A q \in ProcQ : /\ queue[q] \in Seq(Pcb) /\ IsInjective(queue[q])
                             /\ Ring(mem, tail(q), queue[q])
                             /\ Range(queue[q]) \subseteq Pcb
                             /\ Range(queue[q]) \cap free = {}
         /\ \A p \in Pcb : /\ kids[p] \in Seq(Pcb) /\ IsInjective(kids[p])
                           /\ Family(mem, p, kids[p])
                           /\ Range(kids[p]) \subseteq Pcb
                           /\ Range(kids[p]) \cap free = {}
                           /\ Range(kids[p]) \subseteq used
         /\ free = Range(FreeList) /\ FreeList \in Seq(Pcb)
<1>1. Holds(mem, queue, kids, FreeList) /\ free = Range(FreeList)
  BY DEF IInv
<1>2. mem \in [Locations -> Pcb \cup {NULL}] /\ IsMemory(mem) /\ FreeList \in Seq(Pcb)
  BY <1>1, MemoryType DEF Holds
<1>3. ASSUME NEW q \in ProcQ
      PROVE  /\ queue[q] \in Seq(Pcb) /\ IsInjective(queue[q])
             /\ Ring(mem, tail(q), queue[q])
             /\ Range(queue[q]) \subseteq Pcb
             /\ Range(queue[q]) \cap free = {}
  BY <1>1, RangeOf DEF Holds
<1>4. ASSUME NEW p \in Pcb
      PROVE  /\ kids[p] \in Seq(Pcb) /\ IsInjective(kids[p])
             /\ Family(mem, p, kids[p])
             /\ Range(kids[p]) \subseteq Pcb
             /\ Range(kids[p]) \cap free = {}
             /\ Range(kids[p]) \subseteq used
  <2>1. kids[p] \in Seq(Pcb) /\ IsInjective(kids[p]) /\ Family(mem, p, kids[p])
        /\ Range(kids[p]) \cap free = {}
    BY <1>1 DEF Holds
  <2>2. Range(kids[p]) \subseteq used
    BY DEF IInv, Kids
  <2> QED
    BY <2>1, <2>2, RangeOf
<1> QED
  BY <1>1, <1>2, <1>3, <1>4

(* The lists of the memory that a call leaves behind. *)
LEMMA LeavesLists ==
  ASSUME NEW c, NEW n, Leaves(c, n), NEW Q, NEW K, NEW o, Holds(n, Q, K, o)
  PROVE  /\ mem' = n /\ queue' = Q /\ kids' = K /\ free' = Range(o)
         /\ Holds(mem', queue', kids', FreeList') /\ free' = Range(FreeList')
         /\ call' = c
<1>1. mem' = n /\ call' = c
  BY DEF Leaves
<1>2. Holds(mem', Q, K, o)
  BY <1>1
<1>3. /\ Views(mem').queue = Q /\ Views(mem').kids = K /\ Views(mem').free = Range(o)
      /\ ListFrom(mem', "p_next", mem'[FreeHead]) = o
  BY <1>2, ViewsAre
<1>4. queue' = Q /\ kids' = K /\ free' = Range(o) /\ FreeList' = o
  BY <1>3 DEF Leaves, FreeList
<1> QED
  BY <1>1, <1>2, <1>4

LEMMA ReturnedPointer ==
  ASSUME NEW c, NEW r, Return(c, r), r.ptr \in Pcb \cup {NULL}
  PROVE  result' = r.ptr /\ Leaves(c, r.mem)
BY BlockAssumption DEF Return

(* What is not used and not free keeps having no relatives. *)
LEMMA OrphansKept ==
  ASSUME NEW m, NEW n, NEW L, Changes(m, n, L), m \in [Locations -> Pcb \cup {NULL}],
         NEW S \in SUBSET Pcb, Orphans(m, S),
         L \cap ({"p_parent", "p_nextSib", "p_prevSib"} \X S) = {}
  PROVE  Orphans(n, S)
<1> SUFFICES ASSUME NEW p \in S
             PROVE  n[parent(p)] = NULL /\ n[nextSib(p)] = NULL /\ n[prevSib(p)] = NULL
  BY DEF Orphans
<1>1. /\ {parent(p), nextSib(p), prevSib(p)} \subseteq Locations
      /\ {parent(p), nextSib(p), prevSib(p)} \cap L = {}
  <2>1. {parent(p), nextSib(p), prevSib(p)} \subseteq {"p_parent", "p_nextSib", "p_prevSib"} \X S
    BY DEF parent, nextSib, prevSib
  <2> QED
    BY <2>1, LocationFacts
<1>2. \A l \in {parent(p), nextSib(p), prevSib(p)} : n[l] = m[l]
  BY <1>1 DEF Changes
<1> QED
  BY <1>2 DEF Orphans

------------------------------------------------------------------------------
(* Each function: the invariant stays, and ProcLists takes the same step. *)

(* allocPcb *)
LEMMA AllocImplements ==
  ASSUME IInv, Alloc
  PROVE  IInv' /\ Lists!Alloc
<1>1. /\ Return(<<"allocPcb">>, allocPcb(mem)) /\ used' = used
      /\ Holds(mem, queue, kids, FreeList) /\ free = Range(FreeList)
      /\ FreeList \in Seq(Pcb) /\ mem \in [Locations -> Pcb \cup {NULL}]
      /\ Linked(mem, "p_next", FreeHead, FreeList)
  BY HoldsFacts DEF Alloc, Holds
<1> DEFINE o == FreeList
<1>2. CASE o = <<>>
  <2>1. allocPcb(mem) = Returns(mem, NULL)
    BY <1>1, <1>2 DEF allocPcb, Linked
  <2>2. allocPcb(mem).ptr = NULL /\ allocPcb(mem).mem = mem
    BY <2>1 DEF Returns
  <2>3. result' = NULL /\ Leaves(<<"allocPcb">>, mem)
    BY <1>1, <2>2, ReturnedPointer
  <2>4. /\ mem' = mem /\ queue' = queue /\ kids' = kids /\ free' = free
        /\ Holds(mem', queue', kids', FreeList') /\ free' = Range(FreeList')
        /\ call' = <<"allocPcb">>
    BY <1>1, <2>3, LeavesLists
  <2>5. free = {}
    BY <1>1, <1>2, EmptyQueue
  <2>6. IInv'
    BY <1>1, <2>3, <2>4 DEF IInv, Kids, Orphans
  <2> QED
    BY <1>1, <2>3, <2>4, <2>5, <2>6 DEF Lists!Alloc
<1>3. CASE o # <<>>
  <2> DEFINE p == Head(o)  n == allocPcb(mem).mem  L == {FreeHead} \cup (Fields \X {p})
  <2>1. /\ Holds(n, queue, kids, Tail(o)) /\ allocPcb(mem).ptr = p
        /\ p \in free /\ Range(Tail(o)) = free \ {p} /\ Changes(mem, n, L)
        /\ Orphans(n, {p})
    <3>1. Holds(mem, queue, kids, o) /\ o # <<>> /\ free = Range(o)
      BY <1>1, <1>3
    <3> HIDE DEF o
    <3>2. /\ Holds(n, queue, kids, Tail(o)) /\ allocPcb(mem).ptr = p
          /\ p \in Range(o) /\ Range(Tail(o)) = Range(o) \ {p}
      BY <3>1, HoldsAlloc
    <3>3. Changes(mem, n, L)
      BY <3>1, HoldsAlloc
    <3>4. Orphans(n, {p})
      BY <3>1, HoldsAlloc
    <3> QED
      BY <3>1, <3>2, <3>3, <3>4
  <2>2. p \in Pcb
    BY <1>1, <2>1, RangeOf
  <2>3. result' = p /\ Leaves(<<"allocPcb">>, n)
    BY <1>1, <2>1, <2>2, ReturnedPointer
  <2> HIDE DEF n, p, L, o
  <2>4. /\ mem' = n /\ queue' = queue /\ kids' = kids /\ free' = free \ {p}
        /\ Holds(mem', queue', kids', FreeList') /\ free' = Range(FreeList')
        /\ call' = <<"allocPcb">>
    BY <2>1, <2>3, LeavesLists
  <2>5. Orphans(mem', Pcb \ (free' \cup used'))
    <3> DEFINE S == Pcb \ (free \cup used)
    <3>1. Orphans(mem, S) /\ S \in SUBSET Pcb /\ p \notin S
      BY <2>1 DEF IInv
    <3>2. L \cap ({"p_parent", "p_nextSib", "p_prevSib"} \X S) = {}
      BY <3>1 DEF L, FreeHead
    <3>3. Orphans(n, S)
      BY <1>1, <2>1, <3>1, <3>2, OrphansKept
    <3>4. Orphans(n, {p})
      BY <2>1
    <3>5. Pcb \ (free' \cup used') \subseteq S \cup {p}
      BY <1>1, <2>4
    <3> QED
      BY <2>4, <3>3, <3>4, <3>5 DEF Orphans
  <2>6. IInv'
    <3>1. used \subseteq Pcb /\ used \cap free = {} /\ Kids \subseteq used
      BY DEF IInv
    <3>2. Kids' = Kids
      BY <2>4 DEF Kids
    <3> QED
      BY <1>1, <2>2, <2>3, <2>4, <2>5, <3>1, <3>2 DEF IInv
  <2> QED
    BY <1>1, <2>1, <2>3, <2>4, <2>6 DEF Lists!Alloc
<1> QED
  BY <1>2, <1>3

(* freePcb *)
LEMMA FreeImplements ==
  ASSUME IInv, NEW p \in Pcb, Free(p)
  PROVE  IInv' /\ Lists!Free(p)
<1> DEFINE n == freePcb(mem, p)  o == FreeList
<1>1. /\ p \notin free \cup Queued \cup Kids /\ kids[p] = <<>>
      /\ Leaves(<<"freePcb", p>>, n) /\ result' = NULL /\ used' = used \ {p}
  BY DEF Free, Done
<1>2. /\ Holds(mem, queue, kids, o) /\ free = Range(o)
      /\ mem \in [Locations -> Pcb \cup {NULL}]
  BY HoldsFacts
<1>3. /\ \A q \in ProcQ : p \notin Range(queue[q])
      /\ \A r \in Pcb : p \notin Range(kids[r])
  BY <1>1 DEF Queued, Kids
<1> HIDE DEF o
<1>4. /\ Holds(n, queue, kids, <<p>> \o o) /\ Range(<<p>> \o o) = free \cup {p}
      /\ Changes(mem, n, {FreeHead, next(p)})
  BY <1>1, <1>2, <1>3, HoldsFree
<1>5. /\ mem' = n /\ queue' = queue /\ kids' = kids /\ free' = free \cup {p}
      /\ Holds(mem', queue', kids', FreeList') /\ free' = Range(FreeList')
      /\ call' = <<"freePcb", p>>
  BY <1>1, <1>4, LeavesLists
<1>6. Orphans(mem', Pcb \ (free' \cup used'))
  <2> DEFINE S == Pcb \ (free \cup used)
  <2>1. Orphans(mem, S) /\ S \in SUBSET Pcb
    BY DEF IInv
  <2>2. {FreeHead, next(p)} \cap ({"p_parent", "p_nextSib", "p_prevSib"} \X S) = {}
    BY DEF next, FreeHead
  <2>3. Orphans(n, S)
    BY <1>2, <1>4, <2>1, <2>2, OrphansKept
  <2>4. Pcb \ (free' \cup used') \subseteq S
    BY <1>1, <1>5
  <2> QED
    BY <1>5, <2>3, <2>4 DEF Orphans
<1>7. IInv'
  <2>1. used \subseteq Pcb /\ used \cap free = {} /\ Kids \subseteq used
    BY DEF IInv
  <2>2. Kids' = Kids
    BY <1>5 DEF Kids
  <2>3. Kids' \subseteq used'
    BY <1>1, <2>1, <2>2
  <2> QED
    BY <1>1, <1>5, <1>6, <2>1, <2>3 DEF IInv
<1> QED
  BY <1>1, <1>5, <1>7, SameOperators DEF Lists!Free

(* A function that changes one queue and nothing else. *)
LEMMA OneQueue ==
  ASSUME IInv, NEW q \in ProcQ, NEW n, NEW s \in Seq(Pcb), IsInjective(s),
         NEW R \in SUBSET Pcb, Changes(mem, n, QueueLocs(tail(q), R)),
         Ring(n, tail(q), s), Range(s) \subseteq R, R \cap free = {},
         \A r \in ProcQ \ {q} : R \cap Range(queue[r]) = {},
         NEW c, Leaves(c, n), used' = used, result' \in Pcb \cup {NULL}
  PROVE  /\ IInv'
         /\ queue' = [queue EXCEPT ![q] = s] /\ kids' = kids /\ free' = free /\ call' = c
<1>1. /\ Holds(mem, queue, kids, FreeList) /\ free = Range(FreeList)
      /\ mem \in [Locations -> Pcb \cup {NULL}]
  BY HoldsFacts
<1>2. Holds(n, [queue EXCEPT ![q] = s], kids, FreeList)
  BY <1>1, HoldsQueue
<1>3. /\ mem' = n /\ queue' = [queue EXCEPT ![q] = s] /\ kids' = kids /\ free' = free
      /\ Holds(mem', queue', kids', FreeList') /\ free' = Range(FreeList')
      /\ call' = c
  BY <1>1, <1>2, LeavesLists
<1>4. Orphans(mem', Pcb \ (free' \cup used'))
  <2> DEFINE S == Pcb \ (free \cup used)
  <2>1. Orphans(mem, S) /\ S \in SUBSET Pcb
    BY DEF IInv
  <2>2. QueueLocs(tail(q), R) \cap ({"p_parent", "p_nextSib", "p_prevSib"} \X S) = {}
    BY DEF QueueLocs, tail
  <2>3. Orphans(n, S)
    BY <1>1, <2>1, <2>2, OrphansKept
  <2> QED
    BY <1>3, <2>3
<1>5. IInv'
  <2>1. used \subseteq Pcb /\ used \cap free = {} /\ Kids \subseteq used
    BY DEF IInv
  <2>2. Kids' = Kids
    BY <1>3 DEF Kids
  <2> QED
    BY <1>3, <1>4, <2>1, <2>2 DEF IInv
<1> QED
  BY <1>3, <1>5

(* A call that changes no list. *)
LEMMA NoList ==
  ASSUME IInv, NEW c, Leaves(c, mem), used' = used, result' \in Pcb \cup {NULL}
  PROVE  IInv' /\ queue' = queue /\ kids' = kids /\ free' = free /\ call' = c
<1>1. Holds(mem, queue, kids, FreeList) /\ free = Range(FreeList)
  BY HoldsFacts
<1>2. /\ mem' = mem /\ queue' = queue /\ kids' = kids /\ free' = free
      /\ Holds(mem', queue', kids', FreeList') /\ free' = Range(FreeList')
      /\ call' = c
  BY <1>1, LeavesLists
<1>3. IInv'
  <2>1. /\ used \subseteq Pcb /\ used \cap free = {} /\ Kids \subseteq used
        /\ Orphans(mem, Pcb \ (free \cup used))
    BY DEF IInv
  <2>2. Kids' = Kids
    BY <1>2 DEF Kids
  <2>3. Orphans(mem', Pcb \ (free' \cup used'))
    BY <1>2, <2>1
  <2> QED
    BY <1>2, <2>1, <2>2, <2>3 DEF IInv
<1> QED
  BY <1>2, <1>3

(* No block is on two queues. *)
LEMMA OtherQueues ==
  ASSUME IInv, NEW q \in ProcQ
  PROVE  \A r \in ProcQ \ {q} : Range(queue[q]) \cap Range(queue[r]) = {}
BY DEF IInv, Holds

(* insertProcQ *)
LEMMA InsertImplements ==
  ASSUME IInv, NEW q \in ProcQ, NEW p \in Pcb, Insert(q, p)
  PROVE  IInv' /\ Lists!Insert(q, p)
<1> DEFINE n == insertProcQ(mem, tail(q), p)  R == Range(queue[q]) \cup {p}
           s == Append(queue[q], p)  c == <<"insertProcQ", q, p>>
<1>1. /\ p \notin free \cup Queued /\ Leaves(c, n)
      /\ result' = NULL /\ used' = used
  BY DEF Insert, Done
<1>2. \A r \in ProcQ : p \notin Range(queue[r])
  BY <1>1 DEF Queued
<1>3. /\ queue[q] \in Seq(Pcb) /\ IsInjective(queue[q]) /\ Ring(mem, tail(q), queue[q])
      /\ Range(queue[q]) \subseteq Pcb /\ Range(queue[q]) \cap free = {}
      /\ IsMemory(mem)
  BY HoldsFacts
<1>4. Ring(n, tail(q), s) /\ Changes(mem, n, QueueLocs(tail(q), R))
  BY <1>2, <1>3, InsertRing
<1>5. s \in Seq(Pcb) /\ IsInjective(s) /\ Range(s) = R
  BY <1>2, <1>3, RangeAppend
<1>6. /\ R \in SUBSET Pcb /\ R \cap free = {}
      /\ \A r \in ProcQ \ {q} : R \cap Range(queue[r]) = {}
  BY <1>1, <1>2, <1>3, OtherQueues
<1> HIDE DEF n, R, s, c
<1>7. /\ IInv' /\ queue' = [queue EXCEPT ![q] = s] /\ kids' = kids /\ free' = free
      /\ call' = c
  BY <1>1, <1>4, <1>5, <1>6, OneQueue
<1>8. p \notin free \cup Lists!Queued
  BY <1>1, SameOperators
<1> QED
  BY <1>1, <1>7, <1>8 DEF Lists!Insert, s, c

(* removeProcQ *)
LEMMA RemoveImplements ==
  ASSUME IInv, NEW q \in ProcQ, Remove(q)
  PROVE  IInv' /\ Lists!Remove(q)
<1> DEFINE r == removeProcQ(mem, tail(q))  R == Range(queue[q])
           s == Tail(queue[q])  c == <<"removeProcQ", q>>
<1>1. Return(c, r) /\ used' = used
  BY DEF Remove
<1>2. /\ queue[q] \in Seq(Pcb) /\ IsInjective(queue[q]) /\ Ring(mem, tail(q), queue[q])
      /\ R \subseteq Pcb /\ R \cap free = {} /\ IsMemory(mem)
  BY HoldsFacts
<1>3. CASE queue[q] = <<>>
  <2>1. r = Returns(mem, NULL)
    BY <1>2, <1>3 DEF removeProcQ, Ring
  <2>2. r.ptr = NULL /\ r.mem = mem
    BY <2>1 DEF Returns
  <2> HIDE DEF r, c
  <2>3. result' = NULL /\ Leaves(c, mem)
    BY <1>1, <2>2, ReturnedPointer
  <2>4. IInv' /\ queue' = queue /\ kids' = kids /\ free' = free /\ call' = c
    BY <1>1, <2>3, NoList
  <2> QED
    BY <1>1, <1>3, <2>3, <2>4 DEF Lists!Remove, c
<1>4. CASE queue[q] # <<>>
  <2>1. /\ r.ptr = Head(queue[q]) /\ Ring(r.mem, tail(q), s)
        /\ Changes(mem, r.mem, QueueLocs(tail(q), R))
    BY <1>2, <1>4, RemoveRing
  <2>2. /\ s \in Seq(Pcb) /\ IsInjective(s) /\ Range(s) \subseteq R
        /\ Head(queue[q]) \in Pcb
    BY <1>2, <1>4, RangeTail
  <2>3. \A t \in ProcQ \ {q} : R \cap Range(queue[t]) = {}
    BY OtherQueues
  <2> HIDE DEF r, c, R, s
  <2>4. result' = Head(queue[q]) /\ Leaves(c, r.mem)
    BY <1>1, <2>1, <2>2, ReturnedPointer
  <2>5. /\ IInv' /\ queue' = [queue EXCEPT ![q] = s] /\ kids' = kids /\ free' = free
        /\ call' = c
    BY <1>1, <1>2, <2>1, <2>2, <2>3, <2>4, OneQueue
  <2> QED
    BY <1>1, <1>4, <2>4, <2>5 DEF Lists!Remove, c, s
<1> QED
  BY <1>3, <1>4

(* headProcQ *)
LEMMA HeadImplements ==
  ASSUME IInv, NEW q \in ProcQ, HeadOf(q)
  PROVE  IInv' /\ Lists!HeadOf(q)
<1>1. queue[q] \in Seq(Pcb) /\ Ring(mem, tail(q), queue[q])
  BY HoldsFacts
<1>2. headProcQ(mem, tail(q)) = IF queue[q] = <<>> THEN NULL ELSE Head(queue[q])
  BY <1>1, HeadRing
<1>3. result' \in Pcb \cup {NULL}
  BY <1>1, <1>2 DEF HeadOf
<1>4. IInv'
  BY <1>3 DEF HeadOf, IInv, FreeList, Kids
<1> QED
  BY <1>2, <1>4 DEF HeadOf, Lists!HeadOf

(* outProcQ, except for the head of a queue *)
LEMMA OutImplements ==
  ASSUME IInv, NEW q \in ProcQ, NEW p \in Pcb, ~ OutOfHead(q, p), Out(q, p)
  PROVE  IInv' /\ Lists!Out(q, p)
<1> DEFINE r == outProcQ(mem, tail(q), p)  R == Range(queue[q])
           s == Without(queue[q], {p})  c == <<"outProcQ", q, p>>
<1>1. Return(c, r) /\ used' = used
  BY DEF Out
<1>2. /\ queue[q] \in Seq(Pcb) /\ IsInjective(queue[q]) /\ Ring(mem, tail(q), queue[q])
      /\ R \subseteq Pcb /\ R \cap free = {} /\ IsMemory(mem)
  BY HoldsFacts
<1>3. queue[q] # <<>> => Head(queue[q]) # p
  BY DEF OutOfHead
<1>4. /\ r.ptr = IF p \in R THEN p ELSE NULL
      /\ Ring(r.mem, tail(q), s) /\ Changes(mem, r.mem, QueueLocs(tail(q), R))
  BY <1>2, <1>3, OutRing
<1>5. s \in Seq(Pcb) /\ IsInjective(s) /\ Range(s) \subseteq R
  BY <1>2, WithoutMembers
<1>6. \A t \in ProcQ \ {q} : R \cap Range(queue[t]) = {}
  BY OtherQueues
<1> HIDE DEF r, c, R, s
<1>7. result' = (IF p \in R THEN p ELSE NULL) /\ Leaves(c, r.mem)
  BY <1>1, <1>4, ReturnedPointer
<1>8. result' \in Pcb \cup {NULL}
  BY <1>7
<1>9. /\ IInv' /\ queue' = [queue EXCEPT ![q] = s] /\ kids' = kids /\ free' = free
      /\ call' = c
  BY <1>1, <1>2, <1>4, <1>5, <1>6, <1>7, <1>8, OneQueue
<1> QED
  BY <1>1, <1>7, <1>9, SameOperators DEF Lists!Out, c, s, R

(* A function that changes the children of one block and nothing else. *)
LEMMA OneFamily ==
  ASSUME IInv, NEW par \in Pcb \ free, NEW n, NEW s \in Seq(Pcb), IsInjective(s),
         NEW R \in SUBSET Pcb, Changes(mem, n, FamilyLocs(par, R)),
         Family(n, par, s), Range(s) \subseteq R, R \cap free = {},
         \A r \in Pcb \ {par} : R \cap Range(kids[r]) = {},
         used \subseteq used', used' \subseteq Pcb, used' \cap free = {}, R \subseteq used',
         NEW c, Leaves(c, n), result' \in Pcb \cup {NULL}
  PROVE  /\ IInv'
         /\ queue' = queue /\ kids' = [kids EXCEPT ![par] = s] /\ free' = free /\ call' = c
<1>1. /\ Holds(mem, queue, kids, FreeList) /\ free = Range(FreeList)
      /\ mem \in [Locations -> Pcb \cup {NULL}] /\ kids \in [Pcb -> Seq(Pcb)]
  BY HoldsFacts DEF Holds
<1>2. Holds(n, queue, [kids EXCEPT ![par] = s], FreeList)
  BY <1>1, HoldsFamily
<1>3. /\ mem' = n /\ queue' = queue /\ kids' = [kids EXCEPT ![par] = s] /\ free' = free
      /\ Holds(mem', queue', kids', FreeList') /\ free' = Range(FreeList')
      /\ call' = c
  BY <1>1, <1>2, LeavesLists
<1>4. Orphans(mem', Pcb \ (free' \cup used'))
  <2> DEFINE S == Pcb \ (free \cup used')
  <2>1. Orphans(mem, S) /\ S \in SUBSET Pcb /\ R \cap S = {}
    BY DEF IInv, Orphans
  <2>2. FamilyLocs(par, R) \cap ({"p_parent", "p_nextSib", "p_prevSib"} \X S) = {}
    <3> HIDE DEF S
    <3> QED
      BY <2>1 DEF FamilyLocs, child
  <2>3. Orphans(n, S)
    BY <1>1, <2>1, <2>2, OrphansKept
  <2> QED
    BY <1>3, <2>3
<1>5. Kids' \subseteq used'
  <2> SUFFICES ASSUME NEW r \in Pcb PROVE Range(kids'[r]) \subseteq used'
    BY DEF Kids
  <2>1. CASE r = par
    BY <1>1, <1>3, <2>1
  <2>2. CASE r # par
    <3>1. kids'[r] = kids[r] /\ Range(kids[r]) \subseteq used
      BY <1>1, <1>3, <2>2, HoldsFacts
    <3> QED
      BY <3>1
  <2> QED
    BY <2>1, <2>2
<1>6. IInv'
  BY <1>3, <1>4, <1>5 DEF IInv
<1> QED
  BY <1>3, <1>6

(* No block has two parents. *)
LEMMA OtherFamilies ==
  ASSUME IInv, NEW par \in Pcb
  PROVE  \A r \in Pcb \ {par} : Range(kids[par]) \cap Range(kids[r]) = {}
BY DEF IInv, Holds

(* insertChild *)
LEMMA AdoptImplements ==
  ASSUME IInv, NEW par \in Pcb, NEW p \in Pcb, Adopt(par, p)
  PROVE  IInv' /\ Lists!Adopt(par, p)
<1> DEFINE n == insertChild(mem, par, p)  R == Range(kids[par]) \cup {p}
           s == <<p>> \o kids[par]  c == <<"insertChild", par, p>>
<1>1. /\ {par, p} \cap free = {} /\ p \notin used /\ par \notin Descendants(kids, p)
      /\ Leaves(c, n) /\ result' = NULL /\ used' = used \cup {p}
  BY DEF Adopt, Done
<1>2. /\ kids[par] \in Seq(Pcb) /\ IsInjective(kids[par]) /\ Family(mem, par, kids[par])
      /\ Range(kids[par]) \subseteq Pcb /\ Range(kids[par]) \cap free = {}
      /\ IsMemory(mem)
      /\ \A r \in Pcb : Range(kids[r]) \subseteq used
  BY HoldsFacts
<1>3. \A r \in Pcb : p \notin Range(kids[r])
  BY <1>1, <1>2
<1>4. mem[nextSib(p)] = NULL /\ mem[prevSib(p)] = NULL
  BY <1>1 DEF IInv, Orphans
<1>5. Family(n, par, s) /\ Changes(mem, n, FamilyLocs(par, R))
  BY <1>2, <1>3, <1>4, InsertFamily
<1>6. s \in Seq(Pcb) /\ IsInjective(s) /\ Range(s) = R
  BY <1>2, <1>3, PrependMembers
<1>7. /\ R \in SUBSET Pcb /\ R \cap free = {}
      /\ \A r \in Pcb \ {par} : R \cap Range(kids[r]) = {}
      /\ used \subseteq used' /\ used' \subseteq Pcb /\ used' \cap free = {}
      /\ R \subseteq used' /\ par \in Pcb \ free
  <2>1. used \subseteq Pcb /\ used \cap free = {}
    BY DEF IInv
  <2> QED
    BY <1>1, <1>2, <1>3, <2>1, OtherFamilies
<1> HIDE DEF n, R, s, c
<1>8. /\ IInv' /\ queue' = queue /\ kids' = [kids EXCEPT ![par] = s] /\ free' = free
      /\ call' = c
  BY <1>1, <1>5, <1>6, <1>7, OneFamily
<1>9. par \notin Lists!Descendants(kids, p)
  BY <1>1, SameOperators
<1> QED
  BY <1>1, <1>8, <1>9 DEF Lists!Adopt, s, c

(* What removeChild does where there are children: also the first half of *)
(* outChild.                                                              *)
LEMMA FirstChildLeaves ==
  ASSUME IInv, NEW par \in Pcb, kids[par] # <<>>, NEW c,
         Return(c, removeChild(mem, par)), used' = used
  PROVE  /\ IInv' /\ result' = Head(kids[par])
         /\ queue' = queue /\ kids' = [kids EXCEPT ![par] = Tail(kids[par])]
         /\ free' = free /\ call' = c
<1> DEFINE r == removeChild(mem, par)  R == Range(kids[par])  s == Tail(kids[par])
<1>1. /\ kids[par] \in Seq(Pcb) /\ IsInjective(kids[par]) /\ Family(mem, par, kids[par])
      /\ R \subseteq Pcb /\ R \cap free = {} /\ R \subseteq used /\ IsMemory(mem)
  BY HoldsFacts
<1>2. /\ r.ptr = Head(kids[par]) /\ Family(r.mem, par, s)
      /\ Changes(mem, r.mem, FamilyLocs(par, R))
  BY <1>1, RemoveFamily
<1>3. /\ s \in Seq(Pcb) /\ IsInjective(s) /\ Range(s) \subseteq R
      /\ Head(kids[par]) \in Pcb
  BY <1>1, RangeTail
<1>4. \A t \in Pcb \ {par} : R \cap Range(kids[t]) = {}
  BY OtherFamilies
<1>5. used \subseteq Pcb /\ used \cap free = {} /\ par \notin free
  BY HoldsFacts DEF IInv, Holds
<1> HIDE DEF r, R, s
<1>6. result' = Head(kids[par]) /\ Leaves(c, r.mem)
  BY <1>2, <1>3, ReturnedPointer DEF r
<1>7. /\ IInv' /\ queue' = queue /\ kids' = [kids EXCEPT ![par] = s] /\ free' = free
      /\ call' = c
  BY <1>1, <1>2, <1>3, <1>4, <1>5, <1>6, OneFamily
<1> QED
  BY <1>6, <1>7 DEF s

(* removeChild *)
LEMMA RemoveFirstImplements ==
  ASSUME IInv, NEW par \in Pcb, RemoveFirst(par)
  PROVE  IInv' /\ Lists!RemoveFirst(par)
<1> DEFINE r == removeChild(mem, par)  c == <<"removeChild", par>>
<1>1. par \notin free /\ Return(c, r) /\ used' = used
  BY DEF RemoveFirst
<1>2. CASE kids[par] = <<>>
  <2>1. Family(mem, par, <<>>)
    BY <1>2, HoldsFacts
  <2>2. r = Returns(mem, NULL)
    BY <2>1, FamilyFacts DEF removeChild, emptyChild
  <2>3. r.ptr = NULL /\ r.mem = mem
    BY <2>2 DEF Returns
  <2> HIDE DEF r, c
  <2>4. result' = NULL /\ Leaves(c, mem)
    BY <1>1, <2>3, ReturnedPointer
  <2>5. IInv' /\ queue' = queue /\ kids' = kids /\ free' = free /\ call' = c
    BY <1>1, <2>4, NoList
  <2> QED
    BY <1>1, <1>2, <2>4, <2>5 DEF Lists!RemoveFirst, c
<1>3. CASE kids[par] # <<>>
  <2>1. /\ IInv' /\ result' = Head(kids[par])
        /\ queue' = queue /\ kids' = [kids EXCEPT ![par] = Tail(kids[par])]
        /\ free' = free /\ call' = c
    BY <1>1, <1>3, FirstChildLeaves
  <2> QED
    BY <1>1, <1>3, <2>1 DEF Lists!RemoveFirst
<1> QED
  BY <1>2, <1>3

(* outChild, except for a child that has siblings on both sides *)
LEMMA OutChildImplements ==
  ASSUME IInv, NEW p \in Pcb, ~ IsMiddleChild(kids, p), OutChild(p)
  PROVE  IInv' /\ Lists!OutChild(p)
<1> DEFINE r == outChild(mem, p)  c == <<"outChild", p>>
<1>1. /\ p \notin free /\ (p \in Kids \/ p \notin used) /\ Return(c, r) /\ used' = used
  BY DEF OutChild
<1>2. kids \in [Pcb -> Seq(Pcb)]
  BY HoldsFacts DEF Holds
<1>3. CASE p \notin Kids
  <2>1. mem[parent(p)] = NULL
    BY <1>1, <1>3 DEF IInv, Orphans
  <2>2. r = Returns(mem, NULL)
    BY <2>1 DEF outChild
  <2>3. r.ptr = NULL /\ r.mem = mem
    BY <2>2 DEF Returns
  <2> HIDE DEF r, c
  <2>4. result' = NULL /\ Leaves(c, mem)
    BY <1>1, <2>3, ReturnedPointer
  <2>5. IInv' /\ queue' = queue /\ kids' = kids /\ free' = free /\ call' = c
    BY <1>1, <2>4, NoList
  <2>6. ASSUME NEW a \in Pcb PROVE Without(kids[a], {p}) = kids[a]
    <3>1. kids[a] \in Seq(Pcb) /\ IsInjective(kids[a]) /\ p \notin Range(kids[a])
      BY <1>3, HoldsFacts DEF Kids
    <3> QED
      BY <3>1, WithoutNone
  <2>7. kids' = [a \in Pcb |-> Without(kids[a], {p})]
    BY <1>2, <2>5, <2>6
  <2> QED
    BY <1>1, <1>3, <2>4, <2>5, <2>7, SameOperators DEF Lists!OutChild, c
<1>4. CASE p \in Kids
  <2>1. PICK par \in Pcb : p \in Range(kids[par])
    BY <1>4 DEF Kids
  <2> DEFINE s == kids[par]  R == Range(s)
  <2>2. /\ s \in Seq(Pcb) /\ IsInjective(s) /\ Family(mem, par, s) /\ s # <<>>
        /\ R \subseteq Pcb /\ R \cap free = {} /\ R \subseteq used /\ IsMemory(mem)
    BY <2>1, HoldsFacts, EmptyQueue
  <2>3. PICK i \in 1 .. Len(s) : s[i] = p
    BY <2>1, <2>2, RangeOf
  <2>4. mem[parent(p)] = par /\ par # NULL /\ mem[child(par)] = Head(s)
    BY <2>2, <2>3, FamilyFacts, BlockAssumption
  <2>5. ASSUME NEW a \in Pcb \ {par} PROVE Without(kids[a], {p}) = kids[a]
    <3>1. kids[a] \in Seq(Pcb) /\ IsInjective(kids[a]) /\ p \notin Range(kids[a])
      BY <2>1, HoldsFacts, OtherFamilies
    <3> QED
      BY <3>1, WithoutNone
  <2>6. [kids EXCEPT ![par] = Without(s, {p})] = [a \in Pcb |-> Without(kids[a], {p})]
    BY <1>2, <2>5
  <2>7. CASE Head(s) = p
    <3>1. r = removeChild(mem, par)
      BY <2>4, <2>7 DEF outChild
    <3>2. /\ IInv' /\ result' = p /\ queue' = queue
          /\ kids' = [kids EXCEPT ![par] = Tail(kids[par])]
          /\ free' = free /\ call' = c
      BY <1>1, <2>2, <2>7, <3>1, FirstChildLeaves
    <3>3. Without(s, {p}) = Tail(s)
      BY <2>2, <2>7, WithoutHead
    <3>4. kids' = [a \in Pcb |-> Without(kids[a], {p})]
      BY <2>6, <3>2, <3>3
    <3> HIDE DEF r
    <3> QED
      BY <1>1, <1>4, <3>2, <3>4, SameOperators DEF Lists!OutChild
  <2>8. CASE Head(s) # p
    <3>1. i = Len(s) /\ Len(s) > 1
      <4>1. i # 1 /\ i \notin 2 .. Len(s) - 1
        BY <1>2, <2>2, <2>3, <2>8 DEF IsMiddleChild
      <4>2. Len(s) \in Nat
        BY <2>2
      <4> QED
        BY <2>3, <4>1, <4>2
    <3> DEFINE w == Without(s, {p})
    <3>2. /\ r.ptr = p /\ Family(r.mem, par, w) /\ Changes(mem, r.mem, FamilyLocs(par, R))
      BY <2>2, <2>3, <3>1, OutLastFamily
    <3>3. w \in Seq(Pcb) /\ IsInjective(w) /\ Range(w) \subseteq R
      BY <2>2, WithoutMembers
    <3>4. \A t \in Pcb \ {par} : R \cap Range(kids[t]) = {}
      BY OtherFamilies
    <3>5. used \subseteq Pcb /\ used \cap free = {} /\ par \notin free
      BY <2>2, HoldsFacts DEF IInv, Holds
    <3> HIDE DEF r, R, s, w, c
    <3>6. result' = p /\ Leaves(c, r.mem)
      BY <1>1, <3>2, ReturnedPointer
    <3>7. /\ IInv' /\ queue' = queue /\ kids' = [kids EXCEPT ![par] = w] /\ free' = free
          /\ call' = c
      BY <1>1, <2>2, <3>2, <3>3, <3>4, <3>5, <3>6, OneFamily
    <3>8. kids' = [a \in Pcb |-> Without(kids[a], {p})]
      BY <2>6, <3>7 DEF w
    <3> QED
      BY <1>1, <1>4, <3>6, <3>7, <3>8, SameOperators DEF Lists!OutChild, c
  <2> QED
    BY <2>7, <2>8
<1> QED
  BY <1>3, <1>4

------------------------------------------------------------------------------
(* The theorems. *)

(* Every call keeps the invariant and is a step of ProcLists. *)
LEMMA NextImplements ==
  ASSUME IInv, Next
  PROVE  IInv' /\ Lists!Next
<1>1. CASE ListStep
  <2>1. CASE Alloc
    BY <2>1, AllocImplements DEF Lists!Next
  <2>2. ASSUME NEW p \in Pcb, Free(p) PROVE IInv' /\ Lists!Next
    BY <2>2, FreeImplements DEF Lists!Next
  <2> QED
    BY <1>1, <2>1, <2>2 DEF ListStep
<1>2. CASE QueueStep
  <2>1. ASSUME NEW q \in ProcQ, Remove(q) PROVE IInv' /\ Lists!Next
    BY <2>1, RemoveImplements DEF Lists!Next
  <2>2. ASSUME NEW q \in ProcQ, HeadOf(q) PROVE IInv' /\ Lists!Next
    BY <2>2, HeadImplements DEF Lists!Next
  <2>3. ASSUME NEW q \in ProcQ, NEW p \in Pcb, Insert(q, p) PROVE IInv' /\ Lists!Next
    BY <2>3, InsertImplements DEF Lists!Next
  <2>4. ASSUME NEW q \in ProcQ, NEW p \in Pcb, ~ OutOfHead(q, p), Out(q, p)
        PROVE  IInv' /\ Lists!Next
    BY <2>4, OutImplements DEF Lists!Next
  <2> QED
    BY <1>2, <2>1, <2>2, <2>3, <2>4 DEF QueueStep
<1>3. CASE TreeStep
  <2>1. ASSUME NEW p \in Pcb, RemoveFirst(p) PROVE IInv' /\ Lists!Next
    BY <2>1, RemoveFirstImplements DEF Lists!Next
  <2>2. ASSUME NEW p \in Pcb, ~ IsMiddleChild(kids, p), OutChild(p)
        PROVE  IInv' /\ Lists!Next
    BY <2>2, OutChildImplements DEF Lists!Next
  <2>3. ASSUME NEW par \in Pcb, NEW p \in Pcb, Adopt(par, p) PROVE IInv' /\ Lists!Next
    BY <2>3, AdoptImplements DEF Lists!Next
  <2> QED
    BY <1>3, <2>1, <2>2, <2>3 DEF TreeStep
<1> QED
  BY <1>1, <1>2, <1>3 DEF Next

LEMMA StepImplements ==
  ASSUME IInv, [Next]_vars
  PROVE  IInv' /\ [Lists!Next]_(Lists!vars)
<1>1. CASE Next
  BY <1>1, NextImplements
<1>2. CASE UNCHANGED vars
  BY <1>2 DEF vars, Lists!vars, IInv, FreeList, Kids
<1> QED
  BY <1>1, <1>2

(* The links always stand for lists of blocks that no other list holds, and *)
(* the blocks that may be adopted have no relatives.                        *)
THEOREM Invariance == Spec => []IInv
<1>1. Init => IInv
  BY InitInvariant
<1>2. IInv /\ [Next]_vars => IInv'
  BY StepImplements
<1> QED
  BY <1>1, <1>2, PTL DEF Spec

(* Whatever the callers do, the links of a queue lead back to its tail, those *)
(* of the other lists end, and no function returns anything but a block or    *)
(* NULL.                                                                      *)
THEOREM TypeCorrectness == Spec => []TypeOK
<1>1. IInv => TypeOK
  <2> SUFFICES ASSUME IInv PROVE TypeOK
    OBVIOUS
  <2>1. Holds(mem, queue, kids, FreeList) /\ free = Range(FreeList) /\ FreeList \in Seq(Pcb)
    BY HoldsFacts
  <2>2. free \in SUBSET Pcb
    BY <2>1, RangeOf
  <2> QED
    BY <2>1, <2>2 DEF IInv, TypeOK, Holds
<1> QED
  BY <1>1, Invariance, PTL

(* The two directions of every queue and of every list of children agree, and *)
(* each child points to the parent that lists it.                             *)
THEOREM LinksStayAgreed == Spec => []LinksAgree
<1>1. IInv => LinksAgree
  <2> SUFFICES ASSUME IInv PROVE LinksAgree
    OBVIOUS
  <2>1. ASSUME NEW q \in ProcQ, NEW i \in DOMAIN queue[q]
        PROVE  mem[prev(mem[next(queue[q][i])])] = queue[q][i]
    <3> DEFINE s == queue[q]  k == Len(s)
    <3>1. s \in Seq(Pcb) /\ Ring(mem, tail(q), s)
      BY HoldsFacts
    <3>2. k \in Nat /\ i \in 1 .. k
      BY <3>1
    <3>3. \A j \in 1 .. k : /\ mem[next(s[j])] = IF j = k THEN s[1] ELSE s[j + 1]
                            /\ mem[prev(s[j])] = IF j = 1 THEN s[k] ELSE s[j - 1]
      BY <3>1 DEF Ring
    <3> HIDE DEF s, k
    <3>4. CASE i = k
      <4>1. 1 \in 1 .. k
        BY <3>2
      <4>2. mem[next(s[i])] = s[1] /\ mem[prev(s[1])] = s[k]
        BY <3>2, <3>3, <3>4, <4>1
      <4> QED
        BY <3>4, <4>2 DEF s
    <3>5. CASE i # k
      <4>1. i + 1 \in 1 .. k /\ i + 1 # 1 /\ (i + 1) - 1 = i
        BY <3>2, <3>5
      <4>2. mem[next(s[i])] = s[i + 1] /\ mem[prev(s[i + 1])] = s[(i + 1) - 1]
        BY <3>2, <3>3, <3>5, <4>1
      <4> QED
        BY <4>1, <4>2 DEF s
    <3> QED
      BY <3>4, <3>5
  <2>2. ASSUME NEW p \in Pcb \ free, NEW i \in DOMAIN kids[p]
        PROVE  /\ mem[parent(kids[p][i])] = p
               /\ mem[prevSib(kids[p][i])] = IF i = 1 THEN NULL ELSE kids[p][i - 1]
    <3>1. kids[p] \in Seq(Pcb) /\ Family(mem, p, kids[p])
      BY HoldsFacts
    <3>2. i \in 1 .. Len(kids[p])
      BY <3>1
    <3> QED
      BY <3>1, <3>2, FamilyFacts
  <2> QED
    BY <2>1, <2>2 DEF LinksAgree
<1> QED
  BY <1>1, Invariance, PTL

LEMMA InitImplements ==
  ASSUME Init
  PROVE  Lists!Init
BY InitHolds DEF Init, Lists!Init

(* The pointer code of pcb.c implements lists: every call changes the one list *)
(* that ProcLists says, and returns what it says.                              *)
THEOREM Implementation == Spec => ImplementsLists
<1>1. Init => Lists!Init
  BY InitImplements
<1>2. IInv /\ [Next]_vars => [Lists!Next]_(Lists!vars)
  BY StepImplements
<1> QED
  BY <1>1, <1>2, Invariance, PTL DEF Spec, ImplementsLists, Lists!Spec
===============================================================================
