------------------------ MODULE ActiveSemaphoresProofs ------------------------
(***************************************************************************)
(* The active semaphore list of asl.c keeps its descriptors, and what its  *)
(* functions do to the queues of the semaphores is what WaitLists promises, *)
(* for any number of blocks, descriptors and semaphores.                   *)
(***************************************************************************)
EXTENDS ActiveSemaphores, AslLemmas

\* The memory is as the lemmas about asl.c leave it, and the view agrees with it.
IInv ==
    /\ Good(mem, ActiveList(mem), FreeSemd(mem), QueuesOf(mem))
    /\ semQ = QueuesIn(mem)
    /\ result \in Pcb \cup {NULL, 0, 1}

------------------------------------------------------------------------------
(* Each call keeps the invariant and is a step of WaitLists. *)

(* What the invariant says of the memory. *)
LEMMA KnownGood ==
  ASSUME IInv
  PROVE  /\ Good(mem, ActiveList(mem), FreeSemd(mem), QueuesOf(mem))
         /\ semQ = QueuesIn(mem) /\ semQ \in [SemAdd -> Seq(Pcb)]
         /\ \A s \in SemAdd : semQ[s] \in Seq(Pcb) /\ IsInjective(semQ[s])
<1>1. Good(mem, ActiveList(mem), FreeSemd(mem), QueuesOf(mem)) /\ semQ = QueuesIn(mem)
  BY DEF IInv
<1>2. \A s \in SemAdd : semQ[s] \in Seq(Pcb) /\ IsInjective(semQ[s])
  BY <1>1, QueueFacts
<1>3. semQ \in [SemAdd -> Seq(Pcb)]
  BY <1>1, QueuesAre
<1> QED
  BY <1>1, <1>2, <1>3

(* The invariant holds again after a call that leaves a memory as it should be. *)
LEMMA KeptInvariant ==
  ASSUME NEW c, NEW r, Return(c, r), Kept(r.mem), r.ptr \in Pcb \cup {NULL, 0, 1}
  PROVE  IInv' /\ semQ' = QueuesIn(r.mem) /\ result' = r.ptr /\ call' = c
<1>1. call' = c /\ mem' = r.mem /\ semQ' = QueuesIn(mem') /\ result' = r.ptr
  BY DEF Return
<1>2. Good(mem', ActiveList(mem'), FreeSemd(mem'), QueuesOf(mem'))
  BY <1>1, KeptIs
<1>3. IInv'
  BY <1>1, <1>2 DEF IInv
<1> QED
  BY <1>1, <1>3

(* The operators of WaitLists are those of this module. *)
LEMMA SameOperators ==
  /\ Lists!Waiting = Waiting
  /\ Lists!Active = {s \in SemAdd : semQ[s] # <<>>}
  /\ \A S : Lists!Cardinality(S) = Cardinality(S)
  /\ \A q, K : Lists!Without(q, K) = Without(q, K)
<1>1. \A f : Lists!Range(f) = Range(f)
  BY DEF Lists!Range, Range
<1>2. \A S : Lists!Cardinality(S) = Cardinality(S)
  BY DEF Lists!Cardinality, Cardinality
<1>3. \A q, K : Lists!Without(q, K) = Without(q, K)
  BY <1>1, <1>2, Zenon DEF Lists!Without, Without
<1>4. Lists!Waiting = Waiting
  BY <1>1, Zenon DEF Lists!Waiting, Waiting
<1>5. Lists!Active = {s \in SemAdd : semQ[s] # <<>>}
  BY DEF Lists!Active
<1> QED
  BY <1>2, <1>3, <1>4, <1>5

LEMMA InsertImplements ==
  ASSUME IInv, NEW s \in SemAdd, NEW p \in Pcb, Insert(s, p)
  PROVE  IInv' /\ Lists!Insert(s, p)
<1> DEFINE r == insertBlocked(mem, s, p)  active == {z \in SemAdd : semQ[z] # <<>>}
           c == <<"insertBlocked", s, p>>
<1>1. p \notin Waiting /\ Return(c, r)
  BY DEF Insert
<1>2. /\ Good(mem, ActiveList(mem), FreeSemd(mem), QueuesOf(mem)) /\ semQ = QueuesIn(mem)
  BY KnownGood
<1>3. \A z \in SemAdd : p \notin Range(QueuesIn(mem)[z])
  BY <1>1, <1>2 DEF Waiting
<1>4. /\ Kept(r.mem)
      /\ IF s \in active \/ Cardinality(active) < Cardinality(SemdPool)
         THEN QueuesIn(r.mem) = [semQ EXCEPT ![s] = Append(semQ[s], p)] /\ r.ptr = 0
         ELSE QueuesIn(r.mem) = semQ /\ r.ptr = 1
  <2> DEFINE w == QueuesIn(mem)  open == {z \in SemAdd : w[z] # <<>>}
  <2>1. /\ Kept(r.mem)
        /\ IF s \in open \/ Cardinality(open) < Cardinality(SemdPool)
           THEN QueuesIn(r.mem) = [w EXCEPT ![s] = Append(w[s], p)] /\ r.ptr = 0
           ELSE QueuesIn(r.mem) = w /\ r.ptr = 1
    BY <1>2, <1>3, InsertIs, Zenon
  <2>2. w = semQ /\ open = active
    BY <1>2
  <2> HIDE DEF w, open, r, active
  <2> QED
    BY <2>1, <2>2
<1> HIDE DEF r
<1>5. IInv' /\ semQ' = QueuesIn(r.mem) /\ result' = r.ptr /\ call' = c
  BY <1>1, <1>4, KeptInvariant
<1>6. /\ p \notin Lists!Waiting /\ Lists!Active = active
      /\ Lists!Cardinality(active) = Cardinality(active)
  BY <1>1, SameOperators
<1> HIDE DEF active
<1>7. IF s \in Lists!Active \/ Lists!Cardinality(Lists!Active) < Cardinality(SemdPool)
      THEN semQ' = [semQ EXCEPT ![s] = Append(semQ[s], p)] /\ result' = 0
      ELSE result' = 1 /\ semQ' = semQ
  BY <1>4, <1>5, <1>6
<1> QED
  BY <1>5, <1>6, <1>7 DEF Lists!Insert, c

LEMMA RemoveImplements ==
  ASSUME IInv, NEW s \in SemAdd, Remove(s)
  PROVE  IInv' /\ Lists!Remove(s)
<1> DEFINE r == removeBlocked(mem, s)  c == <<"removeBlocked", s>>
<1>1. Return(c, r)
  BY DEF Remove
<1>2. /\ Good(mem, ActiveList(mem), FreeSemd(mem), QueuesOf(mem)) /\ semQ = QueuesIn(mem)
  BY KnownGood
<1>3. /\ Kept(r.mem)
      /\ semQ[s] = <<>> => r.ptr = NULL /\ QueuesIn(r.mem) = semQ
      /\ semQ[s] # <<>> => /\ r.ptr = Head(semQ[s]) /\ r.ptr \in Pcb
                           /\ QueuesIn(r.mem) = [semQ EXCEPT ![s] = Tail(semQ[s])]
  BY <1>2, RemoveIs
<1> HIDE DEF r
<1>4. r.ptr \in Pcb \cup {NULL, 0, 1}
  BY <1>3
<1>5. IInv' /\ semQ' = QueuesIn(r.mem) /\ result' = r.ptr /\ call' = c
  BY <1>1, <1>3, <1>4, KeptInvariant
<1> QED
  BY <1>3, <1>5 DEF Lists!Remove, c

LEMMA OutImplements ==
  ASSUME IInv, NEW p \in Pcb, Out(p)
  PROVE  IInv' /\ Lists!Out(p)
<1> DEFINE r == outBlocked(mem, p)  c == <<"outBlocked", p>>
<1>1. /\ \A s \in SemAdd : semQ[s] # <<>> => Head(semQ[s]) # p
      /\ Return(c, r)
  BY DEF Out
<1>2. /\ Good(mem, ActiveList(mem), FreeSemd(mem), QueuesOf(mem)) /\ semQ = QueuesIn(mem)
  BY KnownGood
<1>3. /\ Kept(r.mem)
      /\ r.ptr = IF p \in Waiting THEN p ELSE NULL
      /\ QueuesIn(r.mem) = [s \in SemAdd |-> Without(semQ[s], {p})]
  <2> DEFINE w == QueuesIn(mem)
  <2>1. \A s \in SemAdd : w[s] # <<>> => Head(w[s]) # p
    BY <1>1, <1>2
  <2>2. /\ Kept(r.mem)
        /\ r.ptr = IF p \in UNION {Range(w[s]) : s \in SemAdd} THEN p ELSE NULL
        /\ QueuesIn(r.mem) = [s \in SemAdd |-> Without(w[s], {p})]
    BY <1>2, <2>1, OutIs, Zenon
  <2> HIDE DEF w, r
  <2>3. w = semQ
    BY <1>2 DEF w
  <2> QED
    BY <2>2, <2>3 DEF Waiting
<1> HIDE DEF r
<1>4. r.ptr \in Pcb \cup {NULL, 0, 1}
  BY <1>3
<1>5. IInv' /\ semQ' = QueuesIn(r.mem) /\ result' = r.ptr /\ call' = c
  BY <1>1, <1>3, <1>4, KeptInvariant
<1>6. semQ' = [s \in SemAdd |-> Lists!Without(semQ[s], {p})]
  BY <1>3, <1>5, SameOperators
<1>7. result' = IF p \in Lists!Waiting THEN p ELSE NULL
  BY <1>3, <1>5, SameOperators
<1> QED
  BY <1>5, <1>6, <1>7 DEF Lists!Out, c

LEMMA HeadImplements ==
  ASSUME IInv, NEW s \in SemAdd, HeadOf(s)
  PROVE  IInv' /\ Lists!HeadOf(s)
<1>1. /\ call' = <<"headBlocked", s>> /\ result' = headBlocked(mem, s)
      /\ mem' = mem /\ semQ' = semQ
  BY DEF HeadOf
<1>2. /\ Good(mem, ActiveList(mem), FreeSemd(mem), QueuesOf(mem)) /\ semQ = QueuesIn(mem)
      /\ semQ[s] \in Seq(Pcb)
  BY KnownGood
<1>3. result' = IF semQ[s] = <<>> THEN NULL ELSE Head(semQ[s])
  BY <1>1, <1>2, HeadIs
<1>4. result' \in Pcb \cup {NULL, 0, 1}
  BY <1>2, <1>3
<1>5. IInv'
  BY <1>1, <1>2, <1>4 DEF IInv
<1> QED
  BY <1>1, <1>3, <1>5 DEF Lists!HeadOf

(* Every call keeps the invariant and is a step of WaitLists. *)
LEMMA StepImplements ==
  ASSUME IInv, [Next]_vars
  PROVE  IInv' /\ [Lists!Next]_(Lists!vars)
<1>1. CASE UNCHANGED vars
  BY <1>1 DEF vars, Lists!vars, IInv
<1>2. ASSUME NEW s \in SemAdd, Remove(s) PROVE IInv' /\ Lists!Next
  BY <1>2, RemoveImplements DEF Lists!Next
<1>3. ASSUME NEW s \in SemAdd, HeadOf(s) PROVE IInv' /\ Lists!Next
  BY <1>3, HeadImplements DEF Lists!Next
<1>4. ASSUME NEW p \in Pcb, Out(p) PROVE IInv' /\ Lists!Next
  BY <1>4, OutImplements DEF Lists!Next
<1>5. ASSUME NEW s \in SemAdd, NEW p \in Pcb, Insert(s, p) PROVE IInv' /\ Lists!Next
  BY <1>5, InsertImplements DEF Lists!Next
<1> QED
  BY <1>1, <1>2, <1>3, <1>4, <1>5 DEF Next

(* The initial memory satisfies the invariant, and no semaphore has a queue. *)
LEMMA InitImplements ==
  ASSUME Init
  PROVE  IInv /\ Lists!Init
<1>1. PICK order \in Orders(SemdPool) : mem = InitASL([l \in AslLocations |-> NULL], order)
  BY DEF Init
<1>2. semQ = QueuesIn(mem) /\ call = <<"initASL">> /\ result = NULL
  BY DEF Init
<1>3. Kept(mem) /\ QueuesIn(mem) = [s \in SemAdd |-> <<>>]
  BY <1>1, InitGood
<1>4. Good(mem, ActiveList(mem), FreeSemd(mem), QueuesOf(mem))
  BY <1>3, KeptIs
<1> QED
  BY <1>2, <1>3, <1>4 DEF IInv, Lists!Init

------------------------------------------------------------------------------
(* The theorems. *)

(* Whatever the callers do, the descriptors are in two lists, sorted and free, *)
(* the queues of the sorted ones are rings of blocks, and a block is marked    *)
(* with the address of the descriptor whose queue it is in.                    *)
THEOREM Invariance == Spec => []IInv
<1>1. Init => IInv
  BY InitImplements
<1>2. IInv /\ [Next]_vars => IInv'
  BY StepImplements
<1> QED
  BY <1>1, <1>2, PTL DEF Spec

(* No function of asl.c reads through a null pointer, and none returns        *)
(* anything but a block, NULL or one of the two values of insertBlocked.      *)
THEOREM TypeCorrectness == Spec => []TypeOK
<1>1. IInv => TypeOK
  <2> SUFFICES ASSUME IInv PROVE TypeOK
    OBVIOUS
  <2> DEFINE a == ActiveList(mem)  u == FreeSemd(mem)  Q == QueuesOf(mem)
  <2>1. Good(mem, a, u, Q) /\ semQ \in [SemAdd -> Seq(Pcb)]
    BY KnownGood
  <2> HIDE DEF a, u, Q
  <2>2. Sorted(mem, a, u) /\ IsAslMemory(mem)
    BY <2>1 DEF Good
  <2>3. DOMAIN mem = AslLocations
    BY <2>2, AslMemoryIs
  <2>4. \A l \in Locations \ (Fields \X Pcb) : mem[l] \in Pcb \cup {NULL}
    <3>1. ({"p_semAdd"} \X Pcb) \subseteq (Fields \X Pcb)
      BY DEF Fields
    <3> QED
      BY <2>2, <3>1 DEF IsAslMemory
  <2>5. \A p \in Pcb : mem[p_semAdd(p)] \in SemAdd \cup {NULL}
    BY <2>1, MarksAre
  <2>6. ASSUME NEW S, NEW head, NEW w \in Seq(Descriptors), Linked(mem, "s_next", head, w),
               NEW d \in Range(w)
        PROVE  mem[s_next(d)] \in Descriptors \cup {NULL}
    <3>1. PICK i \in 1 .. Len(w) : d = w[i]
      BY RangeOf
    <3>2. mem[<<"s_next", d>>] = IF i = Len(w) THEN NULL ELSE w[i + 1]
      BY <3>1, <2>6 DEF Linked
    <3>3. i # Len(w) => w[i + 1] \in Descriptors
      OBVIOUS
    <3> QED
      BY <3>2, <3>3 DEF s_next
  <2>7. \A d \in Descriptors : mem[s_next(d)] \in Descriptors \cup {NULL}
    <3>1. /\ a \in Seq(Descriptors) /\ u \in Seq(Descriptors)
          /\ Linked(mem, "s_next", SemdActive, a) /\ Linked(mem, "s_next", SemdFree, u)
          /\ Descriptors = Range(a) \cup Range(u)
      BY <2>2 DEF Sorted
    <3>2. \A d \in Range(a) : mem[s_next(d)] \in Descriptors \cup {NULL}
      BY <2>6, <3>1
    <3>3. \A d \in Range(u) : mem[s_next(d)] \in Descriptors \cup {NULL}
      BY <2>6, <3>1
    <3> QED
      BY <3>1, <3>2, <3>3
  <2>8. ASSUME NEW d \in Descriptors PROVE mem[s_semAdd(d)] \in 0 .. MAXINT \cup {NULL}
    <3>1. SemAdd \subseteq 0 .. MAXINT /\ MAXINT \in 0 .. MAXINT /\ 0 \in 0 .. MAXINT
      BY AddressAssumption
    <3>2. /\ mem[s_semAdd(FirstDummy)] = 0 /\ mem[s_semAdd(LastDummy)] = MAXINT
          /\ d \in SemdPool => mem[s_semAdd(d)] \in SemAdd \cup {NULL}
      BY <2>2 DEF Sorted
    <3>3. d \in SemdPool \/ d = FirstDummy \/ d = LastDummy
      BY DEF Descriptors
    <3> QED
      BY <3>1, <3>2, <3>3
  <2>9. result \in Pcb \cup {NULL, 0, 1}
    BY DEF IInv
  <2> QED
    BY <2>1, <2>3, <2>4, <2>5, <2>7, <2>8, <2>9 DEF TypeOK
<1> QED
  BY <1>1, Invariance, PTL

(* allocSemd and free lose no descriptor, and search never meets one that is  *)
(* out of order or whose queue is empty.                                      *)
THEOREM DescriptorsStayKept == Spec => []DescriptorsKept
<1>1. IInv => DescriptorsKept
  <2> SUFFICES ASSUME IInv PROVE DescriptorsKept
    OBVIOUS
  <2> DEFINE a == ActiveList(mem)  u == FreeSemd(mem)  Q == QueuesOf(mem)
  <2>1. Good(mem, a, u, Q)
    BY KnownGood
  <2> HIDE DEF a, u, Q
  <2>2. Sorted(mem, a, u) /\ WaitedFor(a, Q) /\ HoldsQueues(mem, Q)
    BY <2>1 DEF Good
  <2>3. SortedList(mem, a)
    BY <2>2, SortedIs
  <2>4. Len(a) + Len(u) = Cardinality(Descriptors)
    BY <2>1, FreeDescriptor
  <2>5. /\ Range(a) \cup Range(u) = Descriptors
        /\ a[1] = FirstDummy /\ a[Len(a)] = LastDummy
    BY <2>2 DEF Sorted
  <2>6. ASSUME NEW i \in 2 .. Len(a)
        PROVE  mem[s_semAdd(a[i - 1])] < mem[s_semAdd(a[i])]
    <3>1. Len(a) \in Nat /\ \A k, j \in 1 .. Len(a) : k < j
                                  => mem[s_semAdd(a[k])] < mem[s_semAdd(a[j])]
      BY <2>3 DEF SortedList
    <3>2. i \in 1 .. Len(a) /\ i - 1 \in 1 .. Len(a) /\ i - 1 < i
      BY <3>1
    <3> QED
      BY <3>1, <3>2
  <2>7. ASSUME NEW i \in 2 .. Len(a) - 1 PROVE mem[s_procQ(a[i])] # NULL
    <3> DEFINE d == a[i]
    <3>1. Len(a) \in Nat /\ d \in SemdPool /\ a \in Seq(Descriptors)
      BY <2>2, <2>3 DEF SortedList, Sorted
    <3>2. i \in 1 .. Len(a)
      BY <3>1
    <3>3. d \in Range(a) \cap SemdPool
      BY <3>1, <3>2, RangeOf
    <3>4. d \in Descriptors
      BY <3>1, DescriptorFacts
    <3> HIDE DEF d
    <3>5. Q[d] # <<>> /\ Q[d] \in Seq(Pcb) /\ Ring(mem, tail(d), Q[d])
      BY <2>2, <3>3, <3>4 DEF WaitedFor, HoldsQueues
    <3>6. mem[tail(d)] = Q[d][Len(Q[d])] /\ Q[d][Len(Q[d])] \in Pcb
      BY <3>5 DEF Ring
    <3>7. mem[s_procQ(d)] # NULL
      BY <3>6, BlockAssumption DEF s_procQ
    <3> QED
      BY <3>7 DEF d
  <2> QED
    BY <2>4, <2>5, <2>6, <2>7 DEF DescriptorsKept, a, u
<1> QED
  BY <1>1, Invariance, PTL

(* p_semAdd is the address of a semaphore exactly when the block waits there,  *)
(* which is what killEverything relies on.                                     *)
THEOREM MarksStayAgreed == Spec => []MarksAgree
<1>1. IInv => MarksAgree
  BY KnownGood, MarksAre DEF MarksAgree
<1> QED
  BY <1>1, Invariance, PTL

(* The sorted list of descriptors stands for one queue per semaphore: every    *)
(* call of asl.c changes the one queue that WaitLists says, insertBlocked      *)
(* fails exactly when every descriptor is in use and its semaphore has none,   *)
(* and each function returns what WaitLists says.                              *)
THEOREM Implementation == Spec => ImplementsWaitLists
<1>1. Init => Lists!Init
  BY InitImplements
<1>2. IInv /\ [Next]_vars => [Lists!Next]_(Lists!vars)
  BY StepImplements
<1> QED
  BY <1>1, <1>2, Invariance, PTL DEF Spec, ImplementsWaitLists, Lists!Spec
===============================================================================
