-------------------------- MODULE NucleusMemoryProofs --------------------------
(***************************************************************************)
(* The nucleus of src/phase2 on the pointers of pcb.c and asl.c does what  *)
(* Nucleus says, for any number of blocks, semaphores and devices, until   *)
(* an unlinking misses its block; and one misses exactly when Nucleus      *)
(* calls a victim of the kill out of reach.                                *)
(*                                                                         *)
(* Memory holds a free list, a ready queue, the children of each block and *)
(* the queues of the semaphores, in locations of their own.  Each function *)
(* changes one of them, and a handler is a chain of such changes.  In its  *)
(* two loops the invariant says how far the handler has come: the waiters  *)
(* of the pseudo-clock leave its queue for the ready queue one by one, and *)
(* killEverything visits the descendants of the dying process, children    *)
(* before parents, each once.  No queue touches the locations of the tree, *)
(* so that the visit, and the count of processes, are right even after an  *)
(* unlinking has missed.                                                   *)
(***************************************************************************)
EXTENDS NucleusMemory, AslLemmas

------------------------------------------------------------------------------
(* Lists that stay where they are.                                          *)

(* A queue is where it was if its locations are. *)
LEMMA RingSame ==
  ASSUME NEW m, NEW n, NEW tp, NEW s \in Seq(Pcb), Ring(m, tp, s),
         Same(m, n, QueueLocs(tp, Range(s)))
  PROVE  Ring(n, tp, s)
<1>1. /\ tp \in QueueLocs(tp, Range(s))
      /\ \A x \in Range(s) : {next(x), prev(x)} \subseteq QueueLocs(tp, Range(s))
  BY DEF QueueLocs, next, prev
<1>2. n[tp] = m[tp] /\ \A x \in Range(s) : n[next(x)] = m[next(x)] /\ n[prev(x)] = m[prev(x)]
  BY <1>1 DEF Same
<1>3. \A i \in 1 .. Len(s) : s[i] \in Range(s)
  BY RangeOf
<1> QED
  BY <1>2, <1>3 DEF Ring

(* A list in one field is where it was if its locations are. *)
LEMMA LinkedSame ==
  ASSUME NEW m, NEW n, NEW field, NEW head, NEW s \in Seq(Pcb), Linked(m, field, head, s),
         Same(m, n, {head} \cup ({field} \X Range(s)))
  PROVE  Linked(n, field, head, s)
<1>1. n[head] = m[head] /\ \A x \in Range(s) : n[<<field, x>>] = m[<<field, x>>]
  BY DEF Same
<1>2. \A i \in 1 .. Len(s) : s[i] \in Range(s)
  BY RangeOf
<1> QED
  BY <1>1, <1>2 DEF Linked

(* The children of a block are where they were if their locations are. *)
LEMMA FamilySame ==
  ASSUME NEW m, NEW n, NEW par, NEW s \in Seq(Pcb), Family(m, par, s),
         Same(m, n, FamilyLocs(par, Range(s)))
  PROVE  Family(n, par, s)
<1>1. /\ n[child(par)] = m[child(par)]
      /\ \A x \in Range(s) : /\ n[nextSib(x)] = m[nextSib(x)]
                             /\ n[prevSib(x)] = m[prevSib(x)]
                             /\ n[parent(x)] = m[parent(x)]
  BY FamilyLocations DEF Same
<1>2. \A i \in 1 .. Len(s) : s[i] \in Range(s)
  BY RangeOf
<1> QED
  BY <1>1, <1>2, FamilyFacts

(* The queues of the semaphores are where they were if the list of         *)
(* descriptors, the links of the blocks that wait and all marks are.       *)
LEMMA GoodSame ==
  ASSUME NEW m, NEW a, NEW u, NEW Q, Good(m, a, u, Q), NEW n, IsAslMemory(n),
         Same(m, n, WaitLocs(Waiters(m))),
         \A p \in Pcb : n[p_semAdd(p)] = m[p_semAdd(p)]
  PROVE  Good(n, a, u, Q) /\ QueuesIn(n) = QueuesIn(m)
<1>1. Same(m, n, ListLocs)
  BY DEF Same, WaitLocs
<1>2. Sorted(m, a, u) /\ HoldsQueues(m, Q) /\ Marked(m, Q) /\ WaitedFor(a, Q)
  BY DEF Good
<1>3. Sorted(n, a, u)
  BY <1>1, <1>2, SortedFrame
<1>4. \A d \in Descriptors : n[s_semAdd(d)] = m[s_semAdd(d)]
  BY <1>1, AslLocationFacts DEF Same
<1>5. Marked(n, Q)
  BY <1>2, <1>4, RangeOf DEF Marked, HoldsQueues
<1>6. \A d \in Descriptors : Q[d] \in Seq(Pcb) /\ Range(Q[d]) \subseteq Waiters(m)
  <2> TAKE d \in Descriptors
  <2>1. Q[d] \in Seq(Pcb)
    BY <1>2 DEF HoldsQueues
  <2>2. CASE Q[d] = <<>>
    BY <2>1, <2>2, RangeEmpty
  <2>3. CASE Q[d] # <<>>
    <3>1. d \in Range(a) \cap SemdPool
      BY <1>2, <2>3 DEF WaitedFor
    <3>2. m[s_semAdd(d)] \in SemAdd /\ QueuesIn(m)[m[s_semAdd(d)]] = Q[d]
      BY <3>1, QueuesAre
    <3> QED
      BY <2>1, <3>2 DEF Waiters
  <2> QED
    BY <2>2, <2>3
<1>7. HoldsQueues(n, Q)
  <2>1. ASSUME NEW d \in Descriptors PROVE Ring(n, tail(d), Q[d])
    <3>1. QueueLocs(tail(d), Range(Q[d])) \subseteq WaitLocs(Waiters(m))
      BY <1>6 DEF QueueLocs, WaitLocs
    <3>2. Same(m, n, QueueLocs(tail(d), Range(Q[d])))
      BY <3>1 DEF Same
    <3> QED
      BY <1>2, <1>6, <3>2, RingSame DEF HoldsQueues
  <2> QED
    BY <1>2, <2>1 DEF HoldsQueues
<1>8. Good(n, a, u, Q)
  BY <1>2, <1>3, <1>5, <1>7 DEF Good
<1>9. ActiveList(n) = ActiveList(m) /\ \A d \in Descriptors : QueueAt(n, s_procQ(d)) = QueueAt(m, s_procQ(d))
  BY <1>8, ListsAre
<1>10. Range(ActiveList(m)) \subseteq Descriptors
  BY <1>2, RangeOf, ListsAre DEF Sorted
<1>11. \A s \in SemAdd : QueuesIn(n)[s] = QueuesIn(m)[s]
  <2> TAKE s \in SemAdd
  <2> DEFINE A == Range(ActiveList(m))
             C == CHOOSE d \in A : m[s_semAdd(d)] = s
  <2>1. \A d \in A : n[s_semAdd(d)] = s <=> m[s_semAdd(d)] = s
    BY <1>4, <1>10
  <2>2. (CHOOSE d \in A : n[s_semAdd(d)] = s) = C
    BY <2>1
  <2>3. (\E d \in A : m[s_semAdd(d)] = s) => QueueAt(n, s_procQ(C)) = QueueAt(m, s_procQ(C))
    BY <1>9, <1>10
  <2> QED
    BY <1>9, <2>1, <2>2, <2>3 DEF QueuesIn
<1> QED
  BY <1>8, <1>11 DEF QueuesIn

------------------------------------------------------------------------------
(* The lists in memory.                                                     *)

\* The blocks that wait.
Waiting(w) == UNION {Range(w[s]) : s \in SemAdd}

\* The memory m holds the free list f, the ready queue r, the lists of children
\* k and the queues w of the semaphores.
HFree(m, f) == /\ f \in Seq(Pcb) /\ IsInjective(f)
               /\ Linked(m, "p_next", FreeHead, f)

HReady(m, r) == /\ r \in Seq(Pcb) /\ IsInjective(r)
                /\ Ring(m, readyQ, r)

HKids(m, k) ==
    /\ k \in [Pcb -> Seq(Pcb)]
    /\ \A p \in Pcb : IsInjective(k[p]) /\ Family(m, p, k[p])
    /\ \A p, q \in Pcb : p # q => Range(k[p]) \cap Range(k[q]) = {}
    /\ \A p \in Pcb : RootPcb \notin Range(k[p])
    /\ m[parent(RootPcb)] = NULL

HWaits(m, w) == Kept(m) /\ QueuesIn(m) = w

Apart(f, r, w) == /\ Range(f) \cap Range(r) = {}
                  /\ Range(f) \cap Waiting(w) = {}
                  /\ Range(r) \cap Waiting(w) = {}

Holds(m, f, r, k, w) ==
    HFree(m, f) /\ HReady(m, r) /\ HKids(m, k) /\ HWaits(m, w) /\ Apart(f, r, w)

\* The locations of a free list, a ready queue, the tree and the queues of the
\* semaphores, each with blocks in S on it.
FreeArea(S) == {FreeHead} \cup ({"p_next"} \X S)
ReadyArea(S) == QueueLocs(readyQ, S)
KidsArea == {"p_child", "p_nextSib", "p_prevSib", "p_parent"} \X Pcb
WaitArea(S) == WaitLocs(S) \cup ({"p_semAdd"} \X Pcb)

(* The locations of the four kinds of lists are all in memory. *)
LEMMA AreasThere ==
  ASSUME NEW S \in SUBSET Pcb
  PROVE  /\ FreeArea(S) \subseteq AslLocations
         /\ ReadyArea(S) \subseteq AslLocations
         /\ KidsArea \subseteq AslLocations
         /\ WaitArea(S) \subseteq AslLocations
<1>1. ReadyQ \in ProcQ /\ Descriptors \subseteq ProcQ
  BY NucleusAssumption, DescriptorFacts
<1>2. FreeArea(S) \subseteq AslLocations
  BY DEF FreeArea, AslLocations, Locations, Fields
<1>3. ReadyArea(S) \subseteq AslLocations
  BY <1>1 DEF ReadyArea, QueueLocs, readyQ, AslLocations, Locations, Fields
<1>4. KidsArea \subseteq AslLocations
  BY DEF KidsArea, AslLocations, Locations, Fields
<1>5. WaitArea(S) \subseteq AslLocations
  BY <1>1 DEF WaitArea, WaitLocs, ListLocs, AslLocations, Locations, Fields
<1> QED
  BY <1>2, <1>3, <1>4, <1>5

(* No location belongs to two kinds of lists. *)
LEMMA AreasApart ==
  ASSUME NEW S \in SUBSET Pcb, NEW T \in SUBSET Pcb
  PROVE  /\ S \cap T = {} => FreeArea(S) \cap ReadyArea(T) = {}
         /\ S \cap T = {} => FreeArea(S) \cap WaitArea(T) = {}
         /\ S \cap T = {} => ReadyArea(S) \cap WaitArea(T) = {}
         /\ FreeArea(S) \cap KidsArea = {} /\ ReadyArea(S) \cap KidsArea = {}
         /\ WaitArea(S) \cap KidsArea = {}
         /\ \A p \in Pcb : FamilyLocs(p, S) \subseteq KidsArea
<1>1. S \cap T = {} => FreeArea(S) \cap ReadyArea(T) = {}
  BY DEF FreeArea, ReadyArea, QueueLocs, readyQ, FreeHead, tail
<1>2. S \cap T = {} => FreeArea(S) \cap WaitArea(T) = {}
  BY DEF FreeArea, WaitArea, WaitLocs, ListLocs, FreeHead, SemdFree, SemdActive, tail
<1>3. S \cap T = {} => ReadyArea(S) \cap WaitArea(T) = {}
  <2>1. ReadyQ \notin Descriptors
    BY NucleusAssumption
  <2> QED
    BY <2>1 DEF ReadyArea, QueueLocs, readyQ, WaitArea, WaitLocs, ListLocs, SemdFree, SemdActive, tail
<1>4. FreeArea(S) \cap KidsArea = {} /\ ReadyArea(S) \cap KidsArea = {}
  BY DEF FreeArea, ReadyArea, QueueLocs, readyQ, FreeHead, tail, KidsArea
<1>5. WaitArea(S) \cap KidsArea = {}
  BY DEF WaitArea, WaitLocs, ListLocs, SemdFree, SemdActive, tail, KidsArea
<1>6. \A p \in Pcb : FamilyLocs(p, S) \subseteq KidsArea
  BY DEF FamilyLocs, KidsArea, child
<1> QED
  BY <1>1, <1>2, <1>3, <1>4, <1>5, <1>6

(* The free list is where it was if its locations are. *)
LEMMA FreeSame ==
  ASSUME NEW m, NEW n, NEW f, HFree(m, f), Same(m, n, FreeArea(Range(f)))
  PROVE  HFree(n, f)
BY LinkedSame DEF HFree, FreeArea

(* The ready queue is where it was if its locations are. *)
LEMMA ReadySame ==
  ASSUME NEW m, NEW n, NEW r, HReady(m, r), Same(m, n, ReadyArea(Range(r)))
  PROVE  HReady(n, r)
BY RingSame DEF HReady, ReadyArea

(* The tree is where it was if its locations are. *)
LEMMA KidsSame ==
  ASSUME NEW m, NEW n, NEW k, HKids(m, k), Same(m, n, KidsArea)
  PROVE  HKids(n, k)
<1>1. \A p \in Pcb : k[p] \in Seq(Pcb) /\ Range(k[p]) \in SUBSET Pcb
  BY RangeOf DEF HKids
<1>2. ASSUME NEW p \in Pcb PROVE Family(n, p, k[p])
  <2>1. FamilyLocs(p, Range(k[p])) \subseteq KidsArea
    BY <1>1, AreasApart
  <2>2. Same(m, n, FamilyLocs(p, Range(k[p])))
    BY <2>1 DEF Same
  <2> QED
    BY <1>1, <2>2, FamilySame DEF HKids
<1>3. parent(RootPcb) \in KidsArea
  BY NucleusAssumption DEF KidsArea, parent
<1>4. n[parent(RootPcb)] = NULL
  BY <1>3 DEF Same, HKids
<1> QED
  BY <1>2, <1>4 DEF HKids

(* The queues of the semaphores are where they were if their locations are. *)
LEMMA WaitsSame ==
  ASSUME NEW m, NEW n, NEW w, HWaits(m, w), IsAslMemory(n), Same(m, n, WaitArea(Waiting(w)))
  PROVE  HWaits(n, w)
<1>1. Waiting(w) = Waiters(m)
  BY DEF Waiting, Waiters, HWaits
<1>2. PICK a, u, Q : Good(m, a, u, Q)
  BY DEF HWaits, Kept
<1>3. Same(m, n, WaitLocs(Waiters(m))) /\ \A p \in Pcb : n[p_semAdd(p)] = m[p_semAdd(p)]
  BY <1>1 DEF Same, WaitArea, p_semAdd
<1>4. Good(n, a, u, Q) /\ QueuesIn(n) = QueuesIn(m)
  BY <1>2, <1>3, GoodSame
<1> QED
  BY <1>4 DEF HWaits, Kept

(* What lies outside of the locations that change is the same. *)
LEMMA Outside ==
  ASSUME NEW m, NEW n, NEW L, NEW A, A \subseteq AslLocations, A \cap L = {},
         Same(m, n, AslLocations \ L)
  PROVE  Same(m, n, A)
BY DEF Same

(* A function of pcb.c that changes some locations leaves the others. *)
LEMMA ChangesAre ==
  ASSUME NEW m, NEW n, NEW L, IsAslMemory(m), Changes(m, n, L)
  PROVE  IsAslMemory(n) /\ Same(m, n, AslLocations \ L)
<1>1. DOMAIN m = AslLocations /\ Locations \subseteq AslLocations
  BY AslMemoryIs, AslLocationFacts
<1>2. n = [l \in AslLocations |-> n[l]]
  BY <1>1 DEF Changes
<1>3. \A l \in AslLocations : n[l] = m[l] \/ (l \in L /\ n[l] \in Pcb \cup {NULL})
  BY <1>1 DEF Changes
<1> QED
  BY <1>1, <1>2, <1>3 DEF IsAslMemory, Same

(* The lists in memory have the types one expects. *)
LEMMA HoldsFacts ==
  ASSUME NEW m, NEW f, NEW r, NEW k, NEW w, Holds(m, f, r, k, w)
  PROVE  /\ IsAslMemory(m) /\ IsMemory(m) /\ DOMAIN m = AslLocations
         /\ f \in Seq(Pcb) /\ r \in Seq(Pcb) /\ k \in [Pcb -> Seq(Pcb)]
         /\ Range(f) \in SUBSET Pcb /\ Range(r) \in SUBSET Pcb /\ Waiting(w) \in SUBSET Pcb
         /\ \A p \in Pcb : k[p] \in Seq(Pcb) /\ Range(k[p]) \in SUBSET Pcb
         /\ w \in [SemAdd -> Seq(Pcb)]
         /\ \A s \in SemAdd : /\ w[s] \in Seq(Pcb) /\ IsInjective(w[s])
                              /\ Range(w[s]) \subseteq Waiting(w)
         /\ ReadyQ \in ProcQ
<1>1. PICK a, u, Q : Good(m, a, u, Q)
  BY DEF Holds, HWaits, Kept
<1>2. IsAslMemory(m) /\ IsMemory(m) /\ DOMAIN m = AslLocations
  BY <1>1, AslMemoryIs DEF Good
<1>3. f \in Seq(Pcb) /\ r \in Seq(Pcb) /\ k \in [Pcb -> Seq(Pcb)]
  BY DEF Holds, HFree, HReady, HKids
<1>4. w = QueuesIn(m)
  BY DEF Holds, HWaits
<1>5. w \in [SemAdd -> Seq(Pcb)]
  BY <1>1, <1>4, QueuesAre
<1>6. \A s \in SemAdd : w[s] \in Seq(Pcb) /\ IsInjective(w[s]) /\ Range(w[s]) \in SUBSET Pcb
  BY <1>1, <1>4, <1>5, QueueFacts, RangeOf
<1>7. Range(f) \in SUBSET Pcb /\ Range(r) \in SUBSET Pcb /\ Waiting(w) \in SUBSET Pcb
  BY <1>3, <1>6, RangeOf DEF Waiting
<1>8. \A p \in Pcb : k[p] \in Seq(Pcb) /\ Range(k[p]) \in SUBSET Pcb
  BY <1>3, RangeOf
<1>9. \A s \in SemAdd : Range(w[s]) \subseteq Waiting(w)
  BY DEF Waiting
<1> QED
  BY <1>2, <1>3, <1>5, <1>6, <1>7, <1>8, <1>9, NucleusAssumption

------------------------------------------------------------------------------
(* Changes to one kind of lists.                                            *)

(* A change within the ready queue leaves the other lists. *)
LEMMA ReadyOp ==
  ASSUME NEW m, NEW f, NEW r, NEW k, NEW w, Holds(m, f, r, k, w),
         NEW R \in SUBSET Pcb, R \cap Range(f) = {}, R \cap Waiting(w) = {},
         NEW n, Changes(m, n, QueueLocs(readyQ, R)),
         NEW t, HReady(n, t), Range(t) \subseteq R
  PROVE  Holds(n, f, t, k, w)
<1> DEFINE L == QueueLocs(readyQ, R)
<1>1. IsAslMemory(m) /\ Range(f) \in SUBSET Pcb /\ Waiting(w) \in SUBSET Pcb
  BY HoldsFacts
<1>2. IsAslMemory(n) /\ Same(m, n, AslLocations \ L)
  BY <1>1, ChangesAre
<1>3. L = ReadyArea(R)
  BY DEF ReadyArea
<1> HIDE DEF L
<1>4. HFree(n, f)
  <2>1. FreeArea(Range(f)) \subseteq AslLocations /\ FreeArea(Range(f)) \cap L = {}
    BY <1>1, <1>3, AreasThere, AreasApart
  <2> QED
    BY <1>2, <2>1, Outside, FreeSame DEF Holds
<1>5. HKids(n, k)
  <2>1. KidsArea \subseteq AslLocations /\ KidsArea \cap L = {}
    BY <1>1, <1>3, AreasThere, AreasApart
  <2> QED
    BY <1>2, <2>1, Outside, KidsSame DEF Holds
<1>6. HWaits(n, w)
  <2>1. WaitArea(Waiting(w)) \subseteq AslLocations /\ WaitArea(Waiting(w)) \cap L = {}
    BY <1>1, <1>3, AreasThere, AreasApart
  <2> QED
    BY <1>2, <2>1, Outside, WaitsSame DEF Holds
<1> QED
  BY <1>4, <1>5, <1>6 DEF Holds, Apart

(* A change within the queues of the semaphores leaves the other lists. *)
LEMMA WaitOp ==
  ASSUME NEW m, NEW f, NEW r, NEW k, NEW w, Holds(m, f, r, k, w),
         NEW S \in SUBSET Pcb, S \cap Range(f) = {}, S \cap Range(r) = {},
         NEW n, Within(m, n, S),
         NEW v, HWaits(n, v), Waiting(v) \subseteq S
  PROVE  Holds(n, f, r, k, v)
<1> DEFINE L == WaitLocs(S)
<1>1. Range(f) \in SUBSET Pcb /\ Range(r) \in SUBSET Pcb
  BY HoldsFacts
<1>2. Same(m, n, AslLocations \ L)
  BY DEF Within
<1>3. L \subseteq WaitArea(S)
  BY DEF WaitArea
<1> HIDE DEF L
<1>4. HFree(n, f)
  <2>1. FreeArea(Range(f)) \subseteq AslLocations /\ FreeArea(Range(f)) \cap L = {}
    BY <1>1, <1>3, AreasThere, AreasApart
  <2> QED
    BY <1>2, <2>1, Outside, FreeSame DEF Holds
<1>5. HKids(n, k)
  <2>1. KidsArea \subseteq AslLocations /\ KidsArea \cap L = {}
    BY <1>1, <1>3, AreasThere, AreasApart
  <2> QED
    BY <1>2, <2>1, Outside, KidsSame DEF Holds
<1>6. HReady(n, r)
  <2>1. ReadyArea(Range(r)) \subseteq AslLocations /\ ReadyArea(Range(r)) \cap L = {}
    BY <1>1, <1>3, AreasThere, AreasApart
  <2> QED
    BY <1>2, <2>1, Outside, ReadySame DEF Holds
<1> QED
  BY <1>4, <1>5, <1>6 DEF Holds, Apart

(* A function that changes the list of children of par changes no other. *)
LEMMA KidsOp ==
  ASSUME NEW m, DOMAIN m = AslLocations, NEW k, HKids(m, k),
         NEW R \in SUBSET Pcb, NEW par \in Pcb, \A q \in Pcb \ {par} : R \cap Range(k[q]) = {},
         RootPcb \notin R, NEW n, Changes(m, n, FamilyLocs(par, R)),
         NEW s \in Seq(Pcb), IsInjective(s), Range(s) \subseteq R, Family(n, par, s)
  PROVE  HKids(n, [k EXCEPT ![par] = s])
<1> DEFINE L == FamilyLocs(par, R)  l == [k EXCEPT ![par] = s]
<1>1. /\ k \in [Pcb -> Seq(Pcb)]
      /\ \A p \in Pcb : k[p] \in Seq(Pcb) /\ Range(k[p]) \in SUBSET Pcb
  BY RangeOf DEF HKids
<1>2. Same(m, n, AslLocations \ L)
  BY DEF Changes, Same
<1>3. ASSUME NEW p \in Pcb PROVE IsInjective(l[p]) /\ Family(n, p, l[p])
  <2>1. CASE p = par
    BY <1>1, <2>1
  <2>2. CASE p # par
    <3>1. l[p] = k[p] /\ IsInjective(k[p]) /\ Family(m, p, k[p])
      BY <1>1, <2>2 DEF HKids
    <3>2. FamilyLocs(p, Range(k[p])) \cap L = {}
      BY <2>2 DEF FamilyLocs, child
    <3>3. FamilyLocs(p, Range(k[p])) \subseteq AslLocations
      BY <1>1, AreasApart, AreasThere
    <3>4. Same(m, n, FamilyLocs(p, Range(k[p])))
      BY <1>2, <3>2, <3>3 DEF Same
    <3> QED
      BY <1>1, <3>1, <3>4, FamilySame
  <2> QED
    BY <2>1, <2>2
<1>4. n[parent(RootPcb)] = NULL
  <2>1. parent(RootPcb) \in AslLocations \ L
    BY NucleusAssumption, FamilyLocations, AslLocationFacts DEF FamilyLocs, parent, child
  <2> QED
    BY <1>2, <2>1 DEF Same, HKids
<1>5. \A p \in Pcb : l[p] = IF p = par THEN s ELSE k[p]
  BY <1>1
<1>6. l \in [Pcb -> Seq(Pcb)]
  BY <1>1
<1> HIDE DEF l
<1>7. HKids(n, l)
  BY <1>3, <1>4, <1>5, <1>6 DEF HKids
<1> QED
  BY <1>7 DEF l

(* A change among the children of one block leaves the other lists. *)
LEMMA FamilyOp ==
  ASSUME NEW m, NEW f, NEW r, NEW k, NEW w, Holds(m, f, r, k, w),
         NEW R \in SUBSET Pcb, NEW par \in Pcb, \A q \in Pcb \ {par} : R \cap Range(k[q]) = {},
         RootPcb \notin R, NEW n, Changes(m, n, FamilyLocs(par, R)),
         NEW s \in Seq(Pcb), IsInjective(s), Range(s) \subseteq R, Family(n, par, s)
  PROVE  Holds(n, f, r, [k EXCEPT ![par] = s], w)
<1> DEFINE L == FamilyLocs(par, R)  l == [k EXCEPT ![par] = s]
<1>1. /\ IsAslMemory(m) /\ Range(f) \in SUBSET Pcb /\ Range(r) \in SUBSET Pcb
      /\ Waiting(w) \in SUBSET Pcb /\ k \in [Pcb -> Seq(Pcb)]
      /\ \A p \in Pcb : k[p] \in Seq(Pcb) /\ Range(k[p]) \in SUBSET Pcb
  BY HoldsFacts
<1>2. IsAslMemory(n) /\ Same(m, n, AslLocations \ L)
  BY <1>1, ChangesAre
<1>3. L \subseteq KidsArea
  BY AreasApart
<1>4. HFree(n, f)
  <2> HIDE DEF L
  <2>1. FreeArea(Range(f)) \subseteq AslLocations /\ FreeArea(Range(f)) \cap L = {}
    BY <1>1, <1>3, AreasThere, AreasApart
  <2> QED
    BY <1>2, <2>1, Outside, FreeSame DEF Holds
<1>5. HReady(n, r)
  <2> HIDE DEF L
  <2>1. ReadyArea(Range(r)) \subseteq AslLocations /\ ReadyArea(Range(r)) \cap L = {}
    BY <1>1, <1>3, AreasThere, AreasApart
  <2> QED
    BY <1>2, <2>1, Outside, ReadySame DEF Holds
<1>6. HWaits(n, w)
  <2> HIDE DEF L
  <2>1. WaitArea(Waiting(w)) \subseteq AslLocations /\ WaitArea(Waiting(w)) \cap L = {}
    BY <1>1, <1>3, AreasThere, AreasApart
  <2> QED
    BY <1>2, <2>1, Outside, WaitsSame DEF Holds
<1>7. HKids(m, k) /\ DOMAIN m = AslLocations
  BY <1>1 DEF Holds, IsAslMemory
<1> HIDE DEF l
<1>8. HKids(n, l)
  BY <1>7, KidsOp DEF l
<1> QED
  BY <1>4, <1>5, <1>6, <1>8 DEF Holds, l

\* The blocks of S are on no list.
Loose(f, r, w, S) == S \cap Range(f) = {} /\ S \cap Range(r) = {} /\ S \cap Waiting(w) = {}

(* freePcb(p) puts a block that is on no list on the free list. *)
LEMMA FreeOp ==
  ASSUME NEW m, NEW f, NEW r, NEW k, NEW w, Holds(m, f, r, k, w),
         NEW p \in Pcb, Loose(f, r, w, {p})
  PROVE  Holds(freePcb(m, p), <<p>> \o f, r, k, w)
<1> DEFINE n == freePcb(m, p)  L == {FreeHead, next(p)}  g == <<p>> \o f
<1>1. /\ IsAslMemory(m) /\ IsMemory(m) /\ Range(f) \in SUBSET Pcb /\ Range(r) \in SUBSET Pcb
      /\ Waiting(w) \in SUBSET Pcb /\ f \in Seq(Pcb)
  BY HoldsFacts
<1>2. p \notin Range(f) /\ p \notin Range(r) /\ p \notin Waiting(w)
  BY DEF Loose
<1>3. Linked(n, "p_next", FreeHead, g) /\ Changes(m, n, L)
  BY <1>1, <1>2, FreeLinked DEF Holds, HFree
<1>4. g \in Seq(Pcb) /\ IsInjective(g) /\ Range(g) = Range(f) \cup {p}
  BY <1>1, <1>2, PrependMembers DEF Holds, HFree
<1> HIDE DEF n, g
<1>5. HFree(n, g)
  BY <1>3, <1>4 DEF HFree
<1>6. IsAslMemory(n) /\ Same(m, n, AslLocations \ L)
  BY <1>1, <1>3, ChangesAre
<1>7. L \subseteq FreeArea(Range(g)) /\ Range(g) \in SUBSET Pcb
  BY <1>1, <1>4 DEF FreeArea, next
<1>8. Range(g) \cap Range(r) = {} /\ Range(g) \cap Waiting(w) = {}
  BY <1>2, <1>4 DEF Holds, Apart
<1> HIDE DEF L
<1>9. HKids(n, k)
  <2>1. KidsArea \subseteq AslLocations /\ KidsArea \cap L = {}
    BY <1>1, <1>7, AreasThere, AreasApart
  <2> QED
    BY <1>6, <2>1, Outside, KidsSame DEF Holds
<1>10. HReady(n, r)
  <2>1. ReadyArea(Range(r)) \subseteq AslLocations /\ ReadyArea(Range(r)) \cap L = {}
    BY <1>1, <1>7, <1>8, AreasThere, AreasApart
  <2> QED
    BY <1>6, <2>1, Outside, ReadySame DEF Holds
<1>11. HWaits(n, w)
  <2>1. WaitArea(Waiting(w)) \subseteq AslLocations /\ WaitArea(Waiting(w)) \cap L = {}
    BY <1>1, <1>7, <1>8, AreasThere, AreasApart
  <2> QED
    BY <1>6, <2>1, Outside, WaitsSame DEF Holds
<1> QED
  BY <1>5, <1>8, <1>9, <1>10, <1>11 DEF Holds, Apart, n, g

------------------------------------------------------------------------------
(* The functions of pcb.c and asl.c.                                        *)

(* insertProcQ(readyQ, p) appends a block that is on no list. *)
LEMMA InsertReady ==
  ASSUME NEW m, NEW f, NEW r, NEW k, NEW w, Holds(m, f, r, k, w),
         NEW p \in Pcb, Loose(f, r, w, {p})
  PROVE  Holds(insertProcQ(m, readyQ, p), f, Append(r, p), k, w)
<1> DEFINE n == insertProcQ(m, readyQ, p)  t == Append(r, p)  R == Range(r) \cup {p}
<1>1. IsMemory(m) /\ r \in Seq(Pcb) /\ Range(r) \in SUBSET Pcb /\ ReadyQ \in ProcQ
  BY HoldsFacts
<1>2. p \notin Range(f) /\ p \notin Range(r) /\ p \notin Waiting(w)
  BY DEF Loose
<1>3. Ring(n, readyQ, t) /\ Changes(m, n, QueueLocs(readyQ, R))
  BY <1>1, <1>2, InsertRing DEF Holds, HReady, readyQ
<1>4. t \in Seq(Pcb) /\ IsInjective(t) /\ Range(t) = R
  BY <1>1, <1>2, RangeAppend DEF Holds, HReady
<1>5. R \in SUBSET Pcb /\ R \cap Range(f) = {} /\ R \cap Waiting(w) = {}
  BY <1>1, <1>2 DEF Holds, Apart
<1> HIDE DEF n, t, R
<1> QED
  BY <1>3, <1>4, <1>5, ReadyOp DEF HReady, n, t

(* removeProcQ(readyQ) takes the head of the ready queue, and does not fault. *)
LEMMA RemoveReady ==
  ASSUME NEW m, NEW f, NEW r, NEW k, NEW w, Holds(m, f, r, k, w)
  PROVE  LET x == removeProcQ(m, readyQ) IN
         /\ ~ Faults(m, readyQ)
         /\ r = <<>> => x.ptr = NULL /\ Holds(x.mem, f, r, k, w)
         /\ r # <<>> => x.ptr = Head(r) /\ Holds(x.mem, f, Tail(r), k, w)
<1> DEFINE x == removeProcQ(m, readyQ)  n == x.mem  t == Tail(r)  R == Range(r)
<1>1. IsMemory(m) /\ r \in Seq(Pcb) /\ Range(r) \in SUBSET Pcb /\ ReadyQ \in ProcQ
  BY HoldsFacts
<1>2. IsInjective(r) /\ Ring(m, readyQ, r) /\ m[readyQ] = IF r = <<>> THEN NULL ELSE r[Len(r)]
  BY DEF Holds, HReady, Ring
<1>3. CASE r = <<>>
  <2>1. m[readyQ] = NULL
    BY <1>2, <1>3
  <2>2. x = Returns(m, NULL) /\ ~ Faults(m, readyQ)
    BY <2>1 DEF removeProcQ, Faults
  <2>3. x.ptr = NULL /\ x.mem = m
    BY <2>2 DEF Returns
  <2> QED
    BY <1>3, <2>2, <2>3
<1>4. CASE r # <<>>
  <2>1. /\ x.ptr = Head(r) /\ Ring(n, readyQ, t)
        /\ Changes(m, n, QueueLocs(readyQ, R))
    BY <1>1, <1>2, <1>4, RemoveRing DEF readyQ
  <2>2. t \in Seq(Pcb) /\ IsInjective(t) /\ Range(t) \subseteq R
    BY <1>1, <1>2, <1>4, RangeTail
  <2>3. R \cap Range(f) = {} /\ R \cap Waiting(w) = {}
    BY DEF Holds, Apart
  <2>4. ~ Faults(m, readyQ)
    <3> DEFINE last == m[readyQ]  head == m[next(last)]
    <3>1. \A i \in 1 .. Len(r) : m[next(r[i])] \in Pcb
      <4> TAKE i \in 1 .. Len(r)
      <4>1. 1 \in 1 .. Len(r) /\ (i # Len(r) => i + 1 \in 1 .. Len(r))
        BY <1>1, <1>4
      <4> QED
        BY <1>1, <1>2, <4>1 DEF Ring
    <3>2. Len(r) \in 1 .. Len(r) /\ last = r[Len(r)] /\ 1 \in 1 .. Len(r)
      BY <1>1, <1>2, <1>4
    <3>3. head = r[1]
      BY <1>2, <3>2 DEF Ring
    <3>4. head \in Pcb /\ m[next(head)] \in Pcb
      BY <1>1, <3>1, <3>2, <3>3
    <3> QED
      BY <3>4, BlockAssumption DEF Faults
  <2> HIDE DEF n, t, R
  <2>5. HReady(n, t)
    BY <2>1, <2>2 DEF HReady
  <2>6. R \in SUBSET Pcb
    BY <1>1 DEF R
  <2>7. Holds(n, f, t, k, w)
    BY <2>1, <2>2, <2>3, <2>5, <2>6, ReadyOp
  <2> QED
    BY <1>4, <2>1, <2>4, <2>7 DEF n, t
<1> QED
  BY <1>3, <1>4

(* outProcQ(readyQ, p) takes p, unless it is the head: then it stays. *)
LEMMA OutReady ==
  ASSUME NEW m, NEW f, NEW r, NEW k, NEW w, Holds(m, f, r, k, w),
         NEW p \in Pcb, p \in Range(r)
  PROVE  LET n == outProcQ(m, readyQ, p).mem IN
         /\ QueueAt(m, readyQ) = r
         /\ Head(r) # p => QueueAt(n, readyQ) = Without(r, {p})
                           /\ Holds(n, f, Without(r, {p}), k, w)
         /\ Head(r) = p => QueueAt(n, readyQ) # Without(r, {p})
<1> DEFINE n == outProcQ(m, readyQ, p).mem  t == Without(r, {p})  R == Range(r)
<1>1. IsMemory(m) /\ r \in Seq(Pcb) /\ Range(r) \in SUBSET Pcb /\ ReadyQ \in ProcQ
  BY HoldsFacts
<1>2. IsInjective(r) /\ Ring(m, readyQ, r) /\ r # <<>>
  BY RangeEmpty DEF Holds, HReady
<1>3. QueueAt(m, readyQ) = r
  BY <1>1, <1>2, RingIsQueue
<1>4. t \in Seq(Pcb) /\ IsInjective(t) /\ Range(t) \subseteq R
  BY <1>1, <1>2, WithoutMembers
<1>5. CASE Head(r) # p
  <2>1. Ring(n, readyQ, t) /\ Changes(m, n, QueueLocs(readyQ, R))
    BY <1>1, <1>2, <1>5, OutRing DEF readyQ
  <2>2. R \cap Range(f) = {} /\ R \cap Waiting(w) = {}
    BY DEF Holds, Apart
  <2> HIDE DEF n, t, R
  <2>3. HReady(n, t)
    BY <1>4, <2>1 DEF HReady
  <2>4. R \in SUBSET Pcb
    BY <1>1 DEF R
  <2>5. Holds(n, f, t, k, w)
    BY <1>4, <2>1, <2>2, <2>3, <2>4, ReadyOp
  <2>6. QueueAt(n, readyQ) = t
    BY <1>4, <2>1, RingIsQueue
  <2> QED
    BY <1>3, <1>5, <2>5, <2>6 DEF n, t
<1>6. CASE Head(r) = p
  <2>1. /\ n[readyQ] = r[Len(r)] /\ r[Len(r)] \in Pcb
        /\ n[next(r[Len(r)])] \in {NULL, p}
    BY <1>1, <1>2, <1>6, OutHeadLinks DEF readyQ
  <2>2. n[readyQ] # NULL /\ n[next(n[readyQ])] \in {NULL, p}
    BY <2>1, BlockAssumption
  <2> HIDE DEF n
  <2>3. QueueAt(n, readyQ) # t
    BY <1>1, <1>2, <2>2, HeadStays
  <2> QED
    BY <1>3, <1>6, <2>3 DEF n
<1> QED
  BY <1>5, <1>6

------------------------------------------------------------------------------
\* The semaphores somebody waits on.
Active(w) == {s \in SemAdd : w[s] # <<>>}

(* Who waits when one queue has changed. *)
LEMMA WaitingExcept ==
  ASSUME NEW w \in [SemAdd -> Seq(Pcb)], NEW s \in SemAdd, NEW q, NEW S,
         Waiting(w) \subseteq S, Range(q) \subseteq S
  PROVE  Waiting([w EXCEPT ![s] = q]) \subseteq S
<1> DEFINE v == [w EXCEPT ![s] = q]
<1>1. \A t \in SemAdd : Range(v[t]) \subseteq S
  BY DEF Waiting
<1> QED
  BY <1>1 DEF Waiting

(* insertBlocked(s, p) appends p to the queue of s if a descriptor is left. *)
LEMMA InsertWait ==
  ASSUME NEW m, NEW f, NEW r, NEW k, NEW w, Holds(m, f, r, k, w),
         NEW p \in Pcb, Loose(f, r, w, {p}),
         NEW s \in SemAdd, s \in Active(w) \/ Cardinality(Active(w)) < Cardinality(SemdPool)
  PROVE  Holds(insertBlocked(m, s, p).mem, f, r, k, [w EXCEPT ![s] = Append(@, p)])
<1> DEFINE n == insertBlocked(m, s, p).mem  v == [w EXCEPT ![s] = Append(@, p)]
           S == Waiting(w) \cup {p}
<1>1. /\ w \in [SemAdd -> Seq(Pcb)] /\ Waiting(w) \in SUBSET Pcb
      /\ \A z \in SemAdd : w[z] \in Seq(Pcb) /\ Range(w[z]) \subseteq Waiting(w)
  BY HoldsFacts
<1>2. p \notin Range(f) /\ p \notin Range(r) /\ p \notin Waiting(w)
  BY DEF Loose
<1>3. PICK a, u, Q : Good(m, a, u, Q)
  BY DEF Holds, HWaits, Kept
<1>4. QueuesIn(m) = w /\ Waiters(m) = Waiting(w)
  BY DEF Holds, HWaits, Waiting, Waiters
<1>5. \A z \in SemAdd : p \notin Range(QueuesIn(m)[z])
  BY <1>1, <1>2, <1>4
<1>6. Active(w) = {z \in SemAdd : QueuesIn(m)[z] # <<>>}
  BY <1>4 DEF Active
<1>7. /\ Kept(n) /\ QueuesIn(n) = [QueuesIn(m) EXCEPT ![s] = Append(QueuesIn(m)[s], p)]
      /\ \A T : p \in T /\ Waiters(m) \subseteq T => Within(m, n, T)
  BY <1>3, <1>5, <1>6, InsertIs
<1>8. QueuesIn(n) = v /\ Within(m, n, S)
  BY <1>4, <1>7
<1>9. Waiting(v) \subseteq S
  <2>1. Range(Append(w[s], p)) \subseteq S
    BY <1>1, RangeAppend
  <2>2. v = [w EXCEPT ![s] = Append(w[s], p)] /\ Waiting(w) \subseteq S
    BY <1>1
  <2> HIDE DEF v, S
  <2> QED
    BY <1>1, <2>1, <2>2, WaitingExcept
<1>10. S \in SUBSET Pcb /\ S \cap Range(f) = {} /\ S \cap Range(r) = {}
  BY <1>1, <1>2 DEF Holds, Apart
<1> HIDE DEF n, v, S
<1>11. HWaits(n, v)
  BY <1>7, <1>8 DEF HWaits
<1> QED
  BY <1>8, <1>9, <1>10, <1>11, WaitOp DEF n, v

(* headBlocked(s) is the first waiter of s. *)
LEMMA HeadWait ==
  ASSUME NEW m, NEW f, NEW r, NEW k, NEW w, Holds(m, f, r, k, w), NEW s \in SemAdd
  PROVE  headBlocked(m, s) = IF w[s] = <<>> THEN NULL ELSE Head(w[s])
<1>1. PICK a, u, Q : Good(m, a, u, Q)
  BY DEF Holds, HWaits, Kept
<1>2. QueuesIn(m) = w
  BY DEF Holds, HWaits
<1> QED
  BY <1>1, <1>2, HeadIs

(* removeBlocked(s) takes the first waiter of s. *)
LEMMA RemoveWait ==
  ASSUME NEW m, NEW f, NEW r, NEW k, NEW w, Holds(m, f, r, k, w), NEW s \in SemAdd
  PROVE  LET x == removeBlocked(m, s) IN
         /\ w[s] = <<>> => x.ptr = NULL
         /\ w[s] # <<>> => /\ x.ptr = Head(w[s])
                           /\ Holds(x.mem, f, r, k, [w EXCEPT ![s] = Tail(@)])
<1> DEFINE x == removeBlocked(m, s)  n == x.mem  v == [w EXCEPT ![s] = Tail(@)]
           S == Waiting(w)
<1>1. /\ w \in [SemAdd -> Seq(Pcb)] /\ Waiting(w) \in SUBSET Pcb
      /\ w[s] \in Seq(Pcb) /\ IsInjective(w[s]) /\ Range(w[s]) \subseteq Waiting(w)
  BY HoldsFacts
<1>2. PICK a, u, Q : Good(m, a, u, Q)
  BY DEF Holds, HWaits, Kept
<1>3. QueuesIn(m) = w /\ Waiters(m) = Waiting(w)
  BY DEF Holds, HWaits, Waiting, Waiters
<1>4. /\ Kept(n)
      /\ w[s] = <<>> => x.ptr = NULL
      /\ w[s] # <<>> => x.ptr = Head(w[s]) /\ QueuesIn(n) = v
      /\ \A T : Waiters(m) \subseteq T => Within(m, n, T)
  BY <1>2, <1>3, RemoveIs
<1>5. CASE w[s] # <<>>
  <2>1. Range(Tail(w[s])) \subseteq S
    BY <1>1, <1>5, RangeTail
  <2>2. Waiting(v) \subseteq S
    BY <1>1, <2>1, WaitingExcept
  <2>3. Within(m, n, S)
    BY <1>3, <1>4
  <2>4. S \cap Range(f) = {} /\ S \cap Range(r) = {}
    BY DEF Holds, Apart
  <2>5. QueuesIn(n) = v
    BY <1>4, <1>5
  <2> HIDE DEF n, v, S
  <2>6. HWaits(n, v)
    BY <1>4, <2>5 DEF HWaits
  <2>7. S \in SUBSET Pcb
    BY <1>1 DEF S
  <2>8. Holds(n, f, r, k, v)
    BY <2>2, <2>3, <2>4, <2>6, <2>7, WaitOp
  <2> QED
    BY <1>4, <1>5, <2>8 DEF n, v
<1> QED
  BY <1>4, <1>5

(* outBlocked(p) takes p from the queue it is on, unless it is the head. *)
LEMMA OutWait ==
  ASSUME NEW m, NEW f, NEW r, NEW k, NEW w, Holds(m, f, r, k, w), NEW s \in SemAdd,
         NEW p \in Range(w[s]), Head(w[s]) # p
  PROVE  LET n == outBlocked(m, p).mem  v == [w EXCEPT ![s] = Without(@, {p})] IN
         Holds(n, f, r, k, v) /\ QueuesIn(n)[s] = Without(w[s], {p})
<1> DEFINE n == outBlocked(m, p).mem  v == [w EXCEPT ![s] = Without(@, {p})]
           S == Waiting(w)
<1>1. /\ w \in [SemAdd -> Seq(Pcb)] /\ Waiting(w) \in SUBSET Pcb
      /\ w[s] \in Seq(Pcb) /\ IsInjective(w[s]) /\ Range(w[s]) \subseteq Waiting(w)
  BY HoldsFacts
<1>2. PICK a, u, Q : Good(m, a, u, Q)
  BY DEF Holds, HWaits, Kept
<1>3. QueuesIn(m) = w /\ Waiters(m) = Waiting(w)
  BY DEF Holds, HWaits, Waiting, Waiters
<1>4. WaitsBehind(m, s, p) /\ p \in Pcb
  BY <1>1, <1>3 DEF WaitsBehind
<1>5. /\ Kept(n) /\ QueuesIn(n) = v
      /\ \A T : Waiters(m) \subseteq T => Within(m, n, T)
  <2>1. /\ Kept(n)
        /\ QueuesIn(n) = [QueuesIn(m) EXCEPT ![s] = Without(QueuesIn(m)[s], {p})]
        /\ \A T : Waiters(m) \subseteq T => Within(m, n, T)
    BY <1>2, <1>4, OutTakes
  <2> QED
    BY <1>3, <2>1
<1>6. Range(Without(w[s], {p})) \subseteq S
  BY <1>1, WithoutMembers
<1>7. Waiting(v) \subseteq S
  BY <1>1, <1>6, WaitingExcept
<1>8. Within(m, n, S)
  BY <1>3, <1>5
<1>9. S \cap Range(f) = {} /\ S \cap Range(r) = {}
  BY DEF Holds, Apart
<1>10. v[s] = Without(w[s], {p})
  BY <1>1
<1> HIDE DEF n, v, S
<1>11. HWaits(n, v)
  BY <1>5 DEF HWaits
<1>12. S \in SUBSET Pcb
  BY <1>1 DEF S
<1>13. Holds(n, f, r, k, v)
  BY <1>7, <1>8, <1>9, <1>11, <1>12, WaitOp
<1> QED
  BY <1>5, <1>10, <1>13 DEF n, v

(* outBlocked(p) leaves p where it is if it is the head. *)
LEMMA OutWaitHead ==
  ASSUME NEW m, NEW f, NEW r, NEW k, NEW w, Holds(m, f, r, k, w), NEW s \in SemAdd,
         w[s] # <<>>
  PROVE  QueuesIn(outBlocked(m, Head(w[s])).mem)[s] # Without(w[s], {Head(w[s])})
<1> DEFINE q == w[s]  p == Head(q)
<1>1. /\ q \in Seq(Pcb) /\ IsInjective(q) /\ IsAslMemory(m) /\ IsMemory(m)
      /\ DOMAIN m = AslLocations
  BY HoldsFacts
<1>2. p \in Range(q) /\ p \in Pcb
  BY <1>1, RangeTail
<1>3. PICK a, u, Q : Good(m, a, u, Q)
  BY DEF Holds, HWaits, Kept
<1>4. QueuesIn(m) = w
  BY DEF Holds, HWaits
<1>5. PICK j \in 2 .. Len(a) :
         /\ Found(m, a, s, j) /\ search(m, s) = a[j - 1]
         /\ m[s_next(search(m, s))] = a[j]
         /\ m[s_semAdd(a[j])] = s
         /\ a[j] \in ProcQ /\ Q[a[j]] = q
         /\ Ring(m, tail(a[j]), Q[a[j]])
  BY <1>3, <1>4, SearchIs
<1> DEFINE d == a[j]  x == a[j - 1]  r0 == outProcQ(m, tail(d), p)
<1>6. m[p_semAdd(p)] = s
  BY <1>2, <1>3, <1>4, MarksAre
<1>7. Sorted(m, a, u) /\ a \in Seq(Descriptors) /\ IsInjective(a) /\ Linked(m, "s_next", SemdActive, a)
  BY <1>3 DEF Good, Sorted
<1>8. /\ j \in 1 .. Len(a) /\ j - 1 \in 1 .. Len(a)
      /\ d \in Descriptors /\ x \in Descriptors /\ d \in Range(a)
  BY <1>7, RangeOf
<1> HIDE DEF q, p, d, x
<1>9. outBlocked(m, p) = Taken(r0, x)
  BY <1>5, <1>6 DEF outBlocked, d, x, s_procQ
<1>10. /\ Ring(m, tail(d), q) /\ d \in ProcQ /\ m[s_next(x)] = d /\ m[s_semAdd(d)] = s
  BY <1>5 DEF d, x
<1> DEFINE k0 == r0.mem  last == q[Len(q)]
<1>11. /\ k0[tail(d)] = last /\ last \in Pcb /\ k0[next(last)] \in {NULL, p}
       /\ r0.ptr \in Range(q) /\ Changes(m, k0, {"p_next", "p_prev"} \X Range(q))
  <2>1. q \in Seq(Pcb) /\ IsInjective(q) /\ q # <<>> /\ p = Head(q) /\ IsMemory(m)
    BY <1>1 DEF q, p
  <2> QED
    BY <1>10, <2>1, OutHeadLinks
<1> HIDE DEF r0, k0, last
<1>12. DOMAIN k0 = AslLocations /\ Same(m, k0, ListLocs)
  <2>1. ListLocs \cap ({"p_next", "p_prev"} \X Range(q)) = {}
    BY DEF ListLocs, SemdFree, SemdActive
  <2>2. ListLocs \subseteq AslLocations
    BY DEF ListLocs, AslLocations
  <2> QED
    BY <1>1, <1>11, <2>1, <2>2 DEF Changes, Same
<1>13. UnlinkedIfEmpty(k0, x) = k0
  <2>1. k0[s_next(x)] = d
    BY <1>8, <1>10, <1>12, AslLocationFacts DEF Same
  <2> QED
    BY <1>11, <2>1, BlockAssumption DEF UnlinkedIfEmpty, s_procQ
<1> DEFINE n == Taken(r0, x).mem  y == r0.ptr
<1>14. n = [k0 EXCEPT ![p_semAdd(y)] = NULL]
  BY <1>13 DEF Taken, Returns, k0
<1> HIDE DEF n, y
<1>15. /\ \A l \in AslLocations : l # p_semAdd(y) => n[l] = k0[l]
  BY <1>12, <1>14
<1>16. Same(m, n, ListLocs)
  <2>1. ListLocs \subseteq AslLocations /\ p_semAdd(y) \notin ListLocs
    BY AslLocationFacts DEF ListLocs, AslLocations
  <2> QED
    BY <1>12, <1>15, <2>1 DEF Same
<1>17. n[tail(d)] = last /\ n[next(last)] \in {NULL, p}
  <2>1. tail(d) \in AslLocations /\ next(last) \in AslLocations
    BY <1>8, <1>11, AslLocationFacts
  <2>2. p_semAdd(y) # tail(d) /\ p_semAdd(y) # next(last)
    BY DEF p_semAdd, tail, next
  <2> QED
    BY <1>11, <1>15, <2>1, <2>2
<1>18. QueueAt(n, tail(d)) # Without(q, {p})
  <2>1. n[tail(d)] # NULL /\ n[next(n[tail(d)])] \in {NULL, p}
    BY <1>11, <1>17, BlockAssumption
  <2>2. q \in Seq(Pcb) /\ IsInjective(q)
    BY <1>1 DEF q
  <2> QED
    BY <2>1, <2>2, HeadStays
<1>19. Sorted(n, a, u)
  BY <1>7, <1>16, SortedFrame
<1>20. ActiveList(n) = a
  <2>1. Linked(n, "s_next", SemdActive, a) /\ Len(a) <= N + 2 /\ NULL \notin Descriptors
    BY <1>7, <1>19, DescriptorListLen, DescriptorFacts DEF Sorted
  <2> QED
    BY <1>7, <2>1, LinkedList DEF ActiveList
<1>21. n[s_semAdd(d)] = s
  BY <1>8, <1>10, <1>16, AslLocationFacts DEF Same
<1>22. \A e \in Range(a) : n[s_semAdd(e)] = s => e = d
  BY <1>8, <1>19, <1>21, ActiveAddresses
<1>23. (CHOOSE e \in Range(a) : n[s_semAdd(e)] = s) = d
  BY <1>8, <1>21, <1>22
<1>24. QueuesIn(n)[s] = QueueAt(n, tail(d))
  BY <1>8, <1>20, <1>21, <1>23 DEF QueuesIn, s_procQ
<1> QED
  BY <1>9, <1>18, <1>24 DEF n, q, p

(* allocPcb takes the first free block. *)
LEMMA AllocOp ==
  ASSUME NEW m, NEW f, NEW r, NEW k, NEW w, Holds(m, f, r, k, w),
         f # <<>>, \A p \in Pcb : Head(f) \notin Range(k[p]), k[Head(f)] = <<>>,
         Head(f) # RootPcb
  PROVE  LET x == allocPcb(m)  h == Head(f) IN
         /\ x.ptr = h /\ Holds(x.mem, Tail(f), r, k, w)
         /\ x.mem[nextSib(h)] = NULL /\ x.mem[prevSib(h)] = NULL
<1> DEFINE x == allocPcb(m)  n == x.mem  h == Head(f)  g == Tail(f)
           L == {FreeHead} \cup (Fields \X {h})
<1>1. /\ IsAslMemory(m) /\ IsMemory(m) /\ Range(f) \in SUBSET Pcb /\ Range(r) \in SUBSET Pcb
      /\ Waiting(w) \in SUBSET Pcb /\ f \in Seq(Pcb) /\ DOMAIN m = AslLocations
      /\ \A p \in Pcb : k[p] \in Seq(Pcb) /\ Range(k[p]) \in SUBSET Pcb
      /\ \A s \in SemAdd : Range(w[s]) \subseteq Waiting(w)
  BY HoldsFacts
<1>2. x.ptr = h /\ Linked(n, "p_next", FreeHead, g) /\ Changes(m, n, L)
      /\ \A l \in Fields \X {h} : n[l] = NULL
  BY <1>1, AllocLinked DEF Holds, HFree
<1>3. /\ g \in Seq(Pcb) /\ IsInjective(g) /\ Range(g) = Range(f) \ {h}
      /\ h \in Range(f) /\ h \in Pcb
  BY <1>1, RangeTail DEF Holds, HFree
<1>4. h \notin Range(r) /\ h \notin Waiting(w)
  BY <1>3 DEF Holds, Apart
<1> HIDE DEF n, h, g, x
<1>5. IsAslMemory(n) /\ Same(m, n, AslLocations \ L)
  BY <1>1, <1>2, ChangesAre
<1>6. HFree(n, g)
  BY <1>2, <1>3 DEF HFree
<1>7. HReady(n, r)
  <2>1. ReadyArea(Range(r)) \subseteq AslLocations
    BY <1>1, AreasThere
  <2>2. ReadyArea(Range(r)) \cap L = {}
    BY <1>4 DEF ReadyArea, QueueLocs, readyQ, tail, FreeHead, Fields
  <2> QED
    BY <1>5, <2>1, <2>2, Outside, ReadySame DEF Holds
<1>8. HWaits(n, w)
  <2>1. WaitArea(Waiting(w)) \subseteq AslLocations
    BY <1>1, AreasThere
  <2>2. WaitLocs(Waiting(w)) \cap L = {}
    BY <1>4 DEF WaitLocs, ListLocs, tail, FreeHead, Fields, SemdFree, SemdActive
  <2>3. m[p_semAdd(h)] = NULL
    <3>1. PICK a, u, Q : Good(m, a, u, Q)
      BY DEF Holds, HWaits, Kept
    <3>2. \A s \in SemAdd : h \notin Range(QueuesIn(m)[s])
      BY <1>1, <1>4 DEF Holds, HWaits
    <3> QED
      BY <1>3, <3>1, <3>2, MarksAre
  <2>4. \A p \in Pcb : n[p_semAdd(p)] = m[p_semAdd(p)]
    <3> TAKE p \in Pcb
    <3>1. CASE p = h
      <4>1. p_semAdd(h) \in Fields \X {h}
        BY DEF p_semAdd, Fields
      <4> QED
        BY <1>2, <2>3, <3>1, <4>1
    <3>2. CASE p # h
      <4>1. p_semAdd(p) \in AslLocations /\ p_semAdd(p) \notin L
        BY <3>2, AslLocationFacts DEF p_semAdd, FreeHead
      <4> QED
        BY <1>5, <4>1 DEF Same
    <3> QED
      BY <3>1, <3>2
  <2>5. Same(m, n, WaitArea(Waiting(w)))
    <3> SUFFICES ASSUME NEW l \in WaitArea(Waiting(w)) PROVE n[l] = m[l]
      BY DEF Same
    <3>1. CASE l \in WaitLocs(Waiting(w))
      BY <1>5, <2>1, <2>2, <3>1 DEF Same
    <3>2. CASE l \in {"p_semAdd"} \X Pcb
      <4>1. PICK p \in Pcb : l = p_semAdd(p)
        BY <3>2 DEF p_semAdd
      <4> QED
        BY <2>4, <4>1
    <3> QED
      BY <3>1, <3>2 DEF WaitArea
  <2> QED
    BY <1>5, <2>5, WaitsSame DEF Holds
<1>9. HKids(n, k)
  <2>1. HKids(m, k)
    BY DEF Holds
  <2>2. ASSUME NEW p \in Pcb PROVE Family(n, p, k[p])
    <3>1. CASE p = h
      <4>1. k[p] = <<>>
        BY <3>1 DEF h
      <4>2. n[child(h)] = NULL
        BY <1>2 DEF child, Fields
      <4> QED
        BY <3>1, <4>1, <4>2, FamilyFacts
    <3>2. CASE p # h
      <4>1. h \notin Range(k[p])
        BY DEF h
      <4>2. FamilyLocs(p, Range(k[p])) \cap L = {}
        BY <3>2, <4>1 DEF FamilyLocs, child, FreeHead, Fields
      <4>3. FamilyLocs(p, Range(k[p])) \subseteq AslLocations
        BY <1>1, AreasApart, AreasThere
      <4>4. Same(m, n, FamilyLocs(p, Range(k[p])))
        BY <1>5, <4>2, <4>3 DEF Same
      <4> QED
        BY <1>1, <2>1, <4>4, FamilySame DEF HKids
    <3> QED
      BY <3>1, <3>2
  <2>3. n[parent(RootPcb)] = NULL
    <3>1. parent(RootPcb) \in AslLocations \ L
      BY NucleusAssumption, FamilyLocations, AslLocationFacts DEF FreeHead, parent, h
    <3> QED
      BY <1>5, <2>1, <3>1 DEF Same, HKids
  <2> QED
    BY <2>1, <2>2, <2>3 DEF HKids
<1>10. Apart(g, r, w)
  BY <1>3 DEF Holds, Apart
<1>11. nextSib(h) \in Fields \X {h} /\ prevSib(h) \in Fields \X {h}
  BY DEF nextSib, prevSib, Fields
<1> QED
  BY <1>2, <1>6, <1>7, <1>8, <1>9, <1>10, <1>11 DEF Holds, n, h, g, x

(* allocPcb finds no block when none is free. *)
LEMMA AllocFails ==
  ASSUME NEW m, NEW f, NEW r, NEW k, NEW w, Holds(m, f, r, k, w)
  PROVE  allocPcb(m).ptr = NULL <=> f = <<>>
<1>1. m[FreeHead] = (IF f = <<>> THEN NULL ELSE f[1]) /\ f \in Seq(Pcb)
  BY DEF Holds, HFree, Linked
<1>2. f # <<>> => f[1] \in Pcb
  BY <1>1
<1>3. allocPcb(m).ptr = m[FreeHead]
  BY DEF allocPcb, Returns
<1> QED
  BY <1>1, <1>2, <1>3, BlockAssumption
------------------------------------------------------------------------------

(* insertChild puts a block that has no parent in front of the children. *)
LEMMA InsertKid ==
  ASSUME NEW m, NEW f, NEW r, NEW k, NEW w, Holds(m, f, r, k, w),
         NEW par \in Pcb, NEW p \in Pcb, \A q \in Pcb : p \notin Range(k[q]), p # RootPcb,
         m[nextSib(p)] = NULL, m[prevSib(p)] = NULL
  PROVE  Holds(insertChild(m, par, p), f, r, [k EXCEPT ![par] = <<p>> \o @], w)
<1> DEFINE n == insertChild(m, par, p)  s == <<p>> \o k[par]  R == Range(k[par]) \cup {p}
<1>1. IsMemory(m) /\ k[par] \in Seq(Pcb) /\ Range(k[par]) \in SUBSET Pcb /\ k \in [Pcb -> Seq(Pcb)]
  BY HoldsFacts
<1>2. HKids(m, k)
  BY DEF Holds
<1>3. IsInjective(k[par]) /\ Family(m, par, k[par])
  BY <1>2 DEF HKids
<1>4. Family(n, par, s) /\ Changes(m, n, FamilyLocs(par, R))
  BY <1>1, <1>3, InsertFamily
<1>5. s \in Seq(Pcb) /\ IsInjective(s) /\ Range(s) \subseteq R
  BY <1>1, <1>3, PrependMembers
<1>6. /\ R \in SUBSET Pcb /\ RootPcb \notin R
      /\ \A q \in Pcb \ {par} : R \cap Range(k[q]) = {}
  BY <1>1, <1>2 DEF HKids
<1>7. [k EXCEPT ![par] = <<p>> \o @] = [k EXCEPT ![par] = s]
  OBVIOUS
<1> HIDE DEF n, s, R
<1>8. Holds(n, f, r, [k EXCEPT ![par] = s], w)
  BY <1>4, <1>5, <1>6, FamilyOp
<1> QED
  BY <1>7, <1>8 DEF n

(* emptyChild tells whether a block has children. *)
LEMMA EmptyTree ==
  ASSUME NEW m, NEW k, HKids(m, k), NEW par \in Pcb
  PROVE  emptyChild(m, par) <=> k[par] = <<>>
<1>1. k[par] \in Seq(Pcb) /\ Family(m, par, k[par])
  BY DEF HKids
<1>2. m[child(par)] = IF k[par] = <<>> THEN NULL ELSE k[par][1]
  BY <1>1, FamilyFacts
<1>3. k[par] # <<>> => k[par][1] \in Pcb
  BY <1>1
<1> QED
  BY <1>2, <1>3, BlockAssumption DEF emptyChild

LEMMA EmptyKids ==
  ASSUME NEW m, NEW f, NEW r, NEW k, NEW w, Holds(m, f, r, k, w), NEW par \in Pcb
  PROVE  emptyChild(m, par) <=> k[par] = <<>>
BY EmptyTree DEF Holds

(* removeChild takes the first child of a block, whatever else is in memory. *)
LEMMA RemoveFromTree ==
  ASSUME NEW m, IsMemory(m), DOMAIN m = AslLocations, NEW k, HKids(m, k),
         NEW par \in Pcb, k[par] # <<>>
  PROVE  LET x == removeChild(m, par) IN
         x.ptr = Head(k[par]) /\ HKids(x.mem, [k EXCEPT ![par] = Tail(@)])
<1> DEFINE x == removeChild(m, par)  n == x.mem  s == Tail(k[par])  R == Range(k[par])
<1>1. /\ k \in [Pcb -> Seq(Pcb)] /\ k[par] \in Seq(Pcb) /\ R \in SUBSET Pcb
      /\ IsInjective(k[par]) /\ Family(m, par, k[par])
  BY RangeOf DEF HKids
<1>2. x.ptr = Head(k[par]) /\ Family(n, par, s) /\ Changes(m, n, FamilyLocs(par, R))
  BY <1>1, RemoveFamily
<1>3. s \in Seq(Pcb) /\ IsInjective(s) /\ Range(s) \subseteq R
  BY <1>1, RangeTail
<1>4. RootPcb \notin R /\ \A q \in Pcb \ {par} : R \cap Range(k[q]) = {}
  BY DEF HKids
<1>5. [k EXCEPT ![par] = Tail(@)] = [k EXCEPT ![par] = s]
  OBVIOUS
<1> HIDE DEF n, s, R
<1>6. HKids(n, [k EXCEPT ![par] = s])
  BY <1>1, <1>2, <1>3, <1>4, KidsOp
<1> QED
  BY <1>2, <1>5, <1>6 DEF n

(* removeChild takes the first child of a block. *)
LEMMA RemoveKid ==
  ASSUME NEW m, NEW f, NEW r, NEW k, NEW w, Holds(m, f, r, k, w),
         NEW par \in Pcb, k[par] # <<>>
  PROVE  LET x == removeChild(m, par) IN
         /\ x.ptr = Head(k[par])
         /\ Holds(x.mem, f, r, [k EXCEPT ![par] = Tail(@)], w)
<1> DEFINE x == removeChild(m, par)  n == x.mem  s == Tail(k[par])  R == Range(k[par])
<1>1. IsMemory(m) /\ k[par] \in Seq(Pcb) /\ Range(k[par]) \in SUBSET Pcb /\ k \in [Pcb -> Seq(Pcb)]
  BY HoldsFacts
<1>2. HKids(m, k)
  BY DEF Holds
<1>3. IsInjective(k[par]) /\ Family(m, par, k[par])
  BY <1>2 DEF HKids
<1>4. x.ptr = Head(k[par]) /\ Family(n, par, s) /\ Changes(m, n, FamilyLocs(par, R))
  BY <1>1, <1>3, RemoveFamily
<1>5. s \in Seq(Pcb) /\ IsInjective(s) /\ Range(s) \subseteq R
  BY <1>1, <1>3, RangeTail
<1>6. /\ R \in SUBSET Pcb /\ RootPcb \notin R
      /\ \A q \in Pcb \ {par} : R \cap Range(k[q]) = {}
  BY <1>1, <1>2 DEF HKids
<1>7. [k EXCEPT ![par] = Tail(@)] = [k EXCEPT ![par] = s]
  OBVIOUS
<1> HIDE DEF n, s, R
<1>8. Holds(n, f, r, [k EXCEPT ![par] = s], w)
  BY <1>4, <1>5, <1>6, FamilyOp
<1> QED
  BY <1>4, <1>7, <1>8 DEF n

\* The lists k of children without c.
Orphaned(k, c) == [p \in Pcb |-> Without(k[p], {c})]

(* outChild takes a block from its parent, unless it is a middle child: then
   what it returns is what happens to be in v0. *)
LEMMA OutKid ==
  ASSUME NEW m, NEW f, NEW r, NEW k, NEW w, Holds(m, f, r, k, w),
         NEW c \in Pcb, c = RootPcb \/ \E q \in Pcb : c \in Range(k[q])
  PROVE  LET x == outChild(m, c) IN
         /\ x.ptr = Undefined <=> IsMiddleChild(k, c)
         /\ x.ptr # Undefined => Holds(x.mem, f, r, Orphaned(k, c), w)
<1> DEFINE x == outChild(m, c)  n == x.mem
<1>1. /\ IsMemory(m) /\ k \in [Pcb -> Seq(Pcb)]
      /\ \A p \in Pcb : k[p] \in Seq(Pcb) /\ Range(k[p]) \in SUBSET Pcb
  BY HoldsFacts
<1>2. /\ \A p \in Pcb : IsInjective(k[p]) /\ Family(m, p, k[p]) /\ RootPcb \notin Range(k[p])
      /\ \A p, q \in Pcb : p # q => Range(k[p]) \cap Range(k[q]) = {}
      /\ m[parent(RootPcb)] = NULL
  BY DEF Holds, HKids
<1>3. \A p \in Pcb : c \notin Range(k[p]) => Without(k[p], {c}) = k[p]
  BY <1>1, <1>2, WithoutNone
<1>4. CASE \A p \in Pcb : c \notin Range(k[p])
  <2>1. x = Returns(m, NULL)
    BY <1>2, <1>4, OutNoChild
  <2>2. x.ptr = NULL /\ x.mem = m /\ NULL # Undefined
    BY <2>1, BlockAssumption DEF Returns
  <2>3. ~ IsMiddleChild(k, c)
    <3>1. ASSUME NEW q \in Pcb, NEW i \in 2 .. Len(k[q]) - 1, k[q][i] = c PROVE FALSE
      <4>1. i \in 1 .. Len(k[q])
        BY <1>1
      <4> QED
        BY <1>1, <1>4, <3>1, <4>1, RangeOf
    <3> QED
      BY <1>1, <3>1 DEF IsMiddleChild
  <2>4. Orphaned(k, c) = k
    BY <1>1, <1>3, <1>4 DEF Orphaned
  <2> QED
    BY <2>2, <2>3, <2>4
<1>5. ASSUME NEW q \in Pcb, c \in Range(k[q])
      PROVE  /\ x.ptr = Undefined <=> IsMiddleChild(k, c)
             /\ x.ptr # Undefined => Holds(x.mem, f, r, Orphaned(k, c), w)
  <2> DEFINE s == k[q]  l == Len(s)
  <2>1. s \in Seq(Pcb) /\ IsInjective(s) /\ Family(m, q, s) /\ s # <<>> /\ l \in Nat
    BY <1>1, <1>2, <1>5, RangeEmpty
  <2>2. PICK i \in 1 .. l : s[i] = c
    BY <1>5, <2>1, RangeOf
  <2>3. \A j \in 1 .. l : s[j] = c => j = i
    BY <2>1, <2>2, RangeOf DEF IsInjective
  <2>4. IsMiddleChild(k, c) <=> i # 1 /\ i # l
    <3>1. ASSUME i # 1, i # l PROVE IsMiddleChild(k, c)
      <4>1. i \in 2 .. l - 1
        <5> HIDE DEF l
        <5> QED
          BY <2>1, <2>2, <3>1
      <4> QED
        BY <1>1, <2>2, <4>1 DEF IsMiddleChild
    <3>2. ASSUME IsMiddleChild(k, c) PROVE i # 1 /\ i # l
      <4>1. PICK y \in Pcb : \E j \in 2 .. Len(k[y]) - 1 : k[y][j] = c
        BY <1>1, <3>2 DEF IsMiddleChild
      <4>2. PICK j \in 2 .. Len(k[y]) - 1 : k[y][j] = c
        BY <4>1
      <4>3. Len(k[y]) \in Nat /\ j \in 1 .. Len(k[y]) /\ j # 1 /\ j # Len(k[y])
        BY <1>1
      <4>4. c \in Range(k[y])
        BY <1>1, <4>2, <4>3, RangeOf
      <4>5. y = q
        BY <1>2, <1>5, <4>4
      <4> QED
        BY <2>3, <4>2, <4>3, <4>5
    <3> QED
      BY <3>1, <3>2
  <2>5. Orphaned(k, c) = [k EXCEPT ![q] = Without(s, {c})]
    <3>1. \A p \in Pcb : p # q => Without(k[p], {c}) = k[p]
      BY <1>2, <1>3, <1>5
    <3> QED
      BY <1>1, <3>1 DEF Orphaned
  <2>6. CASE i = 1
    <3>1. x = removeChild(m, q) /\ c = Head(s)
      BY <2>1, <2>2, <2>6, OutOtherFamily
    <3>2. x.ptr = c /\ Holds(n, f, r, [k EXCEPT ![q] = Tail(@)], w)
      BY <2>1, <3>1, RemoveKid
    <3>3. Without(s, {c}) = Tail(s)
      BY <2>1, <3>1, WithoutHead
    <3>4. c # Undefined
      BY BlockAssumption
    <3> QED
      BY <2>4, <2>5, <2>6, <3>2, <3>3, <3>4
  <2>7. CASE i # 1 /\ i = l
    <3> DEFINE t == Without(s, {c})  R == Range(s)
    <3>1. l > 1
      <4> HIDE DEF l
      <4> QED
        BY <2>1, <2>2, <2>7
    <3>2. x.ptr = c /\ Family(n, q, t) /\ Changes(m, n, FamilyLocs(q, R))
      BY <1>1, <2>1, <2>2, <2>7, <3>1, OutLastFamily
    <3>3. t \in Seq(Pcb) /\ IsInjective(t) /\ Range(t) \subseteq R
      BY <2>1, WithoutMembers
    <3>4. /\ R \in SUBSET Pcb /\ RootPcb \notin R
          /\ \A p \in Pcb \ {q} : R \cap Range(k[p]) = {}
      BY <1>1, <1>2
    <3>5. c # Undefined
      BY BlockAssumption
    <3> HIDE DEF n, t, R
    <3>6. Holds(n, f, r, [k EXCEPT ![q] = t], w)
      BY <3>2, <3>3, <3>4, FamilyOp
    <3> QED
      BY <2>4, <2>5, <2>7, <3>2, <3>5, <3>6 DEF n, t
  <2>8. CASE i # 1 /\ i # l
    <3>1. x = Returns(m, Undefined)
      BY <2>1, <2>2, <2>8, OutOtherFamily
    <3> QED
      BY <2>4, <2>8, <3>1 DEF Returns
  <2> QED
    BY <2>6, <2>7, <2>8
<1> QED
  BY <1>4, <1>5

------------------------------------------------------------------------------
(* The globals.                                                             *)

(* ListsIn reads the lists that are in memory. *)
LEMMA HoldsLists ==
  ASSUME NEW m, NEW f, NEW r, NEW k, NEW w, Holds(m, f, r, k, w)
  PROVE  ListsIn(m) = [free |-> Range(f), ready |-> r, kids |-> k, waits |-> w]
<1>1. /\ f \in Seq(Pcb) /\ r \in Seq(Pcb) /\ k \in [Pcb -> Seq(Pcb)]
      /\ \A p \in Pcb : k[p] \in Seq(Pcb)
  BY HoldsFacts
<1>2. FreeBlocks(m) = Range(f)
  <2>1. ListFrom(m, "p_next", m[FreeHead]) = f
    BY <1>1, ListLen, LinkedList, BlocksCount, BlockAssumption DEF Holds, HFree
  <2> QED
    BY <2>1 DEF FreeBlocks, Range
<1>3. QueueAt(m, readyQ) = r
  BY <1>1, RingIsQueue DEF Holds, HReady
<1>4. \A p \in Pcb : KidsOf(m, p) = k[p]
  <2> TAKE p \in Pcb
  <2>1. IsInjective(k[p]) /\ Linked(m, "p_nextSib", child(p), k[p])
    BY DEF Holds, HKids, Family
  <2>2. Len(k[p]) <= N + 2
    BY <1>1, <2>1, ListLen, BlocksCount
  <2> QED
    BY <1>1, <2>1, <2>2, LinkedList, BlockAssumption DEF KidsOf
<1>5. [p \in Pcb |-> KidsOf(m, p)] = k
  BY <1>1, <1>4
<1>6. QueuesIn(m) = w
  BY DEF Holds, HWaits
<1> QED
  BY <1>2, <1>3, <1>5, <1>6 DEF ListsIn

\* A value of the globals, and one that stands for lists.
IsGlobals(k) ==
    /\ k = [mem |-> k.mem, current |-> k.current, sem |-> k.sem, count |-> k.count,
            soft |-> k.soft, missed |-> k.missed, mode |-> k.mode]
    /\ DOMAIN k.mem = AslLocations
    /\ k.sem \in [SemAdd -> Int]
    /\ k.count \in Int /\ k.soft \in Int
    /\ k.missed \in BOOLEAN /\ k.mode \in {"run", "wait"}

\* The globals k have missed nothing, and their memory holds f, r, d and w.
Plain(k, f, r, d, w) == IsGlobals(k) /\ ~ k.missed /\ Holds(k.mem, f, r, d, w)

\* The memory m holds the lists f, r, d and w, and so does the record a.
Shows(m, a, f, r, d, w) ==
    /\ Holds(m, f, r, d, w)
    /\ a = [free |-> Range(f), ready |-> r, kids |-> d, waits |-> w]

(* A handler that ends with the globals k leaves the lists k.mem holds. *)
LEMMA BecomeIs ==
  ASSUME NEW k, NEW f, NEW r, NEW d, NEW w, Holds(k.mem, f, r, d, w), Become(k)
  PROVE  /\ Shows(mem', lists', f, r, d, w)
         /\ lists'.free = Range(f) /\ lists'.ready = r /\ lists'.kids = d /\ lists'.waits = w
         /\ currentProcess' = k.current /\ sem' = k.sem /\ processCount' = k.count
         /\ softBlockCount' = k.soft /\ missed' = k.missed /\ mode' = k.mode
<1>1. mem' = k.mem /\ lists' = [free |-> Range(f), ready |-> r, kids |-> d, waits |-> w]
  BY HoldsLists DEF Become
<1>2. Holds(mem', f, r, d, w)
  BY <1>1
<1> QED
  BY <1>1, <1>2 DEF Become, Shows

(* What scheduler() leaves, whatever is in memory. *)
LEMMA SchedulerTypes ==
  ASSUME NEW k, IsGlobals(k), Scheduler(k)
  PROVE  /\ DOMAIN mem' = AslLocations /\ sem' \in [SemAdd -> Int]
         /\ processCount' = k.count /\ softBlockCount' = k.soft
         /\ processCount' \in Int /\ softBlockCount' \in Int
         /\ mode' \in {"run", "wait", "halt", "panic", "returned", "fault"}
         /\ missed' = k.missed /\ sem' = k.sem
<1> DEFINE x == removeProcQ(k.mem, readyQ)
<1>1. DOMAIN x.mem = AslLocations
  BY PcbDomains DEF IsGlobals
<1>2. CASE Faults(k.mem, readyQ)
  <2>1. Become([k EXCEPT !.mode = "fault"])
    BY <1>2 DEF Scheduler
  <2> QED
    BY <2>1 DEF Become, IsGlobals
<1>3. CASE ~ Faults(k.mem, readyQ)
  <2> DEFINE new == CASE x.ptr # NULL -> "run"
                      [] x.ptr = NULL /\ k.count = 0 -> "halt"
                      [] x.ptr = NULL /\ k.count > 0 /\ k.soft > 0 -> "wait"
                      [] x.ptr = NULL /\ k.count > 0 /\ k.soft = 0 -> "panic"
                      [] OTHER -> "returned"
  <2>1. Become([k EXCEPT !.mem = x.mem, !.current = x.ptr, !.mode = new])
    BY <1>3 DEF Scheduler
  <2>2. new \in {"run", "wait", "halt", "panic", "returned"}
    BY DEF IsGlobals
  <2> HIDE DEF new, x
  <2>3. /\ mem' = x.mem /\ sem' = k.sem /\ processCount' = k.count /\ softBlockCount' = k.soft
        /\ missed' = k.missed /\ mode' = new
    BY <2>1 DEF Become, IsGlobals
  <2> QED
    BY <1>1, <2>2, <2>3 DEF IsGlobals, x
<1> QED
  BY <1>2, <1>3

------------------------------------------------------------------------------
(* Blocking and waking.                                                     *)

(* A block waits on one semaphore, and is then neither free nor ready. *)
LEMMA WaitsOnce ==
  ASSUME NEW m, NEW f, NEW r, NEW k, NEW w, Holds(m, f, r, k, w),
         NEW s \in SemAdd, NEW p \in Range(w[s])
  PROVE  /\ p \in Pcb /\ m[p_semAdd(p)] = s /\ \A t \in SemAdd : p \in Range(w[t]) => t = s
         /\ p \notin Range(f) /\ p \notin Range(r)
<1>1. w = QueuesIn(m)
  BY DEF Holds, HWaits
<1>2. PICK a, u, Q : Good(m, a, u, Q)
  BY DEF Holds, HWaits, Kept
<1>3. p \in Pcb /\ p \in Waiting(w)
  BY HoldsFacts
<1>4. \A t \in SemAdd : m[p_semAdd(p)] = t <=> p \in Range(w[t])
  BY <1>1, <1>2, <1>3, MarksAre
<1>5. m[p_semAdd(p)] = s
  BY <1>4
<1>6. \A t \in SemAdd : p \in Range(w[t]) => t = s
  BY <1>4, <1>5
<1> QED
  BY <1>3, <1>5, <1>6 DEF Holds, Apart

(* A block that does not wait is not marked. *)
LEMMA NotMarked ==
  ASSUME NEW m, NEW f, NEW r, NEW k, NEW w, Holds(m, f, r, k, w),
         NEW p \in Pcb, p \notin Waiting(w)
  PROVE  m[p_semAdd(p)] = NULL
<1>1. w = QueuesIn(m)
  BY DEF Holds, HWaits
<1>2. PICK a, u, Q : Good(m, a, u, Q)
  BY DEF Holds, HWaits, Kept
<1>3. \A t \in SemAdd : p \notin Range(w[t])
  BY HoldsFacts
<1>4. /\ \A t \in SemAdd : m[p_semAdd(p)] = t <=> p \in Range(w[t])
      /\ m[p_semAdd(p)] \in SemAdd \cup {NULL}
  BY <1>1, <1>2, MarksAre
<1> QED
  BY <1>3, <1>4

(* The first waiter of a semaphore is on no list when it is removed. *)
LEMMA WokenLoose ==
  ASSUME NEW m, NEW f, NEW r, NEW k, NEW w, Holds(m, f, r, k, w),
         NEW s \in SemAdd, w[s] # <<>>
  PROVE  Head(w[s]) \in Pcb /\ Loose(f, r, [w EXCEPT ![s] = Tail(@)], {Head(w[s])})
<1> DEFINE p == Head(w[s])  v == [w EXCEPT ![s] = Tail(@)]
<1>1. /\ w \in [SemAdd -> Seq(Pcb)] /\ w[s] \in Seq(Pcb) /\ IsInjective(w[s])
  BY HoldsFacts
<1>2. p \in Range(w[s]) /\ p \in Pcb /\ Range(Tail(w[s])) = Range(w[s]) \ {p}
  BY <1>1, RangeTail
<1>3. \A t \in SemAdd : p \in Range(w[t]) => t = s
  BY <1>2, WaitsOnce
<1>4. p \notin Range(f) /\ p \notin Range(r)
  BY <1>2, WaitsOnce
<1>5. \A t \in SemAdd : p \notin Range(v[t])
  <2> TAKE t \in SemAdd
  <2>1. v[t] = IF t = s THEN Tail(w[s]) ELSE w[t]
    BY <1>1
  <2> QED
    BY <1>2, <1>3, <2>1
<1> HIDE DEF p, v
<1>6. p \notin Waiting(v)
  BY <1>5 DEF Waiting
<1> QED
  BY <1>2, <1>4, <1>6 DEF Loose, p, v

(* While fewer semaphores are active than there are blocks, each has a
   descriptor or finds one that is free. *)
LEMMA DescriptorLeft ==
  ASSUME NEW w, Cardinality(Active(w)) < Cardinality(Pcb), NEW s \in SemAdd
  PROVE  s \in Active(w) \/ Cardinality(Active(w)) < Cardinality(SemdPool)
<1>1. CASE Cardinality(SemdPool) = Cardinality(Pcb)
  BY <1>1
<1>2. CASE Cardinality(SemdPool) >= Cardinality(SemAdd) /\ s \notin Active(w)
  <2>1. IsFiniteSet(SemAdd)
    <3>1. SemAdd \subseteq 1 .. MAXINT - 1 /\ 1 \in Int /\ MAXINT - 1 \in Int
      BY AddressAssumption
    <3>2. IsFiniteSet(1 .. MAXINT - 1)
      BY <3>1, FS_Interval
    <3> QED
      BY <3>1, <3>2, FS_Subset
  <2>2. Active(w) \in SUBSET (SemAdd \ {s}) /\ IsFiniteSet(SemAdd \ {s})
    BY <1>2, <2>1, FS_Subset DEF Active
  <2>3. Cardinality(SemAdd \ {s}) = Cardinality(SemAdd) - 1
    BY <2>1, FS_RemoveElement
  <2>4. Cardinality(Active(w)) <= Cardinality(SemAdd \ {s})
    BY <2>2, FS_Subset
  <2>5. Cardinality(SemAdd) \in Nat /\ Cardinality(SemdPool) \in Nat /\ Cardinality(Active(w)) \in Nat
    BY <2>1, <2>2, FS_Subset, FS_CardinalityType, DescriptorAssumption
  <2> QED
    BY <1>2, <2>3, <2>4, <2>5
<1> QED
  BY <1>1, <1>2, TableAssumption

(* Block(k, s) makes the running process wait on s. *)
LEMMA BlockIs ==
  ASSUME NEW k, NEW f, NEW r, NEW d, NEW w, Plain(k, f, r, d, w), NEW s \in SemAdd,
         k.current \in Pcb, Loose(f, r, w, {k.current}),
         Cardinality(Active(w)) < Cardinality(Pcb)
  PROVE  /\ Plain(Block(k, s), f, r, d, [w EXCEPT ![s] = Append(@, k.current)])
         /\ Block(k, s).soft = (IF s \in semd THEN k.soft + 1 ELSE k.soft)
         /\ Block(k, s).count = k.count /\ Block(k, s).sem = k.sem
<1> DEFINE n == insertBlocked(k.mem, s, k.current).mem
           v == [w EXCEPT ![s] = Append(@, k.current)]
           new == IF s \in semd THEN k.soft + 1 ELSE k.soft
<1>1. Holds(n, f, r, d, v)
  BY DescriptorLeft, InsertWait DEF Plain
<1>2. DOMAIN n = AslLocations
  BY <1>1, HoldsFacts
<1>3. Block(k, s) = [k EXCEPT !.mem = n, !.soft = new]
  BY DEF Block, Plain, IsGlobals
<1>4. new \in Int
  BY DEF Plain, IsGlobals
<1> HIDE DEF n, v, new
<1> QED
  BY <1>1, <1>2, <1>3, <1>4 DEF Plain, IsGlobals, v, new

(* Wake(k, s) makes the first waiter of s ready if the semaphore says so. *)
LEMMA WakeIs ==
  ASSUME NEW k, NEW f, NEW r, NEW d, NEW w, Plain(k, f, r, d, w), NEW s \in SemAdd
  PROVE  /\ k.sem[s] <= 0 /\ w[s] # <<>> =>
              /\ Plain(Wake(k, s), f, Append(r, Head(w[s])), d, [w EXCEPT ![s] = Tail(@)])
              /\ Wake(k, s).soft = (IF s \in semd THEN k.soft - 1 ELSE k.soft)
         /\ ~ (k.sem[s] <= 0 /\ w[s] # <<>>) => Wake(k, s) = k
         /\ Wake(k, s).count = k.count /\ Wake(k, s).sem = k.sem
         /\ Wake(k, s).current = k.current /\ Wake(k, s).mode = k.mode
<1> DEFINE x == removeBlocked(k.mem, s)  p == Head(w[s])  v == [w EXCEPT ![s] = Tail(@)]
           n == insertProcQ(x.mem, readyQ, x.ptr)
           new == IF s \in semd THEN k.soft - 1 ELSE k.soft
<1>1. CASE k.sem[s] <= 0 /\ w[s] # <<>>
  <2>1. x.ptr = p /\ Holds(x.mem, f, r, d, v)
    BY <1>1, RemoveWait DEF Plain
  <2>2. p \in Pcb /\ Loose(f, r, v, {p})
    BY <1>1, WokenLoose DEF Plain
  <2>3. p # NULL
    BY <2>2, BlockAssumption
  <2> HIDE DEF x, p, v
  <2>4. Holds(n, f, Append(r, p), d, v)
    BY <2>1, <2>2, InsertReady
  <2>5. DOMAIN n = AslLocations
    BY <2>4, HoldsFacts
  <2>6. Wake(k, s) = [k EXCEPT !.mem = n, !.soft = new]
    BY <1>1, <2>1, <2>3 DEF Wake, x
  <2>7. new \in Int
    BY DEF Plain, IsGlobals
  <2> HIDE DEF n, new
  <2>8. Plain(Wake(k, s), f, Append(r, p), d, v)
    BY <2>4, <2>5, <2>6, <2>7 DEF Plain, IsGlobals
  <2>9. /\ Wake(k, s).soft = new
        /\ Wake(k, s).count = k.count /\ Wake(k, s).sem = k.sem
        /\ Wake(k, s).current = k.current /\ Wake(k, s).mode = k.mode
    BY <2>6 DEF Plain, IsGlobals
  <2> QED
    BY <1>1, <2>8, <2>9 DEF new, p, v
<1>2. CASE ~ (k.sem[s] <= 0 /\ w[s] # <<>>)
  <2>1. w[s] = <<>> => x.ptr = NULL
    <3>1. Holds(k.mem, f, r, d, w)
      BY DEF Plain
    <3>2. /\ w[s] = <<>> => x.ptr = NULL
          /\ w[s] # <<>> => x.ptr = Head(w[s]) /\ Holds(x.mem, f, r, d, [w EXCEPT ![s] = Tail(@)])
      BY <3>1, RemoveWait
    <3> QED
      BY <3>2
  <2>2. Wake(k, s) = k
    BY <1>2, <2>1 DEF Wake
  <2> QED
    BY <1>2, <2>2
<1> QED
  BY <1>1, <1>2

------------------------------------------------------------------------------
(* The nucleus on lists.                                                    *)

\* The nucleus on lists, with what is proved of it.
NP == INSTANCE NucleusProofs WITH
    TrapTypes <- {},
    free <- lists.free,
    readyQ <- lists.ready,
    kids <- lists.kids,
    semQ <- lists.waits,
    traps <- [p \in Pcb |-> {}],
    mode <- IF mode \in Loops THEN work.mode ELSE mode

(* The assumptions of the nucleus are those of this module. *)
LEMMA NPAssumptions == NP!PcbAssumption /\ NP!SemAssumption /\ NP!BoundAssumption
<1>1. \A S : NP!IsFiniteSet(S) <=> IsFiniteSet(S)
  BY DEF NP!IsFiniteSet, IsFiniteSet
<1> QED
  BY <1>1, BlockAssumption, NucleusAssumption DEF NP!PcbAssumption, NP!SemAssumption, NP!BoundAssumption, NP!Semd

(* The operators of the nucleus are those of this module. *)
LEMMA NPOperators ==
  /\ \A S : NP!Cardinality(S) = Cardinality(S)
  /\ \A q : NP!Range(q) = Range(q) /\ (NP!IsInjective(q) <=> IsInjective(q))
  /\ \A q, K : NP!Without(q, K) = Without(q, K)
  /\ \A k, K : NP!ChildClosed(k, K) <=> ChildClosed(k, K)
  /\ \A k, p : NP!Descendants(k, p) = Descendants(k, p)
  /\ \A k, p : NP!IsMiddleChild(k, p) <=> IsMiddleChild(k, p)
<1>1. \A S : NP!Cardinality(S) = Cardinality(S)
  BY DEF NP!Cardinality, Cardinality
<1>2. \A q : NP!Range(q) = Range(q)
  BY DEF NP!Range, Range
<1>3. \A q : NP!IsInjective(q) <=> IsInjective(q)
  BY DEF NP!IsInjective, IsInjective
<1>4. \A q, K : NP!Without(q, K) = Without(q, K)
  BY <1>1, <1>2 DEF NP!Without, Without
<1>5. \A k, K : NP!ChildClosed(k, K) <=> ChildClosed(k, K)
  BY <1>2 DEF NP!ChildClosed, ChildClosed
<1>6. \A k, p : NP!Descendants(k, p) = Descendants(k, p)
  BY <1>5 DEF NP!Descendants, Descendants
<1>7. \A k, p : NP!IsMiddleChild(k, p) <=> IsMiddleChild(k, p)
  BY DEF NP!IsMiddleChild, IsMiddleChild
<1> QED
  BY <1>1, <1>2, <1>3, <1>4, <1>5, <1>6, <1>7

\* The mode, of the handler that loops if one does.
CurrentMode == IF mode \in Loops THEN work.mode ELSE mode

(* What the invariant of the nucleus says. *)
LEMMA StateIs ==
  ASSUME NP!IInv
  PROVE  /\ lists.free \in SUBSET Pcb /\ lists.ready \in Seq(Pcb) /\ IsInjective(lists.ready)
         /\ lists.kids \in [Pcb -> Seq(Pcb)] /\ lists.waits \in [SemAdd -> Seq(Pcb)]
         /\ sem \in [SemAdd -> Int] /\ processCount \in Nat /\ softBlockCount \in Nat
         /\ currentProcess \in Pcb \cup {NULL}
         /\ CurrentMode \in {"run", "broken"} => currentProcess \in Pcb
         /\ CurrentMode \in {"wait", "halt", "panic"} => currentProcess = NULL
         /\ CurrentMode # "returned"
         /\ currentProcess \in Pcb =>
               /\ currentProcess \notin lists.free /\ RootPcb \notin lists.free
               /\ currentProcess \notin Range(lists.ready)
               /\ currentProcess \notin Waiting(lists.waits)
               /\ \A p \in Pcb : Range(lists.kids[p]) \cap lists.free = {}
               /\ \A p \in lists.free : lists.kids[p] = <<>>
               /\ Cardinality(Active(lists.waits)) < Cardinality(Pcb)
<1>1. NP!Sem = SemAdd
  BY NucleusAssumption DEF NP!Sem, NP!Semd
<1>2. /\ lists.free \in SUBSET Pcb /\ lists.ready \in Seq(Pcb) /\ IsInjective(lists.ready)
      /\ lists.kids \in [Pcb -> Seq(Pcb)] /\ lists.waits \in [SemAdd -> Seq(Pcb)]
      /\ sem \in [SemAdd -> Int] /\ currentProcess \in Pcb \cup {NULL}
  BY <1>1, NPOperators DEF NP!IInv, NP!TypeOK, NP!NoProcessLost
<1>3. processCount \in Nat /\ softBlockCount \in Nat
  BY NP!StateFacts, NPAssumptions
<1>4. /\ CurrentMode \in {"run", "broken"} => currentProcess \in Pcb
      /\ CurrentMode \in {"wait", "halt", "panic"} => currentProcess = NULL
      /\ CurrentMode # "returned"
  BY DEF NP!IInv, NP!ModeAgrees, NP!VerdictIsRight, CurrentMode
<1>5. ASSUME currentProcess \in Pcb
      PROVE  /\ currentProcess \notin lists.free /\ RootPcb \notin lists.free
             /\ \A p \in Pcb : Range(lists.kids[p]) \cap lists.free = {}
             /\ \A p \in lists.free : lists.kids[p] = <<>>
             /\ currentProcess \notin Range(lists.ready)
             /\ currentProcess \notin Waiting(lists.waits)
             /\ Cardinality(Active(lists.waits)) < Cardinality(Pcb)
  <2>1. NP!TypeOK /\ NP!NoProcessLost /\ NP!OneTree
    BY DEF NP!IInv
  <2>2. /\ currentProcess \in NP!Live /\ RootPcb \in NP!Live
        /\ \A p \in Pcb : NP!Range(lists.kids[p]) \subseteq NP!Live
    BY <1>5, <2>1, NP!LiveTree, NPAssumptions
  <2>3. /\ currentProcess \notin lists.free /\ RootPcb \notin lists.free
        /\ \A p \in Pcb : Range(lists.kids[p]) \cap lists.free = {}
    BY <2>2, NPOperators DEF NP!Live
  <2>4. \A p \in lists.free : lists.kids[p] = <<>>
    BY <2>1 DEF NP!OneTree
  <2>5. currentProcess \notin Range(lists.ready) /\ currentProcess \notin Waiting(lists.waits)
    BY <1>1, <2>1, NPOperators DEF NP!NoProcessLost, NP!Blocked, Waiting
  <2>6. NP!ActiveSemd = Active(lists.waits)
    BY <1>1 DEF NP!ActiveSemd, Active
  <2>7. NP!Cardinality(NP!ActiveSemd) < NP!Cardinality(Pcb)
    BY <1>1, <1>2, <1>5, <2>1, NP!DescriptorsSuffice, NPAssumptions
  <2>8. Cardinality(Active(lists.waits)) < Cardinality(Pcb)
    BY <2>6, <2>7, NPOperators
  <2> QED
    BY <2>3, <2>4, <2>5, <2>8
<1> QED
  BY <1>2, <1>3, <1>4, <1>5

(* scheduler() runs the head of the ready queue in memory. *)
LEMMA SchedulerIs ==
  ASSUME NEW k, NEW f, NEW r, NEW d, NEW w, Plain(k, f, r, d, w), Scheduler(k)
  PROVE  /\ NP!Scheduler(r, k.count, k.soft)
         /\ \E t : Shows(mem', lists', f, t, d, w) /\ lists'.ready = t
         /\ lists'.free = Range(f) /\ lists'.kids = d /\ lists'.waits = w
         /\ sem' = k.sem /\ missed' = FALSE
         /\ mode' \in {"run", "wait", "halt", "panic", "returned"}
<1> DEFINE x == removeProcQ(k.mem, readyQ)
           new == CASE x.ptr # NULL -> "run"
                    [] x.ptr = NULL /\ k.count = 0 -> "halt"
                    [] x.ptr = NULL /\ k.count > 0 /\ k.soft > 0 -> "wait"
                    [] x.ptr = NULL /\ k.count > 0 /\ k.soft = 0 -> "panic"
                    [] OTHER -> "returned"
           b == [k EXCEPT !.mem = x.mem, !.current = x.ptr, !.mode = new]
<1>1. /\ ~ Faults(k.mem, readyQ)
      /\ r = <<>> => x.ptr = NULL /\ Holds(x.mem, f, r, d, w)
      /\ r # <<>> => x.ptr = Head(r) /\ Holds(x.mem, f, Tail(r), d, w)
  BY RemoveReady DEF Plain
<1>2. Become(b)
  BY <1>1 DEF Scheduler
<1>3. r \in Seq(Pcb)
  BY HoldsFacts DEF Plain
<1> HIDE DEF x, new
<1>4. /\ b.mem = x.mem /\ b.current = x.ptr /\ b.mode = new /\ b.sem = k.sem
      /\ b.count = k.count /\ b.soft = k.soft /\ b.missed = FALSE
  BY DEF Plain, IsGlobals
<1>5. PICK t : Holds(b.mem, f, t, d, w) /\ t = (IF r = <<>> THEN r ELSE Tail(r))
  BY <1>1, <1>4
<1> HIDE DEF b
<1>6. /\ Shows(mem', lists', f, t, d, w)
      /\ lists'.free = Range(f) /\ lists'.ready = t /\ lists'.kids = d /\ lists'.waits = w
      /\ currentProcess' = x.ptr /\ sem' = k.sem /\ processCount' = k.count
      /\ softBlockCount' = k.soft /\ missed' = FALSE /\ mode' = new
  <2>1. Holds(b.mem, f, t, d, w)
    BY <1>5
  <2>2. /\ Shows(mem', lists', f, t, d, w)
        /\ lists'.free = Range(f) /\ lists'.ready = t /\ lists'.kids = d /\ lists'.waits = w
        /\ currentProcess' = b.current /\ sem' = b.sem /\ processCount' = b.count
        /\ softBlockCount' = b.soft /\ missed' = b.missed /\ mode' = b.mode
    BY <1>2, <2>1, BecomeIs
  <2> QED
    BY <1>4, <2>2
<1>7. new \in {"run", "wait", "halt", "panic", "returned"}
  BY DEF new
<1>8. (IF mode \in Loops THEN work.mode ELSE mode)' = new
  BY <1>6, <1>7 DEF Loops
<1>9. CASE r # <<>>
  <2>1. x.ptr = Head(r) /\ Head(r) \in Pcb /\ NULL \notin Pcb
    BY <1>1, <1>3, <1>9, BlockAssumption
  <2>2. new = "run"
    BY <2>1 DEF new
  <2> QED
    BY <1>5, <1>6, <1>7, <1>8, <1>9, <2>1, <2>2 DEF NP!Scheduler
<1>10. CASE r = <<>>
  <2>1. x.ptr = NULL
    BY <1>1, <1>10
  <2>2. new = CASE k.count = 0 -> "halt"
                [] k.count > 0 /\ k.soft > 0 -> "wait"
                [] k.count > 0 /\ k.soft = 0 -> "panic"
                [] OTHER -> "returned"
    BY <2>1 DEF new
  <2> QED
    BY <1>5, <1>6, <1>7, <1>8, <1>10, <2>1, <2>2 DEF NP!Scheduler
<1> QED
  BY <1>9, <1>10

(* done() puts the interrupted process at the end of the ready queue in memory. *)
LEMMA DoneIs ==
  ASSUME NEW k, NEW f, NEW r, NEW d, NEW w, Plain(k, f, r, d, w), Done(k),
         k.current = currentProcess, currentProcess \in Pcb \cup {NULL},
         k.count = processCount,
         currentProcess \in Pcb => Loose(f, r, w, {currentProcess})
  PROVE  /\ NP!Done(r, k.soft)
         /\ \E t : Shows(mem', lists', f, t, d, w) /\ lists'.ready = t
         /\ lists'.free = Range(f) /\ lists'.kids = d /\ lists'.waits = w
         /\ sem' = k.sem /\ missed' = FALSE
         /\ mode' \in {"run", "wait", "halt", "panic", "returned"}
<1>1. CASE currentProcess = NULL
  <2>1. Scheduler(k)
    BY <1>1 DEF Done
  <2> QED
    BY <1>1, <2>1, SchedulerIs DEF NP!Done
<1>2. CASE currentProcess \in Pcb
  <2> DEFINE b == [k EXCEPT !.mem = insertProcQ(k.mem, readyQ, currentProcess)]
             q == Append(r, currentProcess)
  <2>1. currentProcess # NULL
    BY <1>2, BlockAssumption
  <2>2. Scheduler(b)
    BY <2>1 DEF Done
  <2>3. Holds(insertProcQ(k.mem, readyQ, currentProcess), f, q, d, w)
    BY <1>2, InsertReady DEF Plain
  <2>4. DOMAIN insertProcQ(k.mem, readyQ, currentProcess) = DOMAIN k.mem
    BY PcbDomains
  <2>5. Plain(b, f, q, d, w) /\ b.count = k.count /\ b.soft = k.soft /\ b.sem = k.sem
    BY <2>3, <2>4 DEF Plain, IsGlobals
  <2> HIDE DEF b
  <2> QED
    BY <2>1, <2>2, <2>5, SchedulerIs DEF NP!Done
<1> QED
  BY <1>1, <1>2

------------------------------------------------------------------------------
(* The handlers without a loop.                                             *)

\* What is in memory are the lists the invariant of the nucleus speaks of.
Agrees(m, a) == \E f, r, d, w : Shows(m, a, f, r, d, w)

(* The state between two handlers. *)
LEMMA HereIs ==
  ASSUME NP!IInv, Agrees(mem, lists), missed = FALSE, mode \in {"run", "wait"}
  PROVE  /\ \E f : Plain(Globals, f, lists.ready, lists.kids, lists.waits) /\ Range(f) = lists.free
         /\ Globals.current = currentProcess /\ Globals.count = processCount
         /\ Globals.sem = sem /\ Globals.soft = softBlockCount /\ Globals.mode = mode
         /\ CurrentMode = mode
<1>1. PICK f, r, d, w : Shows(mem, lists, f, r, d, w)
  BY DEF Agrees
<1>2. DOMAIN mem = AslLocations
  BY <1>1, HoldsFacts DEF Shows
<1>3. sem \in [SemAdd -> Int] /\ processCount \in Int /\ softBlockCount \in Int
  BY StateIs
<1>4. lists.free = Range(f) /\ lists.ready = r /\ lists.kids = d /\ lists.waits = w
  BY <1>1 DEF Shows
<1>5. Plain(Globals, f, r, d, w)
  BY <1>1, <1>2, <1>3 DEF Plain, IsGlobals, Globals, Shows
<1> QED
  BY <1>4, <1>5 DEF Globals, CurrentMode, Loops

\* A handler is done that has missed nothing.
Fine ==
    /\ [NP!Next]_(NP!vars)
    /\ Agrees(mem', lists')
    /\ missed' = FALSE
    /\ mode' \in {"run", "wait", "halt", "panic", "returned"}

(* SYS1 in memory is SYS1 of Nucleus, or its failure when no block is free. *)
LEMMA SysCall1Is ==
  ASSUME NP!IInv, Agrees(mem, lists), missed = FALSE, SysCall1
  PROVE  Fine
<1>1. mode = "run" /\ CurrentMode = "run"
  BY DEF SysCall1, CurrentMode, Loops
<1>2. PICK f : Plain(Globals, f, lists.ready, lists.kids, lists.waits) /\ Range(f) = lists.free
  BY <1>1, HereIs
<1> DEFINE r == lists.ready  d == lists.kids  w == lists.waits  c == currentProcess
<1>3. /\ Globals.current = c /\ Globals.count = processCount
      /\ Globals.sem = sem /\ Globals.soft = softBlockCount /\ Globals.mode = mode
      /\ Globals.mem = mem /\ Globals.missed = FALSE
  BY <1>1, <1>2 DEF Globals, Plain
<1>4. /\ c \in Pcb /\ RootPcb \notin Range(f)
      /\ \A p \in Pcb : Range(d[p]) \cap Range(f) = {}
      /\ \A p \in Range(f) : d[p] = <<>>
      /\ c \notin Range(f) /\ d \in [Pcb -> Seq(Pcb)]
  BY <1>1, <1>2, StateIs
<1>5. Holds(mem, f, r, d, w) /\ f \in Seq(Pcb)
  BY <1>2, <1>3, HoldsFacts DEF Plain
<1> DEFINE x == allocPcb(mem)  h == Head(f)
<1>6. x.ptr = NULL <=> f = <<>>
  BY <1>5, AllocFails
<1>7. CASE f = <<>>
  <2>1. Become(Globals) /\ busy' = busy
    BY <1>6, <1>7 DEF SysCall1
  <2>2. /\ Shows(mem', lists', f, r, d, w)
        /\ lists'.free = Range(f) /\ lists'.ready = r /\ lists'.kids = d /\ lists'.waits = w
        /\ currentProcess' = c /\ sem' = sem /\ processCount' = processCount
        /\ softBlockCount' = softBlockCount /\ missed' = FALSE /\ mode' = "run"
    BY <1>1, <1>3, <1>5, <2>1, BecomeIs
  <2>3. NP!vars' = NP!vars
    BY <1>1, <1>2, <2>1, <2>2 DEF NP!vars, Loops
  <2> QED
    BY <2>2, <2>3 DEF Fine, Agrees
<1>8. CASE f # <<>>
  <2>1. h \in Range(f) /\ h \in Pcb /\ Range(Tail(f)) = Range(f) \ {h}
    BY <1>5, <1>8, RangeTail DEF Holds, HFree
  <2>2. /\ \A p \in Pcb : h \notin Range(d[p])
        /\ d[h] = <<>> /\ h # RootPcb /\ h # c
    BY <1>4, <2>1
  <2>3. /\ x.ptr = h /\ Holds(x.mem, Tail(f), r, d, w)
        /\ x.mem[nextSib(h)] = NULL /\ x.mem[prevSib(h)] = NULL
    BY <1>5, <1>8, <2>2, AllocOp
  <2> DEFINE n == insertChild(x.mem, c, h)  e == [d EXCEPT ![c] = <<h>> \o @]
             k == [Globals EXCEPT !.count = @ + 1, !.mem = insertProcQ(n, readyQ, h)]
  <2>4. Holds(n, Tail(f), r, e, w)
    BY <1>4, <2>1, <2>2, <2>3, InsertKid
  <2>5. Loose(Tail(f), r, w, {h})
    BY <1>5, <2>1 DEF Loose, Holds, Apart
  <2>6. Holds(insertProcQ(n, readyQ, h), Tail(f), Append(r, h), e, w)
    BY <2>1, <2>4, <2>5, InsertReady
  <2>7. Become(k) /\ busy' = busy
    BY <1>3, <1>6, <1>8, <2>3 DEF SysCall1
  <2>8. /\ k.mem = insertProcQ(n, readyQ, h) /\ k.current = c /\ k.sem = sem
        /\ k.count = processCount + 1 /\ k.soft = softBlockCount /\ k.mode = "run"
        /\ k.missed = FALSE
    BY <1>1, <1>3 DEF Globals
  <2> HIDE DEF k, n, e
  <2>9. Holds(k.mem, Tail(f), Append(r, h), e, w)
    BY <2>6, <2>8
  <2>10. /\ Shows(mem', lists', Tail(f), Append(r, h), e, w)
         /\ lists'.free = Range(Tail(f)) /\ lists'.ready = Append(r, h) /\ lists'.kids = e
         /\ lists'.waits = w
         /\ currentProcess' = k.current /\ sem' = k.sem /\ processCount' = k.count
         /\ softBlockCount' = k.soft /\ missed' = k.missed /\ mode' = k.mode
    BY <2>7, <2>9, BecomeIs
  <2>11. e = [d EXCEPT ![c] = <<h>> \o @, ![h] = <<>>]
    BY <1>4, <2>1, <2>2 DEF e
  <2>12. NP!SysCall1
    <3>1. lists'.free = lists.free \ {h} /\ h \in lists.free
      BY <1>2, <2>1, <2>10
    <3>2. [p \in Pcb |-> {}] = [[p \in Pcb |-> {}] EXCEPT ![h] = {}]
      OBVIOUS
    <3>3. (IF mode \in Loops THEN work.mode ELSE mode)' = "run"
      BY <2>8, <2>10 DEF Loops
    <3>4. (IF mode \in Loops THEN work.mode ELSE mode) = "run"
      BY <1>1 DEF Loops
    <3> QED
      BY <2>7, <2>8, <2>10, <2>11, <3>1, <3>2, <3>3, <3>4 DEF NP!SysCall1, NP!Resume
  <2>13. NP!Next
    BY <2>12 DEF NP!Next
  <2> QED
    BY <2>8, <2>10, <2>13 DEF Fine, Agrees
<1> QED
  BY <1>7, <1>8

(* SYS3 in memory is SYS3 of Nucleus. *)
LEMMA SysCall3Is ==
  ASSUME NP!IInv, Agrees(mem, lists), missed = FALSE, NEW s \in Mutex, SysCall3(s)
  PROVE  Fine
<1>1. mode = "run" /\ CurrentMode = "run" /\ s \in SemAdd /\ s \notin semd
  BY NucleusAssumption DEF SysCall3, CurrentMode, Loops, semd
<1>2. PICK f : Plain(Globals, f, lists.ready, lists.kids, lists.waits) /\ Range(f) = lists.free
  BY <1>1, HereIs
<1> DEFINE r == lists.ready  d == lists.kids  w == lists.waits  c == currentProcess
           k == [Globals EXCEPT !.sem[s] = @ + 1]  b == Wake(k, s)
<1>3. /\ Become(b) /\ busy' = busy /\ sem[s] < MaxSem
  BY DEF SysCall3
<1>4. Plain(k, f, r, d, w)
  BY <1>1, <1>2 DEF Plain, IsGlobals
<1>5. /\ k.sem = [sem EXCEPT ![s] = @ + 1] /\ k.current = c /\ k.count = processCount
      /\ k.soft = softBlockCount /\ k.mode = "run" /\ k.missed = FALSE
  BY <1>1, <1>2 DEF Globals, Plain
<1> HIDE DEF k, b
<1>6. /\ k.sem[s] <= 0 /\ w[s] # <<>> =>
            /\ Plain(b, f, Append(r, Head(w[s])), d, [w EXCEPT ![s] = Tail(@)])
            /\ b.soft = k.soft
      /\ ~ (k.sem[s] <= 0 /\ w[s] # <<>>) => b = k
      /\ b.count = k.count /\ b.sem = k.sem /\ b.current = k.current /\ b.mode = k.mode
  BY <1>1, <1>4, WakeIs DEF b
<1>7. (IF mode \in Loops THEN work.mode ELSE mode) = "run"
  BY <1>1 DEF Loops
<1>8. CASE k.sem[s] <= 0 /\ w[s] # <<>>
  <2> DEFINE q == Append(r, Head(w[s]))  v == [w EXCEPT ![s] = Tail(@)]
  <2>1. Plain(b, f, q, d, v) /\ b.soft = k.soft
    BY <1>6, <1>8
  <2> HIDE DEF q, v
  <2>2. Holds(b.mem, f, q, d, v) /\ b.missed = FALSE
    BY <2>1 DEF Plain, IsGlobals
  <2>3. /\ Shows(mem', lists', f, q, d, v)
        /\ lists'.free = Range(f) /\ lists'.ready = q /\ lists'.kids = d /\ lists'.waits = v
        /\ currentProcess' = b.current /\ sem' = b.sem /\ processCount' = b.count
        /\ softBlockCount' = b.soft /\ missed' = b.missed /\ mode' = b.mode
    BY <1>3, <2>2, BecomeIs
  <2>4. (IF mode \in Loops THEN work.mode ELSE mode)' = "run"
    BY <1>5, <1>6, <2>3 DEF Loops
  <2>5. NP!SysCall3(s)
    BY <1>2, <1>3, <1>5, <1>6, <1>7, <1>8, <2>1, <2>3, <2>4 DEF NP!SysCall3, NP!Resume, q, v
  <2>6. NP!Next
    BY <2>5 DEF NP!Next
  <2> QED
    BY <1>5, <1>6, <2>2, <2>3, <2>6 DEF Fine, Agrees
<1>9. CASE ~ (k.sem[s] <= 0 /\ w[s] # <<>>)
  <2>1. Become(k)
    BY <1>3, <1>6, <1>9
  <2>2. Holds(k.mem, f, r, d, w)
    BY <1>4 DEF Plain
  <2>3. /\ Shows(mem', lists', f, r, d, w)
        /\ lists'.free = Range(f) /\ lists'.ready = r /\ lists'.kids = d /\ lists'.waits = w
        /\ currentProcess' = k.current /\ sem' = k.sem /\ processCount' = k.count
        /\ softBlockCount' = k.soft /\ missed' = k.missed /\ mode' = k.mode
    BY <2>1, <2>2, BecomeIs
  <2>4. (IF mode \in Loops THEN work.mode ELSE mode)' = "run"
    BY <1>5, <2>3 DEF Loops
  <2>5. k.sem[s] \in Int
    BY <1>1, <1>4 DEF Plain, IsGlobals
  <2>6. NP!SysCall3(s)
    BY <1>2, <1>3, <1>5, <1>7, <1>9, <2>3, <2>4, <2>5 DEF NP!SysCall3, NP!Resume
  <2>7. NP!Next
    BY <2>6 DEF NP!Next
  <2> QED
    BY <1>5, <2>3, <2>7 DEF Fine, Agrees
<1> QED
  BY <1>8, <1>9

(* Nucleus says so too: while a process runs insertBlocked does not fail. *)
LEMMA DescriptorIs ==
  ASSUME NP!IInv, currentProcess \in Pcb
  PROVE  \A s : NP!DescriptorFor(s)
<1>1. NP!Sem = SemAdd
  BY NucleusAssumption DEF NP!Sem, NP!Semd
<1>2. NP!ActiveSemd = Active(lists.waits)
  BY <1>1 DEF NP!ActiveSemd, Active
<1> QED
  BY <1>2, StateIs, NPOperators DEF NP!DescriptorFor

(* A P of the running process on any semaphore. *)
LEMMA PasserenIs ==
  ASSUME NP!IInv, Agrees(mem, lists), missed = FALSE, NEW s \in SemAdd, Passeren(s)
  PROVE  /\ busy' = busy /\ sem' = [sem EXCEPT ![s] = @ - 1]
         /\ lists'.free = lists.free /\ lists'.kids = lists.kids
         /\ \/ /\ sem'[s] < 0
               /\ NP!InsertBlocked(s)
               /\ NP!Scheduler(lists.ready, processCount,
                               IF s \in semd THEN softBlockCount + 1 ELSE softBlockCount)
            \/ /\ sem'[s] >= 0
               /\ NP!Resume
               /\ lists' = lists /\ UNCHANGED <<processCount, softBlockCount>>
         /\ Agrees(mem', lists') /\ missed' = FALSE
         /\ mode' \in {"run", "wait", "halt", "panic", "returned"}
<1>1. mode = "run" /\ CurrentMode = "run"
  BY DEF Passeren, CurrentMode, Loops
<1>2. PICK f : Plain(Globals, f, lists.ready, lists.kids, lists.waits) /\ Range(f) = lists.free
  BY <1>1, HereIs
<1> DEFINE r == lists.ready  d == lists.kids  w == lists.waits  c == currentProcess
           k == [Globals EXCEPT !.sem[s] = @ - 1]  b == Block(k, s)
<1>3. /\ IF k.sem[s] < 0 THEN Scheduler(b) ELSE Become(k)
      /\ busy' = busy
  BY DEF Passeren
<1>4. Plain(k, f, r, d, w)
  BY <1>1, <1>2 DEF Plain, IsGlobals
<1>5. /\ k.sem = [sem EXCEPT ![s] = @ - 1] /\ k.current = c /\ k.count = processCount
      /\ k.soft = softBlockCount /\ k.mode = "run" /\ k.missed = FALSE
  BY <1>1, <1>2 DEF Globals, Plain
<1> HIDE DEF k, b
<1>6. /\ c \in Pcb /\ c \notin Range(f) /\ c \notin Range(r) /\ c \notin Waiting(w)
      /\ Cardinality(Active(w)) < Cardinality(Pcb)
  BY <1>1, <1>2, StateIs
<1>7. CASE k.sem[s] < 0
  <2> DEFINE v == [w EXCEPT ![s] = Append(@, c)]
  <2>1. Loose(f, r, w, {c})
    BY <1>6 DEF Loose
  <2>2. /\ Plain(b, f, r, d, v)
        /\ b.soft = (IF s \in semd THEN softBlockCount + 1 ELSE softBlockCount)
        /\ b.count = processCount /\ b.sem = k.sem
    <3>1. k.current \in Pcb /\ Loose(f, r, w, {k.current})
      BY <1>5, <1>6, <2>1
    <3>2. /\ Plain(b, f, r, d, [w EXCEPT ![s] = Append(@, k.current)])
          /\ b.soft = (IF s \in semd THEN k.soft + 1 ELSE k.soft)
          /\ b.count = k.count /\ b.sem = k.sem
      BY <1>4, <1>6, <3>1, BlockIs DEF b
    <3> QED
      BY <1>5, <3>2
  <2> HIDE DEF v
  <2>3. Scheduler(b)
    BY <1>3, <1>7
  <2>4. /\ NP!Scheduler(r, b.count, b.soft)
        /\ \E t : Shows(mem', lists', f, t, d, v) /\ lists'.ready = t
        /\ lists'.free = Range(f) /\ lists'.kids = d /\ lists'.waits = v
        /\ sem' = b.sem /\ missed' = FALSE
        /\ mode' \in {"run", "wait", "halt", "panic", "returned"}
    BY <2>2, <2>3, SchedulerIs
  <2>5. NP!InsertBlocked(s)
    BY <1>6, <2>4, DescriptorIs DEF NP!InsertBlocked, v
  <2> QED
    BY <1>2, <1>3, <1>5, <1>7, <2>2, <2>4, <2>5 DEF Agrees
<1>8. CASE ~ (k.sem[s] < 0)
  <2>1. Become(k)
    BY <1>3, <1>8
  <2>2. Holds(k.mem, f, r, d, w)
    BY <1>4 DEF Plain
  <2>3. /\ Shows(mem', lists', f, r, d, w)
        /\ lists'.free = Range(f) /\ lists'.ready = r /\ lists'.kids = d /\ lists'.waits = w
        /\ currentProcess' = k.current /\ sem' = k.sem /\ processCount' = k.count
        /\ softBlockCount' = k.soft /\ missed' = k.missed /\ mode' = k.mode
    BY <2>1, <2>2, BecomeIs
  <2>4. NP!Resume
    BY <1>1, <1>5, <2>3 DEF NP!Resume, Loops
  <2>5. k.sem[s] \in Int
    BY <1>4 DEF Plain, IsGlobals
  <2>6. lists = [free |-> Range(f), ready |-> r, kids |-> d, waits |-> w]
    BY <1>2 DEF Agrees, Shows
  <2>7. lists' = lists
    BY <2>3, <2>6 DEF Shows
  <2> QED
    BY <1>3, <1>5, <1>8, <2>3, <2>4, <2>5, <2>7 DEF Agrees
<1> QED
  BY <1>7, <1>8

(* SYS4 in memory is SYS4 of Nucleus. *)
LEMMA SysCall4Is ==
  ASSUME NP!IInv, Agrees(mem, lists), missed = FALSE, NEW s \in Mutex, SysCall4(s)
  PROVE  Fine
<1>1. s \in SemAdd /\ s \notin semd /\ Passeren(s) /\ mode = "run"
  BY NucleusAssumption DEF SysCall4, Passeren, semd
<1>2. (IF mode \in Loops THEN work.mode ELSE mode) = "run"
  BY <1>1 DEF Loops
<1>3. NP!SysCall4(s)
  BY <1>1, <1>2, PasserenIs DEF NP!SysCall4
<1>4. NP!Next
  BY <1>3 DEF NP!Next
<1> QED
  BY <1>1, <1>4, PasserenIs DEF Fine

(* SYS8 in memory is SYS8 of Nucleus. *)
LEMMA SysCall8Is ==
  ASSUME NP!IInv, Agrees(mem, lists), missed = FALSE, NEW s \in Device, SysCall8(s)
  PROVE  Fine
<1>1. s \in SemAdd /\ s \in semd /\ Passeren(s) /\ mode = "run" /\ sem[s] > - MaxDebt
  BY NucleusAssumption DEF SysCall8, Passeren, semd
<1>2. (IF mode \in Loops THEN work.mode ELSE mode) = "run"
  BY <1>1 DEF Loops
<1>3. NP!SysCall8(s)
  BY <1>1, <1>2, PasserenIs DEF NP!SysCall8
<1>4. NP!Next
  BY <1>3 DEF NP!Next
<1> QED
  BY <1>1, <1>4, PasserenIs DEF Fine

(* SYS7 in memory is SYS7 of Nucleus. *)
LEMMA SysCall7Is ==
  ASSUME NP!IInv, Agrees(mem, lists), missed = FALSE, SysCall7
  PROVE  Fine
<1>1. mode = "run" /\ CurrentMode = "run" /\ Clock \in SemAdd /\ Clock \in semd
  BY NucleusAssumption DEF SysCall7, CurrentMode, Loops, semd
<1>2. PICK f : Plain(Globals, f, lists.ready, lists.kids, lists.waits) /\ Range(f) = lists.free
  BY <1>1, HereIs
<1> DEFINE r == lists.ready  d == lists.kids  w == lists.waits  c == currentProcess
           k == [Globals EXCEPT !.sem[Clock] = @ - 1]  b == Block(k, Clock)
<1>3. /\ Scheduler(IF k.sem[Clock] < 0 THEN b ELSE k)
      /\ busy' = busy /\ sem[Clock] > - MaxDebt
  BY DEF SysCall7
<1>4. Plain(k, f, r, d, w)
  BY <1>1, <1>2 DEF Plain, IsGlobals
<1>5. /\ k.sem = [sem EXCEPT ![Clock] = @ - 1] /\ k.current = c /\ k.count = processCount
      /\ k.soft = softBlockCount /\ k.mode = "run" /\ k.missed = FALSE
      /\ k.sem[Clock] = sem[Clock] - 1
  BY <1>1, <1>2, StateIs DEF Globals, Plain
<1> HIDE DEF k, b
<1>6. /\ c \in Pcb /\ c \notin Range(f) /\ c \notin Range(r) /\ c \notin Waiting(w)
      /\ Cardinality(Active(w)) < Cardinality(Pcb)
  BY <1>1, <1>2, StateIs
<1>7. (IF mode \in Loops THEN work.mode ELSE mode) = "run"
  BY <1>1 DEF Loops
<1>8. CASE k.sem[Clock] < 0
  <2> DEFINE v == [w EXCEPT ![Clock] = Append(@, c)]
  <2>1. Loose(f, r, w, {c})
    BY <1>6 DEF Loose
  <2>2. /\ Plain(b, f, r, d, v) /\ b.soft = softBlockCount + 1
        /\ b.count = processCount /\ b.sem = k.sem
    BY <1>1, <1>4, <1>5, <1>6, <2>1, BlockIs DEF b
  <2> HIDE DEF v
  <2>3. Scheduler(b)
    BY <1>3, <1>8
  <2>4. /\ NP!Scheduler(r, b.count, b.soft)
        /\ \E t : Shows(mem', lists', f, t, d, v) /\ lists'.ready = t
        /\ lists'.free = Range(f) /\ lists'.kids = d /\ lists'.waits = v
        /\ sem' = b.sem /\ missed' = FALSE
        /\ mode' \in {"run", "wait", "halt", "panic", "returned"}
    BY <2>2, <2>3, SchedulerIs
  <2>5. NP!InsertBlocked(Clock)
    BY <1>6, <2>4, DescriptorIs DEF NP!InsertBlocked, v
  <2>6. NP!SysCall7
    BY <1>2, <1>3, <1>5, <1>7, <1>8, <2>2, <2>4, <2>5 DEF NP!SysCall7
  <2>7. NP!Next
    BY <2>6 DEF NP!Next
  <2> QED
    BY <2>4, <2>7 DEF Fine, Agrees
<1>9. CASE ~ (k.sem[Clock] < 0)
  <2>1. Scheduler(k)
    BY <1>3, <1>9
  <2>2. /\ NP!Scheduler(r, k.count, k.soft)
        /\ \E t : Shows(mem', lists', f, t, d, w) /\ lists'.ready = t
        /\ lists'.free = Range(f) /\ lists'.kids = d /\ lists'.waits = w
        /\ sem' = k.sem /\ missed' = FALSE
        /\ mode' \in {"run", "wait", "halt", "panic", "returned"}
    BY <1>4, <2>1, SchedulerIs
  <2>3. NP!SysCall7
    BY <1>2, <1>3, <1>5, <1>7, <1>9, <2>2 DEF NP!SysCall7
  <2>4. NP!Next
    BY <2>3 DEF NP!Next
  <2> QED
    BY <2>2, <2>4 DEF Fine, Agrees
<1> QED
  BY <1>8, <1>9

------------------------------------------------------------------------------
(* The end of a quantum in memory is that of Nucleus. *)
LEMMA LocalTimerIs ==
  ASSUME NP!IInv, Agrees(mem, lists), missed = FALSE, LocalTimer
  PROVE  Fine
<1>1. mode \in {"run", "wait"} /\ CurrentMode = mode /\ Done(Globals) /\ busy' = busy
  BY DEF LocalTimer, CurrentMode, Loops
<1>2. PICK f : Plain(Globals, f, lists.ready, lists.kids, lists.waits) /\ Range(f) = lists.free
  BY <1>1, HereIs
<1> DEFINE r == lists.ready  d == lists.kids  w == lists.waits  c == currentProcess
<1>3. /\ c \in Pcb \cup {NULL}
      /\ c \in Pcb => c \notin Range(f) /\ c \notin Range(r) /\ c \notin Waiting(w)
  BY <1>2, StateIs
<1>4. c \in Pcb => Loose(f, r, w, {c})
  BY <1>3 DEF Loose
<1>5. /\ NP!Done(r, softBlockCount)
      /\ \E t : Shows(mem', lists', f, t, d, w) /\ lists'.ready = t
      /\ lists'.free = Range(f) /\ lists'.kids = d /\ lists'.waits = w
      /\ sem' = sem /\ missed' = FALSE
      /\ mode' \in {"run", "wait", "halt", "panic", "returned"}
  <2> DEFINE k == Globals
  <2>1. /\ k.current = c /\ k.count = processCount /\ k.soft = softBlockCount /\ k.sem = sem
        /\ Done(k) /\ Plain(k, f, r, d, w)
    BY <1>1, <1>2 DEF Globals
  <2> HIDE DEF k
  <2>2. /\ NP!Done(r, k.soft)
        /\ \E t : Shows(mem', lists', f, t, d, w) /\ lists'.ready = t
        /\ lists'.free = Range(f) /\ lists'.kids = d /\ lists'.waits = w
        /\ sem' = k.sem /\ missed' = FALSE
        /\ mode' \in {"run", "wait", "halt", "panic", "returned"}
    BY <1>3, <1>4, <2>1, DoneIs
  <2> QED
    BY <2>1, <2>2
<1>6. (IF mode \in Loops THEN work.mode ELSE mode) = mode
  BY <1>1 DEF Loops
<1>7. NP!LocalTimer
  BY <1>1, <1>2, <1>5, <1>6 DEF NP!LocalTimer
<1>8. NP!Next
  BY <1>7 DEF NP!Next
<1> QED
  BY <1>5, <1>8 DEF Fine, Agrees

(* The interrupt of a device in memory is that of Nucleus. *)
LEMMA DeviceInterruptIs ==
  ASSUME NP!IInv, Agrees(mem, lists), missed = FALSE, NEW s \in Device, DeviceInterrupt(s)
  PROVE  Fine
<1>1. /\ mode \in {"run", "wait"} /\ CurrentMode = mode /\ s \in SemAdd /\ s \in semd
      /\ s \in busy /\ busy' = busy \ {s}
  BY NucleusAssumption DEF DeviceInterrupt, CurrentMode, Loops, semd
<1>2. PICK f : Plain(Globals, f, lists.ready, lists.kids, lists.waits) /\ Range(f) = lists.free
  BY <1>1, HereIs
<1> DEFINE r == lists.ready  d == lists.kids  w == lists.waits  c == currentProcess
           k == [Globals EXCEPT !.sem[s] = @ + 1]  b == Wake(k, s)
<1>3. Done(b)
  BY DEF DeviceInterrupt
<1>4. Plain(k, f, r, d, w)
  BY <1>1, <1>2 DEF Plain, IsGlobals
<1>5. /\ k.sem = [sem EXCEPT ![s] = @ + 1] /\ k.current = c /\ k.count = processCount
      /\ k.soft = softBlockCount /\ k.missed = FALSE
  BY <1>1, <1>2 DEF Globals, Plain
<1> HIDE DEF k, b
<1>6. /\ k.sem[s] <= 0 /\ w[s] # <<>> =>
            /\ Plain(b, f, Append(r, Head(w[s])), d, [w EXCEPT ![s] = Tail(@)])
            /\ b.soft = k.soft - 1
      /\ ~ (k.sem[s] <= 0 /\ w[s] # <<>>) => b = k
      /\ b.count = k.count /\ b.sem = k.sem /\ b.current = k.current /\ b.mode = k.mode
  <2>1. /\ k.sem[s] <= 0 /\ w[s] # <<>> =>
              /\ Plain(b, f, Append(r, Head(w[s])), d, [w EXCEPT ![s] = Tail(@)])
              /\ b.soft = (IF s \in semd THEN k.soft - 1 ELSE k.soft)
        /\ ~ (k.sem[s] <= 0 /\ w[s] # <<>>) => b = k
        /\ b.count = k.count /\ b.sem = k.sem /\ b.current = k.current /\ b.mode = k.mode
    <3>1. s \in SemAdd
      BY <1>1
    <3> QED
      BY <1>4, <3>1, WakeIs DEF b
  <2> QED
    BY <1>1, <2>1
<1>7. (IF mode \in Loops THEN work.mode ELSE mode) = mode
  BY <1>1 DEF Loops
<1>8. /\ c \in Pcb \cup {NULL}
      /\ c \in Pcb => c \notin Range(f) /\ c \notin Range(r) /\ c \notin Waiting(w)
      /\ w \in [SemAdd -> Seq(Pcb)] /\ r \in Seq(Pcb)
  BY <1>2, StateIs
<1>9. CASE k.sem[s] <= 0 /\ w[s] # <<>>
  <2> DEFINE q == Append(r, Head(w[s]))  v == [w EXCEPT ![s] = Tail(@)]
  <2>1. Plain(b, f, q, d, v) /\ b.soft = softBlockCount - 1
    BY <1>5, <1>6, <1>9
  <2>2. c \in Pcb => Loose(f, q, v, {c})
    <3>1. IsInjective(w[s]) /\ Range(w[s]) \subseteq Waiting(w) /\ w[s] \in Seq(Pcb)
      BY <1>1, <1>4, HoldsFacts DEF Plain
    <3>2. /\ Head(w[s]) \in Pcb /\ Head(w[s]) \in Range(w[s])
          /\ Range(Tail(w[s])) \subseteq Waiting(w)
      BY <1>9, <3>1, RangeTail
    <3>3. Range(q) = Range(r) \cup {Head(w[s])}
      BY <1>8, <3>2, RangeAppend
    <3>4. v = [w EXCEPT ![s] = Tail(w[s])]
      OBVIOUS
    <3>5. Waiting(v) \subseteq Waiting(w)
      BY <1>1, <1>8, <3>2, <3>4, WaitingExcept
    <3> QED
      BY <1>8, <3>1, <3>2, <3>3, <3>5 DEF Loose
  <2> HIDE DEF q, v
  <2>3. /\ NP!Done(q, b.soft)
        /\ \E t : Shows(mem', lists', f, t, d, v) /\ lists'.ready = t
        /\ lists'.free = Range(f) /\ lists'.kids = d /\ lists'.waits = v
        /\ sem' = b.sem /\ missed' = FALSE
        /\ mode' \in {"run", "wait", "halt", "panic", "returned"}
    BY <1>3, <1>5, <1>6, <1>8, <2>1, <2>2, DoneIs
  <2>4. NP!DeviceInterrupt(s)
    BY <1>1, <1>2, <1>5, <1>6, <1>7, <1>9, <2>1, <2>3 DEF NP!DeviceInterrupt, NP!Signal, q, v
  <2>5. NP!Next
    BY <2>4 DEF NP!Next
  <2> QED
    BY <2>3, <2>5 DEF Fine, Agrees
<1>10. CASE ~ (k.sem[s] <= 0 /\ w[s] # <<>>)
  <2>1. Plain(b, f, r, d, w) /\ b.soft = softBlockCount
    BY <1>4, <1>5, <1>6, <1>10
  <2>2. c \in Pcb => Loose(f, r, w, {c})
    BY <1>8 DEF Loose
  <2>3. /\ NP!Done(r, b.soft)
        /\ \E t : Shows(mem', lists', f, t, d, w) /\ lists'.ready = t
        /\ lists'.free = Range(f) /\ lists'.kids = d /\ lists'.waits = w
        /\ sem' = b.sem /\ missed' = FALSE
        /\ mode' \in {"run", "wait", "halt", "panic", "returned"}
    BY <1>3, <1>5, <1>6, <1>8, <2>1, <2>2, DoneIs
  <2>4. k.sem[s] \in Int
    BY <1>1, <1>4 DEF Plain, IsGlobals
  <2>5. NP!DeviceInterrupt(s)
    BY <1>1, <1>2, <1>5, <1>6, <1>7, <1>10, <2>1, <2>3, <2>4 DEF NP!DeviceInterrupt, NP!Signal
  <2>6. NP!Next
    BY <2>5 DEF NP!Next
  <2> QED
    BY <2>3, <2>6 DEF Fine, Agrees
<1> QED
  BY <1>9, <1>10

(* A process that starts a device changes no list. *)
LEMMA StartIOIs ==
  ASSUME NP!IInv, Agrees(mem, lists), missed = FALSE, NEW s \in Device, StartIO(s)
  PROVE  Fine
<1>1. /\ mode = "run" /\ mode' = "run"
  BY DEF StartIO
<1>2. (IF mode \in Loops THEN work.mode ELSE mode) = "run"
  BY <1>1 DEF Loops
<1>3. (IF mode \in Loops THEN work.mode ELSE mode)' = "run"
  BY <1>1 DEF Loops
<1>4. NP!StartIO(s)
  BY <1>1, <1>2, <1>3 DEF StartIO, NP!StartIO
<1>5. NP!Next
  BY <1>4 DEF NP!Next
<1>6. mem' = mem /\ lists' = lists /\ missed' = FALSE
  BY DEF StartIO
<1> QED
  BY <1>1, <1>5, <1>6 DEF Fine

------------------------------------------------------------------------------
(* The interval timer.                                                      *)

(* Who leaves one queue for the next stays between the same two. *)
LEMMA HeadMoves ==
  ASSUME NEW S, NEW r \in Seq(S), NEW t \in Seq(S), t # <<>>
  PROVE  Append(r, Head(t)) \o Tail(t) = r \o t
<1>1. r \o t = r \o (<<Head(t)>> \o Tail(t)) /\ Tail(t) \in Seq(S) /\ Head(t) \in S
  OBVIOUS
<1>2. r \o (<<Head(t)>> \o Tail(t)) = (r \o <<Head(t)>>) \o Tail(t)
  BY <1>1, ConcatAssociative
<1>3. r \o <<Head(t)>> = Append(r, Head(t))
  BY <1>1
<1> QED
  BY <1>1, <1>2, <1>3

\* The loop of the interval timer has made some ready of those who wait for the
\* pseudo-clock.
Waking ==
    /\ IsGlobals(work) /\ work.missed = FALSE
    /\ work.current = currentProcess /\ work.sem = sem /\ work.count = processCount
    /\ \E f, r, t :
          /\ Range(f) = lists.free
          /\ Holds(work.mem, f, r, lists.kids, [lists.waits EXCEPT ![Clock] = t])
          /\ r \o t = lists.ready \o lists.waits[Clock]
          /\ work.soft = softBlockCount - (Len(lists.waits[Clock]) - Len(t))

(* The interval timer begins its loop. *)
LEMMA IntervalTimerIs ==
  ASSUME NP!IInv, Agrees(mem, lists), missed = FALSE, IntervalTimer
  PROVE  NP!vars' = NP!vars /\ Agrees(mem', lists') /\ missed' = FALSE
         /\ mode' = "wake" /\ Waking'
<1>1. /\ mode \in {"run", "wait"} /\ CurrentMode = mode /\ mode' = "wake" /\ busy' = busy
      /\ work' = Globals
      /\ UNCHANGED <<mem, lists, currentProcess, sem, processCount, softBlockCount, missed>>
  BY DEF IntervalTimer, Loop, CurrentMode, Loops
<1>2. PICK f : Plain(Globals, f, lists.ready, lists.kids, lists.waits) /\ Range(f) = lists.free
  BY <1>1, HereIs
<1>3. /\ Globals.current = currentProcess /\ Globals.count = processCount
      /\ Globals.sem = sem /\ Globals.soft = softBlockCount /\ Globals.mode = mode
  BY DEF Globals
<1>4. (IF mode \in Loops THEN work.mode ELSE mode)' = mode
  BY <1>1, <1>3 DEF Loops
<1>5. (IF mode \in Loops THEN work.mode ELSE mode) = mode
  BY <1>1 DEF Loops
<1>6. NP!vars' = NP!vars
  BY <1>1, <1>4, <1>5 DEF NP!vars
<1>7. Waking'
  <2> DEFINE w == lists.waits
  <2>1. w \in [SemAdd -> Seq(Pcb)] /\ Clock \in SemAdd /\ softBlockCount \in Int
    BY NucleusAssumption, StateIs
  <2>2. w = [w EXCEPT ![Clock] = w[Clock]] /\ Len(w[Clock]) \in Nat
    BY <2>1
  <2>3. softBlockCount - (Len(w[Clock]) - Len(w[Clock])) = softBlockCount
    BY <2>1, <2>2
  <2>4. Holds(Globals.mem, f, lists.ready, lists.kids, [w EXCEPT ![Clock] = w[Clock]])
    BY <1>2, <2>2 DEF Plain
  <2>5. IsGlobals(Globals) /\ Globals.missed = FALSE
    BY <1>2 DEF Plain, IsGlobals
  <2>6. /\ IsGlobals(work') /\ work'.missed = FALSE
        /\ work'.current = currentProcess' /\ work'.sem = sem' /\ work'.count = processCount'
    BY <1>1, <1>3, <2>5
  <2>7. /\ Range(f) = lists'.free
        /\ Holds(work'.mem, f, lists'.ready, lists'.kids, [lists'.waits EXCEPT ![Clock] = lists'.waits[Clock]])
        /\ work'.soft = softBlockCount' - (Len(lists'.waits[Clock]) - Len(lists'.waits[Clock]))
    BY <1>1, <1>2, <1>3, <2>3, <2>4
  <2> HIDE DEF w
  <2> QED
    BY <2>6, <2>7 DEF Waking
<1> QED
  BY <1>1, <1>6, <1>7 DEF Agrees

(* A round of the loop of the interval timer, or what follows it: then all
   rounds together are the interval timer of Nucleus. *)
LEMMA WakeAllIs ==
  ASSUME NP!IInv, Agrees(mem, lists), missed = FALSE, Waking, WakeAll
  PROVE  \/ Fine
         \/ NP!vars' = NP!vars /\ Agrees(mem', lists') /\ missed' = FALSE
            /\ mode' = "wake" /\ Waking'
<1>1. PICK f, r, t :
          /\ Range(f) = lists.free
          /\ Holds(work.mem, f, r, lists.kids, [lists.waits EXCEPT ![Clock] = t])
          /\ r \o t = lists.ready \o lists.waits[Clock]
          /\ work.soft = softBlockCount - (Len(lists.waits[Clock]) - Len(t))
  BY DEF Waking
<1>2. /\ IsGlobals(work) /\ work.missed = FALSE
      /\ work.current = currentProcess /\ work.sem = sem /\ work.count = processCount
      /\ mode = "wake" /\ busy' = busy
  BY DEF Waking, WakeAll
<1> DEFINE q == lists.ready  d == lists.kids  w == lists.waits  c == currentProcess
           v == [w EXCEPT ![Clock] = t]
<1>3. /\ w \in [SemAdd -> Seq(Pcb)] /\ Clock \in SemAdd /\ softBlockCount \in Int
      /\ q \in Seq(Pcb) /\ c \in Pcb \cup {NULL} /\ sem \in [SemAdd -> Int]
  BY NucleusAssumption, StateIs
<1>4. v[Clock] = t
  BY <1>3
<1>5. /\ t \in Seq(Pcb) /\ r \in Seq(Pcb) /\ IsInjective(t) /\ d \in [Pcb -> Seq(Pcb)]
      /\ \A s \in SemAdd : Range(v[s]) \subseteq Waiting(v)
  <2> HIDE DEF v
  <2> QED
    BY <1>1, <1>3, <1>4, HoldsFacts DEF v
<1>6. headBlocked(work.mem, Clock) = IF t = <<>> THEN NULL ELSE Head(t)
  <2> HIDE DEF v
  <2> QED
    BY <1>1, <1>3, <1>4, HeadWait DEF v
<1>7. (IF mode \in Loops THEN work.mode ELSE mode) = work.mode /\ work.mode \in {"run", "wait"}
  BY <1>2 DEF Loops, IsGlobals
<1>8. CASE t # <<>>
  <2> DEFINE x == removeBlocked(work.mem, Clock)  p == Head(t)  u == Tail(t)
             y == [w EXCEPT ![Clock] = u]
             n == insertProcQ(x.mem, readyQ, x.ptr)
             k == [work EXCEPT !.mem = n, !.soft = @ - 1]
  <2>1. headBlocked(work.mem, Clock) # NULL
    BY <1>5, <1>6, <1>8, BlockAssumption
  <2>2. Loop(k, <<>>, "wake")
    BY <2>1 DEF WakeAll
  <2>3. [v EXCEPT ![Clock] = Tail(@)] = y
    BY <1>3
  <2>4. x.ptr = p /\ Holds(x.mem, f, r, d, y)
    <3>1. /\ x.ptr = Head(v[Clock])
          /\ Holds(x.mem, f, r, d, [v EXCEPT ![Clock] = Tail(@)])
      <4> HIDE DEF v
      <4> QED
        BY <1>1, <1>3, <1>4, <1>8, RemoveWait DEF v
    <3> QED
      BY <1>4, <2>3, <3>1
  <2>5. p \in Pcb /\ Loose(f, r, y, {p})
    <3>1. Head(v[Clock]) \in Pcb /\ Loose(f, r, [v EXCEPT ![Clock] = Tail(@)], {Head(v[Clock])})
      <4> HIDE DEF v
      <4> QED
        BY <1>1, <1>3, <1>4, <1>8, WokenLoose DEF v
    <3> QED
      BY <1>4, <2>3, <3>1
  <2>6. Holds(n, f, Append(r, p), d, y)
    <3> HIDE DEF x, y, p
    <3> QED
      BY <2>4, <2>5, InsertReady
  <2>7. DOMAIN n = AslLocations
    BY <2>6, HoldsFacts
  <2>8. IsGlobals(k) /\ k.mem = n /\ k.soft = work.soft - 1 /\ k.missed = FALSE
        /\ k.current = c /\ k.sem = sem /\ k.count = processCount /\ k.mode = work.mode
    <3> HIDE DEF n
    <3>1. /\ work = [mem |-> work.mem, current |-> work.current, sem |-> work.sem,
                     count |-> work.count, soft |-> work.soft, missed |-> work.missed,
                     mode |-> work.mode]
          /\ work.soft - 1 \in Int /\ work.missed \in BOOLEAN
      BY <1>2 DEF IsGlobals
    <3>2. k = [mem |-> n, current |-> work.current, sem |-> work.sem,
               count |-> work.count, soft |-> work.soft - 1, missed |-> work.missed,
               mode |-> work.mode]
      <4> DEFINE b == [work EXCEPT !.mem = n]
      <4>1. b = [mem |-> n, current |-> work.current, sem |-> work.sem,
                 count |-> work.count, soft |-> work.soft, missed |-> work.missed,
                 mode |-> work.mode]
        BY <3>1
      <4>2. k = [b EXCEPT !.soft = work.soft - 1]
        BY <3>1
      <4> HIDE DEF b, k
      <4> QED
        BY <4>1, <4>2
    <3>3. /\ k.mem = n /\ k.soft = work.soft - 1 /\ k.missed = work.missed
          /\ k.current = work.current /\ k.sem = work.sem /\ k.count = work.count
          /\ k.mode = work.mode
          /\ k = [mem |-> k.mem, current |-> k.current, sem |-> k.sem, count |-> k.count,
                  soft |-> k.soft, missed |-> k.missed, mode |-> k.mode]
      BY <3>2
    <3> HIDE DEF k
    <3>4. IsGlobals(k)
      BY <1>2, <2>7, <3>1, <3>3 DEF IsGlobals
    <3> QED
      BY <1>2, <3>3, <3>4
  <2>9. Append(r, p) \o u = q \o w[Clock]
    BY <1>1, <1>5, <1>8, HeadMoves
  <2>10. Len(u) = Len(t) - 1 /\ Len(t) \in Nat /\ Len(w[Clock]) \in Nat
    BY <1>3, <1>5, <1>8
  <2>11. k.soft = softBlockCount - (Len(w[Clock]) - Len(u))
    <3> HIDE DEF k, u
    <3> QED
      BY <1>1, <1>3, <2>8, <2>10
  <2>12. /\ work' = k /\ mode' = "wake"
         /\ UNCHANGED <<mem, lists, currentProcess, sem, processCount, softBlockCount, missed>>
    BY <2>2 DEF Loop
  <2> HIDE DEF k, n, x, p, u
  <2>13. Waking'
    <3>1. /\ IsGlobals(work') /\ work'.missed = FALSE
          /\ work'.current = currentProcess' /\ work'.sem = sem' /\ work'.count = processCount'
      BY <2>8, <2>12
    <3>2. /\ Range(f) = lists'.free
          /\ Holds(work'.mem, f, Append(r, p), lists'.kids, [lists'.waits EXCEPT ![Clock] = u])
          /\ Append(r, p) \o u = lists'.ready \o lists'.waits[Clock]
          /\ work'.soft = softBlockCount' - (Len(lists'.waits[Clock]) - Len(u))
      BY <1>1, <2>6, <2>8, <2>9, <2>11, <2>12
    <3> QED
      BY <3>1, <3>2 DEF Waking
  <2>14. (IF mode \in Loops THEN work.mode ELSE mode)' = work.mode
    BY <2>8, <2>12 DEF Loops
  <2>15. NP!vars' = NP!vars
    BY <1>2, <1>7, <2>12, <2>14 DEF NP!vars
  <2>16. Agrees(mem', lists')
    BY <2>12
  <2> QED
    BY <2>12, <2>13, <2>15, <2>16
<1>9. CASE t = <<>>
  <2> DEFINE k == [work EXCEPT !.sem[Clock] = 0]
  <2>1. headBlocked(work.mem, Clock) = NULL
    BY <1>6, <1>9
  <2>2. Done(k)
    BY <2>1 DEF WakeAll
  <2>3. /\ Plain(k, f, r, d, v) /\ k.soft = work.soft /\ k.current = c /\ k.count = processCount
        /\ k.sem = [sem EXCEPT ![Clock] = 0]
    <3> HIDE DEF v
    <3>1. work = [mem |-> work.mem, current |-> work.current, sem |-> work.sem,
                  count |-> work.count, soft |-> work.soft, missed |-> work.missed,
                  mode |-> work.mode]
      BY <1>2 DEF IsGlobals
    <3>2. k = [mem |-> work.mem, current |-> work.current, sem |-> [work.sem EXCEPT ![Clock] = 0],
               count |-> work.count, soft |-> work.soft, missed |-> work.missed,
               mode |-> work.mode]
      BY <3>1
    <3>3. /\ k.mem = work.mem /\ k.soft = work.soft /\ k.missed = work.missed
          /\ k.current = work.current /\ k.sem = [work.sem EXCEPT ![Clock] = 0]
          /\ k.count = work.count /\ k.mode = work.mode
          /\ k = [mem |-> k.mem, current |-> k.current, sem |-> k.sem, count |-> k.count,
                  soft |-> k.soft, missed |-> k.missed, mode |-> k.mode]
      BY <3>2
    <3>4. [work.sem EXCEPT ![Clock] = 0] \in [SemAdd -> Int]
      BY <1>2, <1>3
    <3> HIDE DEF k
    <3>5. IsGlobals(k)
      BY <1>2, <3>3, <3>4 DEF IsGlobals
    <3>6. Holds(k.mem, f, r, d, v)
      BY <1>1, <3>3 DEF v
    <3> QED
      BY <1>2, <3>3, <3>5, <3>6 DEF Plain
  <2>4. r = q \o w[Clock]
    <3>1. r \o t = r
      BY <1>5, <1>9
    <3> QED
      BY <1>1, <3>1
  <2>5. c \in Pcb => Loose(f, r, v, {c})
    <3>1. c \in Pcb => c \notin lists.free /\ c \notin Range(q) /\ c \notin Waiting(w)
      BY StateIs
    <3>2. Range(w[Clock]) \subseteq Waiting(w) /\ w[Clock] \in Seq(Pcb)
      BY <1>3 DEF Waiting
    <3>3. Range(r) = Range(q) \cup Range(w[Clock])
      BY <1>3, <2>4, <3>2, RangeConcat
    <3>4. Range(t) \subseteq Waiting(w)
      BY <1>9, RangeEmpty, EmptyQueue
    <3>5. Waiting(v) \subseteq Waiting(w)
      BY <1>3, <3>4, WaitingExcept
    <3> QED
      BY <1>1, <3>1, <3>2, <3>3, <3>5 DEF Loose
  <2> HIDE DEF k, v
  <2>6. /\ NP!Done(r, k.soft)
        /\ \E z : Shows(mem', lists', f, z, d, v) /\ lists'.ready = z
        /\ lists'.free = Range(f) /\ lists'.kids = d /\ lists'.waits = v
        /\ sem' = k.sem /\ missed' = FALSE
        /\ mode' \in {"run", "wait", "halt", "panic", "returned"}
    BY <1>3, <2>2, <2>3, <2>5, DoneIs
  <2>7. k.soft = softBlockCount - Len(w[Clock])
    <3>1. Len(w[Clock]) \in Nat /\ Len(t) = 0
      BY <1>3, <1>9
    <3> QED
      BY <1>1, <1>3, <2>3, <3>1
  <2>8. NP!IntervalTimer
    BY <1>1, <1>2, <1>7, <1>9, <2>3, <2>4, <2>6, <2>7 DEF NP!IntervalTimer, v
  <2>9. NP!Next
    BY <2>8 DEF NP!Next
  <2> QED
    BY <2>6, <2>9 DEF Fine, Agrees
<1> QED
  BY <1>8, <1>9

------------------------------------------------------------------------------
(* The visit of killEverything.                                             *)

(* A queue without D and then without p. *)
LEMMA WithoutTwice ==
  ASSUME NEW S, NEW K, NEW J, NEW q \in Seq(S), IsInjective(q)
  PROVE  Without(Without(q, K), J) = Without(q, K \cup J)
<1> DEFINE r == Without(q, K)  t == Without(r, J)
<1>1. Keeps(r, q, K) /\ r \in Seq(S) /\ IsInjective(r) /\ Range(r) = Range(q) \ K
  BY WithoutKeeps, WithoutMembers
<1> HIDE DEF r
<1>2. Keeps(t, r, J)
  BY <1>1, WithoutKeeps
<1> HIDE DEF t
<1>3. Range(r) \ J = Range(q) \ (K \cup J)
  BY <1>1
<1>4. \A i, j \in DOMAIN t : i < j =>
        \E k, l \in DOMAIN q : k < l /\ q[k] = t[i] /\ q[l] = t[j]
  <2> TAKE i, j \in DOMAIN t
  <2> HAVE i < j
  <2>1. PICK k, l \in DOMAIN r : k < l /\ r[k] = t[i] /\ r[l] = t[j]
    BY <1>2 DEF Keeps
  <2>2. \E a, b \in DOMAIN q : a < b /\ q[a] = r[k] /\ q[b] = r[l]
    BY <1>1, <2>1 DEF Keeps
  <2> QED
    BY <2>1, <2>2
<1>5. Keeps(t, q, K \cup J)
  BY <1>2, <1>3, <1>4 DEF Keeps
<1> QED
  BY <1>5, WithoutIs DEF t, r

(* The head of a queue stays in front as long as it is not taken out. *)
LEMMA WithoutKeepsHead ==
  ASSUME NEW S, NEW K, NEW q \in Seq(S), IsInjective(q), q # <<>>, Head(q) \notin K
  PROVE  Without(q, K) # <<>> /\ Head(Without(q, K)) = Head(q)
<1> DEFINE r == Without(q, K)
<1>1. Keeps(r, q, K) /\ r \in Seq(S) /\ IsInjective(r) /\ Range(r) = Range(q) \ K
  BY WithoutKeeps, WithoutMembers
<1> HIDE DEF r
<1>2. Head(q) = q[1] /\ 1 \in 1 .. Len(q) /\ DOMAIN q = 1 .. Len(q)
  BY RangeOf
<1>3. q[1] \in Range(q)
  BY <1>2, RangeOf
<1>4. DOMAIN r = 1 .. Len(r) /\ Len(r) \in Nat
  BY <1>1, RangeOf
<1>5. PICK i \in 1 .. Len(r) : r[i] = q[1]
  BY <1>1, <1>2, <1>3, RangeOf
<1>6. i = 1
  <2> SUFFICES ASSUME 1 < i PROVE FALSE
    BY <1>4, <1>5
  <2>1. 1 \in DOMAIN r /\ i \in DOMAIN r
    BY <1>4, <1>5
  <2>2. PICK k, l \in DOMAIN q : k < l /\ q[k] = r[1] /\ q[l] = r[i]
    BY <1>1, <2>1 DEF Keeps
  <2>3. l = 1
    BY <1>2, <1>5, <2>2 DEF IsInjective
  <2> QED
    BY <1>2, <2>2, <2>3
<1>7. r # <<>> /\ Head(r) = r[1]
  BY <1>1, <1>4, <1>5
<1> QED
  BY <1>2, <1>5, <1>6, <1>7 DEF r

(* The last of a queue is that of its tail, and of the queue with one more in front. *)
LEMMA LastOf ==
  ASSUME NEW S, NEW q \in Seq(S), q # <<>>, IsInjective(q)
  PROVE  /\ Tail(q) = <<>> => q[Len(q)] = Head(q) /\ Range(q) = {Head(q)}
         /\ Tail(q) # <<>> => Tail(q)[Len(Tail(q))] = q[Len(q)] /\ Head(q) # q[Len(q)]
         /\ \A x \in S : (<<x>> \o q)[Len(<<x>> \o q)] = q[Len(q)]
<1>1. Len(q) \in Nat /\ Len(q) >= 1 /\ Head(q) = q[1] /\ Len(Tail(q)) = Len(q) - 1
      /\ Tail(q) \in Seq(S) /\ DOMAIN q = 1 .. Len(q)
  OBVIOUS
<1>2. CASE Tail(q) = <<>>
  <2>1. Len(q) = 1
    <3> DEFINE t == Tail(q)
    <3>1. Len(<<>>) = 0
      OBVIOUS
    <3>2. t = <<>> /\ Len(t) = Len(q) - 1
      BY <1>1, <1>2
    <3> HIDE DEF t
    <3>3. Len(t) = 0
      BY <3>1, <3>2
    <3>4. ASSUME NEW n \in Nat, Len(t) = n - 1 PROVE n = 1
      BY <3>3, <3>4
    <3> QED
      BY <1>1, <3>2, <3>4
  <2>2. Range(Tail(q)) = Range(q) \ {Head(q)} /\ Head(q) \in Range(q) /\ Range(Tail(q)) = {}
    BY <1>2, RangeTail, EmptyQueue
  <2> QED
    BY <1>1, <1>2, <2>1, <2>2, PrependMembers
<1>3. CASE Tail(q) # <<>>
  <2>1. Len(q) > 1
    BY <1>1, <1>3
  <2>2. Tail(q)[Len(q) - 1] = q[Len(q)]
    BY <1>1, <2>1
  <2>3. q[1] # q[Len(q)]
    BY <1>1, <2>1 DEF IsInjective
  <2> QED
    BY <1>1, <1>3, <2>2, <2>3
<1>4. \A x \in S : (<<x>> \o q)[Len(<<x>> \o q)] = q[Len(q)]
  <2> TAKE x \in S
  <2>1. Len(<<x>> \o q) = Len(q) + 1 /\ \A i \in 1 .. Len(q) : (<<x>> \o q)[i + 1] = q[i]
    BY PrependMembers
  <2>2. Len(q) \in 1 .. Len(q)
    BY <1>1
  <2> QED
    BY <2>1, <2>2
<1> QED
  BY <1>2, <1>3, <1>4

------------------------------------------------------------------------------
\* How far killEverything(c) has come: the blocks of D are freed, the calls cl
\* are open, and the lists of children are k instead of o.
Visited(o, c, k, D, cl) ==
    /\ D \subseteq Descendants(o, c)
    /\ cl \in Seq(Pcb) /\ IsInjective(cl) /\ cl # <<>> /\ cl[Len(cl)] = c
    /\ Range(cl) \subseteq Descendants(o, c) \ D
    /\ \A p \in Pcb \ Descendants(o, c) : k[p] = o[p]
    /\ \A p \in Pcb : Range(k[p]) \subseteq Range(o[p])
    /\ \A p \in D : k[p] = <<>>
    /\ \A y \in Descendants(o, c) : Range(k[y]) \cap (D \cup Range(cl)) = {}
    /\ \A T \in SUBSET Pcb :
          Range(cl) \subseteq T /\ ChildClosed(k, T) => Descendants(o, c) \ D \subseteq T

\* The set D and p.
With(D, p) == D \cup {p}

\* The children k when the first child of p is taken away.
KidTaken(k, p) == [k EXCEPT ![p] = Tail(@)]

(* The visit begins at c. *)
LEMMA VisitStarts ==
  ASSUME NEW o \in [Pcb -> Seq(Pcb)], NEW c \in Pcb,
         \A y \in Descendants(o, c) : c \notin Range(o[y])
  PROVE  Visited(o, c, o, {}, <<c>>)
<1>1. /\ c \in Descendants(o, c)
      /\ \A T \in SUBSET Pcb : c \in T /\ ChildClosed(o, T) => Descendants(o, c) \subseteq T
  BY DescendantsLeast
<1>2. /\ <<c>> \in Seq(Pcb) /\ IsInjective(<<c>>) /\ <<c>> # <<>> /\ Range(<<c>>) = {c}
      /\ <<c>>[Len(<<c>>)] = c
  <2>1. /\ Append(<<>>, c) \in Seq(Pcb) /\ Range(Append(<<>>, c)) = Range(<<>>) \cup {c}
        /\ IsInjective(Append(<<>>, c))
    <3> DEFINE e == <<>>
    <3>1. e \in Seq(Pcb) /\ Range(e) = {} /\ IsInjective(e)
      BY EmptyQueue
    <3> HIDE DEF e
    <3>2. /\ Append(e, c) \in Seq(Pcb) /\ Range(Append(e, c)) = Range(e) \cup {c}
          /\ IsInjective(Append(e, c))
      BY <3>1, RangeAppend
    <3> QED
      BY <3>2 DEF e
  <2>2. Append(<<>>, c) = <<c>>
    OBVIOUS
  <2> QED
    BY <2>1, <2>2, EmptyQueue
<1> QED
  BY <1>1, <1>2 DEF Visited

(* A round that goes down to the first child keeps what is known of the visit. *)
LEMMA VisitGoesDown ==
  ASSUME NEW o \in [Pcb -> Seq(Pcb)], NEW c \in Pcb, NEW k \in [Pcb -> Seq(Pcb)],
         \A p \in Pcb : IsInjective(k[p]),
         \A p, q \in Pcb : p # q => Range(k[p]) \cap Range(k[q]) = {},
         NEW D \in SUBSET Pcb, NEW cl, Visited(o, c, k, D, cl), k[Head(cl)] # <<>>
  PROVE  Visited(o, c, KidTaken(k, Head(cl)), D, <<Head(k[Head(cl)])>> \o cl)
<1> DEFINE K == Descendants(o, c)  p == Head(cl)  h == Head(k[p])
           l == [k EXCEPT ![p] = Tail(@)]  dl == <<h>> \o cl
<1>1. /\ cl \in Seq(Pcb) /\ IsInjective(cl) /\ cl # <<>> /\ cl[Len(cl)] = c
      /\ D \subseteq K /\ Range(cl) \subseteq K \ D
      /\ \A q \in Pcb \ K : k[q] = o[q]
      /\ \A q \in Pcb : Range(k[q]) \subseteq Range(o[q])
      /\ \A q \in D : k[q] = <<>>
      /\ \A y \in K : Range(k[y]) \cap (D \cup Range(cl)) = {}
      /\ \A T \in SUBSET Pcb : Range(cl) \subseteq T /\ ChildClosed(k, T) => K \ D \subseteq T
  BY DEF Visited
<1>2. K \subseteq Pcb /\ ChildClosed(o, K)
  BY DescendantsLeast
<1> HIDE DEF K
<1>3. p \in K /\ p \notin D /\ p \in Pcb
  BY <1>1, <1>2, RangeTail
<1>4. /\ h \in Range(k[p]) /\ h \in Pcb /\ Range(Tail(k[p])) = Range(k[p]) \ {h}
      /\ Tail(k[p]) \in Seq(Pcb)
  BY <1>3, RangeTail
<1>5. h \in K /\ h \notin D /\ h \notin Range(cl)
  BY <1>1, <1>2, <1>3, <1>4 DEF ChildClosed
<1>6. /\ dl \in Seq(Pcb) /\ IsInjective(dl) /\ dl # <<>> /\ Range(dl) = Range(cl) \cup {h}
      /\ dl[Len(dl)] = c
  <2>1. h \in Pcb /\ h \notin Range(cl) /\ cl \in Seq(Pcb) /\ IsInjective(cl) /\ cl # <<>>
    BY <1>1, <1>4, <1>5
  <2> HIDE DEF h
  <2>2. /\ dl \in Seq(Pcb) /\ IsInjective(dl) /\ Range(dl) = Range(cl) \cup {h}
        /\ Len(dl) = Len(cl) + 1
    BY <2>1, PrependMembers
  <2>3. dl[Len(dl)] = c
    BY <1>1, <2>1, LastOf
  <2>4. dl # <<>>
    BY <2>1, <2>2
  <2> QED
    BY <2>2, <2>3, <2>4
<1>7. \A q \in Pcb : l[q] = IF q = p THEN Tail(k[p]) ELSE k[q]
  BY <1>3
<1> HIDE DEF l, dl, h, p
<1>8. \A q \in Pcb : Range(l[q]) = Range(k[q]) \ {h}
  <2> TAKE q \in Pcb
  <2>1. q # p => h \notin Range(k[q])
    BY <1>3, <1>4
  <2> QED
    BY <1>4, <1>7, <2>1
<1>9. \A q \in Pcb \ K : l[q] = o[q]
  BY <1>1, <1>3, <1>7
<1>10. \A q \in Pcb : Range(l[q]) \subseteq Range(o[q])
  BY <1>1, <1>8
<1>11. \A q \in D : l[q] = <<>>
  BY <1>1, <1>2, <1>3, <1>7
<1>12. \A y \in K : Range(l[y]) \cap (D \cup Range(dl)) = {}
  <2> TAKE y \in K
  <2>1. Range(k[y]) \cap (D \cup Range(cl)) = {} /\ Range(l[y]) = Range(k[y]) \ {h}
    BY <1>1, <1>2, <1>8
  <2>2. Range(dl) = Range(cl) \cup {h}
    BY <1>6
  <2> QED
    BY <2>1, <2>2
<1>13. ASSUME NEW T \in SUBSET Pcb, Range(dl) \subseteq T, ChildClosed(l, T)
       PROVE  K \ D \subseteq T
  <2>1. Range(cl) \subseteq T /\ h \in T
    BY <1>6, <1>13
  <2>2. ChildClosed(k, T)
    BY <1>8, <1>13, <2>1 DEF ChildClosed
  <2> QED
    BY <1>1, <2>1, <2>2
<1>14. Range(dl) \subseteq K \ D
  BY <1>1, <1>5, <1>6
<1>15. Visited(o, c, l, D, dl)
  BY <1>1, <1>6, <1>9, <1>10, <1>11, <1>12, <1>13, <1>14 DEF Visited, K
<1> QED
  BY <1>15 DEF l, dl, h, p, KidTaken

(* A call that returns keeps what is known of the visit. *)
LEMMA VisitGoesUp ==
  ASSUME NEW o \in [Pcb -> Seq(Pcb)], NEW c \in Pcb, NEW k \in [Pcb -> Seq(Pcb)],
         NEW D \in SUBSET Pcb, NEW cl, Visited(o, c, k, D, cl), k[Head(cl)] = <<>>, Tail(cl) # <<>>
  PROVE  Head(cl) # c /\ Visited(o, c, k, With(D, Head(cl)), Tail(cl))
<1> DEFINE K == Descendants(o, c)  p == Head(cl)  dl == Tail(cl)  E == D \cup {p}
<1>1. /\ cl \in Seq(Pcb) /\ IsInjective(cl) /\ cl # <<>> /\ cl[Len(cl)] = c
      /\ D \subseteq K /\ Range(cl) \subseteq K \ D
      /\ \A q \in Pcb \ K : k[q] = o[q]
      /\ \A q \in Pcb : Range(k[q]) \subseteq Range(o[q])
      /\ \A q \in D : k[q] = <<>>
      /\ \A y \in K : Range(k[y]) \cap (D \cup Range(cl)) = {}
      /\ \A T \in SUBSET Pcb : Range(cl) \subseteq T /\ ChildClosed(k, T) => K \ D \subseteq T
  BY DEF Visited
<1> HIDE DEF K
<1>2. /\ p \in Pcb /\ p \in Range(cl) /\ dl \in Seq(Pcb) /\ IsInjective(dl)
      /\ Range(dl) = Range(cl) \ {p}
  BY <1>1, RangeTail
<1>3. dl # <<>> /\ dl[Len(dl)] = c /\ p # c
  BY <1>1, LastOf
<1> HIDE DEF p, dl
<1>4. k[p] = <<>>
  BY DEF p
<1>5. ASSUME NEW T \in SUBSET Pcb, Range(dl) \subseteq T, ChildClosed(k, T)
      PROVE  K \ E \subseteq T
  <2>1. Range(cl) \subseteq T \cup {p} /\ T \cup {p} \in SUBSET Pcb
    BY <1>2, <1>5
  <2>2. ChildClosed(k, T \cup {p})
    BY <1>4, <1>5, EmptyQueue DEF ChildClosed
  <2>3. K \ D \subseteq T \cup {p}
    BY <1>1, <2>1, <2>2
  <2> QED
    BY <2>3
<1>6. E \subseteq K /\ Range(dl) \subseteq K \ E /\ E \cup Range(dl) = D \cup Range(cl)
  <2>1. p \in K /\ p \notin D
    BY <1>1, <1>2
  <2>2. Range(dl) \cap E = {}
    BY <1>1, <1>2
  <2>3. E \subseteq K
    BY <1>1, <2>1
  <2>4. Range(dl) \subseteq K \ E
    BY <1>1, <1>2, <2>2
  <2>5. E \cup Range(dl) = D \cup Range(cl)
    BY <1>2
  <2> QED
    BY <2>3, <2>4, <2>5
<1>7. \A q \in E : k[q] = <<>>
  BY <1>1, <1>4
<1> HIDE DEF E
<1>8. Visited(o, c, k, E, dl)
  BY <1>1, <1>2, <1>3, <1>5, <1>6, <1>7 DEF Visited, K
<1> QED
  BY <1>3, <1>8 DEF p, dl, E, With

\* The first call is at its end.
IsLast(k, cl) == k[Head(cl)] = <<>> /\ Tail(cl) = <<>>

\* Only c is left to be visited.
AllVisited(o, c, D) == Descendants(o, c) = With(D, c)

(* When the first call is at its end, all other descendants of c are done. *)
LEMMA VisitEnds ==
  ASSUME NEW o \in [Pcb -> Seq(Pcb)], NEW c \in Pcb, NEW k \in [Pcb -> Seq(Pcb)],
         NEW D \in SUBSET Pcb, NEW cl, Visited(o, c, k, D, cl), IsLast(k, cl)
  PROVE  Head(cl) = c /\ c \notin D /\ AllVisited(o, c, D)
<1>1. /\ cl \in Seq(Pcb) /\ IsInjective(cl) /\ cl # <<>> /\ cl[Len(cl)] = c
      /\ D \subseteq Descendants(o, c) /\ Range(cl) \subseteq Descendants(o, c) \ D
      /\ \A T \in SUBSET Pcb : Range(cl) \subseteq T /\ ChildClosed(k, T)
                                 => Descendants(o, c) \ D \subseteq T
  BY DEF Visited
<1>2. Head(cl) = c /\ Range(cl) = {c}
  BY <1>1, LastOf DEF IsLast
<1>3. ChildClosed(k, {c}) /\ {c} \in SUBSET Pcb
  BY <1>2, EmptyQueue DEF ChildClosed, IsLast
<1>4. Descendants(o, c) \ D \subseteq {c}
  BY <1>1, <1>2, <1>3
<1> QED
  BY <1>1, <1>2, <1>4 DEF With, AllVisited

------------------------------------------------------------------------------
(* One round of killEverything.                                             *)

(* Globals with changed fields are globals. *)
LEMMA MakesGlobals ==
  ASSUME NEW m, DOMAIN m = AslLocations, NEW c, NEW v \in [SemAdd -> Int], NEW n \in Int,
         NEW b \in Int, NEW x \in BOOLEAN, NEW y \in {"run", "wait"},
         NEW k, k = [mem |-> m, current |-> c, sem |-> v, count |-> n, soft |-> b,
                     missed |-> x, mode |-> y]
  PROVE  /\ IsGlobals(k) /\ k.mem = m /\ k.current = c /\ k.sem = v /\ k.count = n
         /\ k.soft = b /\ k.missed = x /\ k.mode = y
BY DEF IsGlobals

(* outBlocked leaves the locations there are. *)
LEMMA OutBlockedDomain ==
  ASSUME NEW m, NEW p
  PROVE  DOMAIN outBlocked(m, p).mem = DOMAIN m
<1>1. ASSUME NEW x, NEW found PROVE DOMAIN UnlinkedIfEmpty(x, found) = DOMAIN x
  BY DEF UnlinkedIfEmpty, freeSemd
<1>2. ASSUME NEW r, NEW found PROVE DOMAIN Taken(r, found).mem = DOMAIN r.mem
  BY <1>1 DEF Taken, Returns
<1>3. \A tp : DOMAIN outProcQ(m, tp, p).mem = DOMAIN m
  BY PcbDomains
<1>4. Returns(m, NULL).mem = m
  BY DEF Returns
<1> QED
  BY <1>2, <1>3, <1>4 DEF outBlocked

\* The memory, the counters and the semaphores after the unlinking of p.
MemWithout(g, p) ==
    IF g.mem[p_semAdd(p)] # NULL THEN outBlocked(g.mem, p).mem
    ELSE IF p = g.current THEN outChild(g.mem, p).mem
    ELSE outProcQ(g.mem, readyQ, p).mem

\* Whether that unlinking misses.
MissesOf(g, p) ==
    LET s == g.mem[p_semAdd(p)]
        n == MemWithout(g, p)
    IN  IF s # NULL THEN Misses(QueuesIn(g.mem)[s], QueuesIn(n)[s], p)
        ELSE IF p = g.current THEN outChild(g.mem, p).ptr = Undefined
        ELSE Misses(QueueAt(g.mem, readyQ), QueueAt(n, readyQ), p)

\* softBlockCount after it.
SoftAfter(g, p) ==
    IF g.mem[p_semAdd(p)] # NULL /\ g.mem[p_semAdd(p)] \in semd THEN g.soft - 1 ELSE g.soft

\* The semaphores after it.
SemAfter(g, p) ==
    IF g.mem[p_semAdd(p)] # NULL /\ g.mem[p_semAdd(p)] \notin semd
    THEN [g.sem EXCEPT ![g.mem[p_semAdd(p)]] = @ + 1] ELSE g.sem

(* What Ended does to the globals, field by field. *)
LEMMA EndedIs ==
  ASSUME NEW g, IsGlobals(g), NEW p
  PROVE  LET e == Ended(g, p) IN
         /\ IsGlobals(e)
         /\ e.mem = freePcb(MemWithout(g, p), p) /\ e.current = g.current
         /\ e.sem = SemAfter(g, p) /\ e.count = g.count - 1 /\ e.soft = SoftAfter(g, p)
         /\ e.missed = (g.missed \/ MissesOf(g, p)) /\ e.mode = g.mode
<1> DEFINE s == g.mem[p_semAdd(p)]  n == MemWithout(g, p)  x == g.missed \/ MissesOf(g, p)
           u == Unlink(g, p)  e == Ended(g, p)  v == SemAfter(g, p)  b == SoftAfter(g, p)
<1>1. /\ g = [mem |-> g.mem, current |-> g.current, sem |-> g.sem, count |-> g.count,
              soft |-> g.soft, missed |-> g.missed, mode |-> g.mode]
      /\ DOMAIN g.mem = AslLocations
      /\ g.sem \in [SemAdd -> Int]
      /\ g.count \in Int /\ g.soft \in Int
      /\ g.missed \in BOOLEAN /\ g.mode \in {"run", "wait"}
  BY DEF IsGlobals
<1>2. v \in [SemAdd -> Int] /\ b \in Int /\ x \in BOOLEAN
  <2>1. [g.sem EXCEPT ![s] = @ + 1] \in [SemAdd -> Int]
    <3>1. CASE s \in SemAdd
      BY <1>1, <3>1
    <3>2. CASE s \notin SemAdd
      BY <1>1, <3>2
    <3> QED
      BY <3>1, <3>2
  <2> QED
    BY <1>1, <2>1 DEF SemAfter, SoftAfter
<1>3. DOMAIN n = AslLocations
  <2>1. /\ DOMAIN outBlocked(g.mem, p).mem = DOMAIN g.mem
        /\ DOMAIN outChild(g.mem, p).mem = DOMAIN g.mem
        /\ DOMAIN outProcQ(g.mem, readyQ, p).mem = DOMAIN g.mem
    <3>1. DOMAIN outChild(g.mem, p).mem = DOMAIN g.mem
      BY PcbDomains
    <3>2. DOMAIN outProcQ(g.mem, readyQ, p).mem = DOMAIN g.mem
      <4>1. ASSUME NEW m, NEW tp PROVE DOMAIN outProcQ(m, tp, p).mem = DOMAIN m
        BY PcbDomains
      <4> QED
        BY <4>1
    <3> QED
      BY <3>1, <3>2, OutBlockedDomain
  <2> QED
    BY <1>1, <2>1 DEF MemWithout
<1>4. u = [mem |-> n, current |-> g.current, sem |-> v, count |-> g.count, soft |-> b,
           missed |-> x, mode |-> g.mode]
  <2>1. CASE s # NULL /\ s \in semd
    <3>1. GiveBack(g, s) = [mem |-> g.mem, current |-> g.current, sem |-> g.sem,
                            count |-> g.count, soft |-> g.soft - 1, missed |-> g.missed,
                            mode |-> g.mode]
      BY <1>1, <2>1 DEF GiveBack
    <3>2. n = outBlocked(g.mem, p).mem /\ b = g.soft - 1 /\ v = g.sem
          /\ MissesOf(g, p) = Misses(QueuesIn(g.mem)[s], QueuesIn(n)[s], p)
      BY <2>1 DEF MemWithout, SoftAfter, SemAfter, MissesOf
    <3> DEFINE a == GiveBack(g, s)  y == MissesOf(g, p)
    <3>3. u = [a EXCEPT !.mem = n, !.missed = @ \/ y]
      BY <2>1, <3>2 DEF Unlink
    <3> HIDE DEF u, n, v, b, a, y
    <3>4. a.missed = g.missed
      BY <3>1 DEF a
    <3> DEFINE z == [a EXCEPT !.mem = n]  t == g.missed \/ y
    <3>5. u = [z EXCEPT !.missed = t]
      BY <3>3, <3>4
    <3>6. z = [mem |-> n, current |-> g.current, sem |-> v, count |-> g.count, soft |-> b,
               missed |-> g.missed, mode |-> g.mode]
      BY <3>1, <3>2 DEF a
    <3> HIDE DEF z, t
    <3>7. u = [mem |-> n, current |-> g.current, sem |-> v, count |-> g.count, soft |-> b,
               missed |-> t, mode |-> g.mode]
      BY <3>5, <3>6
    <3> QED
      BY <3>7 DEF t, y
  <2>2. CASE s # NULL /\ s \notin semd
    <3>1. GiveBack(g, s) = [mem |-> g.mem, current |-> g.current,
                            sem |-> [g.sem EXCEPT ![s] = @ + 1],
                            count |-> g.count, soft |-> g.soft, missed |-> g.missed,
                            mode |-> g.mode]
      BY <1>1, <2>2 DEF GiveBack
    <3>2. n = outBlocked(g.mem, p).mem /\ b = g.soft /\ v = [g.sem EXCEPT ![s] = @ + 1]
          /\ MissesOf(g, p) = Misses(QueuesIn(g.mem)[s], QueuesIn(n)[s], p)
      BY <2>2 DEF MemWithout, SoftAfter, SemAfter, MissesOf
    <3> DEFINE a == GiveBack(g, s)  y == MissesOf(g, p)
    <3>3. u = [a EXCEPT !.mem = n, !.missed = @ \/ y]
      BY <2>2, <3>2 DEF Unlink
    <3> HIDE DEF u, n, v, b, a, y
    <3>4. a.missed = g.missed
      BY <3>1 DEF a
    <3> DEFINE z == [a EXCEPT !.mem = n]  t == g.missed \/ y
    <3>5. u = [z EXCEPT !.missed = t]
      BY <3>3, <3>4
    <3>6. z = [mem |-> n, current |-> g.current, sem |-> v, count |-> g.count, soft |-> b,
               missed |-> g.missed, mode |-> g.mode]
      BY <3>1, <3>2 DEF a
    <3> HIDE DEF z, t
    <3>7. u = [mem |-> n, current |-> g.current, sem |-> v, count |-> g.count, soft |-> b,
               missed |-> t, mode |-> g.mode]
      BY <3>5, <3>6
    <3> QED
      BY <3>7 DEF t, y
  <2>3. CASE s = NULL /\ p = g.current
    <3>1. n = outChild(g.mem, p).mem /\ b = g.soft /\ v = g.sem
          /\ MissesOf(g, p) = (outChild(g.mem, p).ptr = Undefined)
      BY <2>3 DEF MemWithout, SoftAfter, SemAfter, MissesOf
    <3>2. u = [g EXCEPT !.mem = n, !.missed = @ \/ outChild(g.mem, p).ptr = Undefined]
      BY <2>3, <3>1 DEF Unlink
    <3> HIDE DEF u, n, v, b
    <3> QED
      BY <1>1, <3>1, <3>2
  <2>4. CASE s = NULL /\ p # g.current
    <3>1. n = outProcQ(g.mem, readyQ, p).mem /\ b = g.soft /\ v = g.sem
          /\ MissesOf(g, p) = Misses(QueueAt(g.mem, readyQ), QueueAt(n, readyQ), p)
      BY <2>4 DEF MemWithout, SoftAfter, SemAfter, MissesOf
    <3>2. u = [g EXCEPT !.mem = n,
                        !.missed = @ \/ Misses(QueueAt(g.mem, readyQ), QueueAt(n, readyQ), p)]
      BY <2>4, <3>1 DEF Unlink
    <3> HIDE DEF u, n, v, b
    <3> QED
      BY <1>1, <3>1, <3>2
  <2> QED
    BY <2>1, <2>2, <2>3, <2>4
<1>5. e = [u EXCEPT !.mem = freePcb(u.mem, p), !.count = @ - 1]
  BY DEF Ended
<1> HIDE DEF u, n, v, b, x, e
<1>6. e = [mem |-> freePcb(n, p), current |-> g.current, sem |-> v, count |-> g.count - 1,
           soft |-> b, missed |-> x, mode |-> g.mode]
  BY <1>4, <1>5
<1>7. DOMAIN freePcb(n, p) = AslLocations /\ g.count - 1 \in Int
  <2>1. DOMAIN freePcb(n, p) = DOMAIN n
    BY PcbDomains
  <2> QED
    BY <1>1, <1>3, <2>1
<1>8. /\ IsGlobals(e) /\ e.mem = freePcb(n, p) /\ e.current = g.current /\ e.sem = v
      /\ e.count = g.count - 1 /\ e.soft = b /\ e.missed = x /\ e.mode = g.mode
  BY <1>1, <1>2, <1>6, <1>7, MakesGlobals
<1> QED
  BY <1>8 DEF n, v, b, x, e

(* A process without children ends as the outermost call of killEverything. *)
LEMMA EndsAlone ==
  ASSUME NEW g, IsGlobals(g), g.mem[p_semAdd(g.current)] = NULL
  PROVE  EndAlone(g) = [Ended(g, g.current) EXCEPT !.current = NULL]
<1> DEFINE p == g.current  o == outChild(g.mem, p)  u == Unlink(g, p)
<1>1. g = [mem |-> g.mem, current |-> g.current, sem |-> g.sem, count |-> g.count,
           soft |-> g.soft, missed |-> g.missed, mode |-> g.mode]
  BY DEF IsGlobals
<1>2. u = [g EXCEPT !.mem = o.mem, !.missed = @ \/ o.ptr = Undefined]
  BY DEF Unlink
<1>3. Ended(g, p) = [u EXCEPT !.mem = freePcb(u.mem, p), !.count = @ - 1]
  BY DEF Ended
<1>4. EndAlone(g) = [g EXCEPT !.mem = freePcb(o.mem, p), !.count = @ - 1,
                              !.current = NULL, !.missed = @ \/ o.ptr = Undefined]
  BY DEF EndAlone
<1> HIDE DEF u, o
<1>5. u = [mem |-> o.mem, current |-> g.current, sem |-> g.sem, count |-> g.count,
           soft |-> g.soft, missed |-> g.missed \/ o.ptr = Undefined, mode |-> g.mode]
  BY <1>1, <1>2
<1>6. Ended(g, p) = [mem |-> freePcb(o.mem, p), current |-> g.current, sem |-> g.sem,
                     count |-> g.count - 1, soft |-> g.soft,
                     missed |-> g.missed \/ o.ptr = Undefined, mode |-> g.mode]
  BY <1>3, <1>5
<1>7. EndAlone(g) = [mem |-> freePcb(o.mem, p), current |-> NULL, sem |-> g.sem,
                     count |-> g.count - 1, soft |-> g.soft,
                     missed |-> g.missed \/ o.ptr = Undefined, mode |-> g.mode]
  BY <1>1, <1>4
<1> QED
  BY <1>6, <1>7

------------------------------------------------------------------------------
(* What the victims leave.                                                  *)

\* The queues w without the blocks of D.
Less(w, D) == [s \in SemAdd |-> Without(w[s], D)]

\* The blocks that wait on a semaphore of semd.
Soft(w) == UNION {Range(w[s]) : s \in semd}

\* The semaphores give back what they took from the waiters in D.
SemLess(v, w, D) ==
    [s \in SemAdd |-> IF s \in Mutex THEN v[s] + Cardinality(Range(w[s]) \cap D) ELSE v[s]]

\* The queue of s without p; what p has taken from s is given back.
Drop(w, s, p) == [w EXCEPT ![s] = Without(@, {p})]

\* The semaphore s gets back what one waiter took.
Returned(v, s) == IF s \in semd THEN v ELSE [v EXCEPT ![s] = @ + 1]

(* Counting the members of A in D, and with p as well. *)
LEMMA OneMore ==
  ASSUME NEW A, IsFiniteSet(A), NEW D, NEW p, p \notin D
  PROVE  /\ Cardinality(A \cap D) \in Nat
         /\ p \in A => Cardinality(A \cap With(D, p)) = Cardinality(A \cap D) + 1
         /\ p \notin A => A \cap With(D, p) = A \cap D
<1>1. IsFiniteSet(A \cap D) /\ p \notin A \cap D
  BY FS_Subset
<1>2. p \in A => A \cap With(D, p) = (A \cap D) \cup {p}
  BY DEF With
<1>3. Cardinality((A \cap D) \cup {p}) = Cardinality(A \cap D) + 1
  BY <1>1, FS_AddElement
<1> QED
  BY <1>1, <1>2, <1>3, FS_CardinalityType DEF With

(* A queue that p is not on is the same without p. *)
LEMMA WithoutStranger ==
  ASSUME NEW S, NEW D, NEW p, NEW q \in Seq(S), IsInjective(q), p \notin Range(q)
  PROVE  Without(q, With(D, p)) = Without(q, D)
<1>1. Without(q, With(D, p)) = Without(Without(q, D), {p})
  BY WithoutTwice DEF With
<1>2. Without(q, D) \in Seq(S) /\ IsInjective(Without(q, D)) /\ Range(Without(q, D)) = Range(q) \ D
  BY WithoutMembers
<1>3. Range(Without(q, D)) \cap {p} = {}
  BY <1>2
<1>4. Without(Without(q, D), {p}) = Without(q, D)
  BY <1>2, <1>3, WithoutNone
<1> QED
  BY <1>1, <1>4

(* The queues without D are queues. *)
LEMMA LessIs ==
  ASSUME NEW w \in [SemAdd -> Seq(Pcb)], \A s \in SemAdd : IsInjective(w[s]), NEW D
  PROVE  /\ Less(w, D) \in [SemAdd -> Seq(Pcb)]
         /\ \A s \in SemAdd : /\ Less(w, D)[s] = Without(w[s], D)
                              /\ Range(Less(w, D)[s]) = Range(w[s]) \ D
                              /\ IsInjective(Less(w, D)[s])
         /\ Waiting(Less(w, D)) = Waiting(w) \ D
<1>1. \A s \in SemAdd : /\ Without(w[s], D) \in Seq(Pcb)
                        /\ Range(Without(w[s], D)) = Range(w[s]) \ D
                        /\ IsInjective(Without(w[s], D))
  BY WithoutMembers
<1>2. Less(w, D) \in [SemAdd -> Seq(Pcb)] /\ \A s \in SemAdd : Less(w, D)[s] = Without(w[s], D)
  BY <1>1 DEF Less
<1>3. \A s \in SemAdd : Range(Less(w, D)[s]) = Range(w[s]) \ D
  BY <1>1, <1>2
<1>4. Waiting(Less(w, D)) = Waiting(w) \ D
  BY <1>3 DEF Waiting
<1> QED
  BY <1>1, <1>2, <1>3, <1>4

(* The queue of s without D and p, from that without D. *)
LEMMA LessEach ==
  ASSUME NEW w \in [SemAdd -> Seq(Pcb)], \A s \in SemAdd : IsInjective(w[s]),
         NEW D \in SUBSET Pcb, NEW p \in Pcb,
         NEW s \in SemAdd
  PROVE  /\ Less(w, With(D, p))[s] = Without(Less(w, D)[s], {p})
         /\ p \notin Range(w[s]) => Less(w, With(D, p))[s] = Less(w, D)[s]
<1> DEFINE q == w[s]
<1>1. q \in Seq(Pcb) /\ IsInjective(q)
  OBVIOUS
<1>2. Less(w, With(D, p))[s] = Without(q, With(D, p)) /\ Less(w, D)[s] = Without(q, D)
  BY DEF Less
<1> HIDE DEF q
<1>3. Without(q, With(D, p)) = Without(Without(q, D), {p})
  BY <1>1, WithoutTwice DEF With
<1>4. p \notin Range(q) => Without(q, With(D, p)) = Without(q, D)
  BY <1>1, WithoutStranger
<1> QED
  BY <1>2, <1>3, <1>4 DEF q

(* Without a block that waits nowhere the queues are the same. *)
LEMMA LessStranger ==
  ASSUME NEW w \in [SemAdd -> Seq(Pcb)], \A s \in SemAdd : IsInjective(w[s]),
         NEW D \in SUBSET Pcb, NEW p \in Pcb,
         p \notin Waiting(w)
  PROVE  Less(w, With(D, p)) = Less(w, D)
<1>1. \A s \in SemAdd : p \notin Range(w[s])
  BY DEF Waiting
<1>2. \A s \in SemAdd : Less(w, With(D, p))[s] = Less(w, D)[s]
  BY <1>1, LessEach
<1>3. Less(w, With(D, p)) \in [SemAdd -> Seq(Pcb)] /\ Less(w, D) \in [SemAdd -> Seq(Pcb)]
  BY LessIs
<1> QED
  BY <1>2, <1>3

(* Without a block that waits on s the queue of s changes. *)
LEMMA LessOne ==
  ASSUME NEW w \in [SemAdd -> Seq(Pcb)], \A s \in SemAdd : IsInjective(w[s]),
         NEW D \in SUBSET Pcb, NEW p \in Pcb,
         NEW s \in SemAdd, \A t \in SemAdd : p \in Range(w[t]) => t = s
  PROVE  Less(w, With(D, p)) = Drop(Less(w, D), s, p)
<1> DEFINE v == Less(w, D)  u == Less(w, With(D, p))  x == [v EXCEPT ![s] = Without(@, {p})]
<1>1. v \in [SemAdd -> Seq(Pcb)] /\ u \in [SemAdd -> Seq(Pcb)]
  BY LessIs
<1>2. u[s] = Without(v[s], {p})
  BY LessEach
<1>3. \A t \in SemAdd : t # s => u[t] = v[t]
  BY LessEach
<1> HIDE DEF u, v
<1>4. DOMAIN x = SemAdd /\ x = [t \in SemAdd |-> x[t]]
      /\ \A t \in SemAdd : x[t] = IF t = s THEN Without(v[s], {p}) ELSE v[t]
  BY <1>1
<1>5. \A t \in SemAdd : u[t] = x[t]
  <2> HIDE DEF x
  <2> QED
    BY <1>2, <1>3, <1>4
<1>6. u = x
  <2> HIDE DEF x
  <2> QED
    BY <1>1, <1>4, <1>5
<1> QED
  BY <1>6 DEF u, v, Drop

(* One that waits nowhere gives nothing back. *)
LEMMA SemLessStranger ==
  ASSUME NEW w \in [SemAdd -> Seq(Pcb)],
         NEW v \in [SemAdd -> Int], NEW D \in SUBSET Pcb, NEW p \in Pcb,
         p \notin Waiting(w)
  PROVE  SemLess(v, w, With(D, p)) = SemLess(v, w, D)
<1>1. \A s \in SemAdd : p \notin Range(w[s])
  BY DEF Waiting
<1>2. ASSUME NEW s \in SemAdd PROVE SemLess(v, w, With(D, p))[s] = SemLess(v, w, D)[s]
  <2>1. p \notin Range(w[s])
    BY <1>1
  <2>2. Range(w[s]) \cap With(D, p) = Range(w[s]) \cap D
    BY <2>1 DEF With
  <2> QED
    BY <2>2 DEF SemLess
<1> DEFINE x == SemLess(v, w, D)  y == SemLess(v, w, With(D, p))
<1>3. x = [s \in SemAdd |-> x[s]] /\ y = [s \in SemAdd |-> y[s]]
  BY DEF SemLess
<1> HIDE DEF x, y
<1>4. \A s \in SemAdd : x[s] = y[s]
  BY <1>2 DEF x, y
<1>5. x = y
  BY <1>3, <1>4
<1> QED
  BY <1>5 DEF x, y

\* p, not in D, waits on s and on nothing else.
WaitsAt(w, v, D, p, s) ==
    /\ w \in [SemAdd -> Seq(Pcb)] /\ \A t \in SemAdd : IsInjective(w[t])
    /\ v \in [SemAdd -> Int] /\ D \in SUBSET Pcb /\ p \in Pcb /\ p \notin D
    /\ s \in SemAdd /\ p \in Range(w[s]) /\ \A t \in SemAdd : p \in Range(w[t]) => t = s

(* One that waits on s gives back what it has taken from s. *)
LEMMA SemLessOne ==
  ASSUME NEW w, NEW v, NEW D, NEW p, NEW s, WaitsAt(w, v, D, p, s)
  PROVE  SemLess(v, w, With(D, p)) = Returned(SemLess(v, w, D), s)
<1> USE DEF WaitsAt
<1> DEFINE x == SemLess(v, w, D)  y == SemLess(v, w, With(D, p))
<1>1. s \in semd <=> s \notin Mutex
  BY NucleusAssumption DEF semd
<1>2. x = [t \in SemAdd |-> x[t]] /\ y = [t \in SemAdd |-> y[t]] /\ DOMAIN x = SemAdd
  BY DEF SemLess
<1>3. ASSUME NEW t \in SemAdd, t \notin Mutex PROVE y[t] = x[t]
  BY <1>3 DEF SemLess
<1>4. ASSUME NEW t \in SemAdd, t # s PROVE y[t] = x[t]
  <2>1. p \notin Range(w[t])
    BY <1>4
  <2>2. Range(w[t]) \cap With(D, p) = Range(w[t]) \cap D
    BY <2>1 DEF With
  <2> QED
    BY <2>2 DEF SemLess
<1>5. s \in Mutex => y[s] = x[s] + 1
  <2> HAVE s \in Mutex
  <2> DEFINE n == Cardinality(Range(w[s]) \cap D)
             l == Cardinality(Range(w[s]) \cap With(D, p))
  <2>1. n \in Nat /\ l = n + 1
    <3>1. IsFiniteSet(Range(w[s]))
      BY InjectiveLen
    <3> QED
      BY <3>1, OneMore
  <2>2. x[s] = v[s] + n /\ y[s] = v[s] + l /\ v[s] \in Int
    BY DEF SemLess
  <2> HIDE DEF n, l, x, y
  <2> QED
    BY <2>1, <2>2
<1> HIDE DEF x, y
<1>6. CASE s \in semd
  <2>1. \A t \in SemAdd : y[t] = x[t]
    BY <1>1, <1>3, <1>4, <1>6
  <2>2. y = x
    BY <1>2, <2>1
  <2> QED
    BY <1>6, <2>2 DEF x, y, Returned
<1>7. CASE s \notin semd
  <2> DEFINE z == [x EXCEPT ![s] = @ + 1]
  <2>1. z = [t \in SemAdd |-> z[t]] /\ \A t \in SemAdd : z[t] = IF t = s THEN x[s] + 1 ELSE x[t]
    BY <1>2
  <2> HIDE DEF z
  <2>2. \A t \in SemAdd : y[t] = z[t]
    BY <1>1, <1>4, <1>5, <1>7, <2>1
  <2>3. y = z
    BY <1>2, <2>1, <2>2
  <2> QED
    BY <1>7, <2>3 DEF x, y, z, Returned
<1> QED
  BY <1>6, <1>7

------------------------------------------------------------------------------
(* The bookkeeping of a kill.                                               *)

\* The lists a, the process c that ends, the semaphores and the counters when
\* killEverything(c) begins.
Doomed(a, c, v, n, b) ==
    /\ a.ready \in Seq(Pcb) /\ IsInjective(a.ready)
    /\ a.kids \in [Pcb -> Seq(Pcb)]
    /\ a.waits \in [SemAdd -> Seq(Pcb)] /\ \A s \in SemAdd : IsInjective(a.waits[s])
    /\ \A s, t \in SemAdd : s # t => Range(a.waits[s]) \cap Range(a.waits[t]) = {}
    /\ Range(a.ready) \cap Waiting(a.waits) = {}
    /\ c \in Pcb /\ c \notin Range(a.ready) /\ c \notin Waiting(a.waits)
    /\ Descendants(a.kids, c) \subseteq Pcb \ a.free
    /\ Pcb \ a.free \subseteq {c} \cup Range(a.ready) \cup Waiting(a.waits)
    /\ \A y \in Descendants(a.kids, c) : c \notin Range(a.kids[y])
    /\ c = RootPcb \/ \E q \in Pcb : c \in Range(a.kids[q])
    /\ v \in [SemAdd -> Int] /\ n \in Int /\ b \in Int

\* No block of D is first on a queue.
HeadsAreNot(a, D) ==
    /\ a.ready # <<>> => Head(a.ready) \notin D
    /\ \A s \in SemAdd : a.waits[s] # <<>> => Head(a.waits[s]) \notin D

\* The globals g when the blocks of D are unlinked and freed.
Books(g, a, c, v, n, b, f, k, D) ==
    /\ IsGlobals(g) /\ g.missed = FALSE /\ g.current = c /\ g.mode = "run"
    /\ Holds(g.mem, f, Without(a.ready, D), k, Less(a.waits, D))
    /\ Range(f) = a.free \cup D
    /\ g.count = n - Cardinality(D)
    /\ g.soft = b - Cardinality(Soft(a.waits) \cap D)
    /\ g.sem = SemLess(v, a.waits, D)
    /\ HeadsAreNot(a, D)

\* A victim of killEverything(c) is out of reach.
Stuck(a, c) ==
    \/ a.ready # <<>> /\ Head(a.ready) \in Descendants(a.kids, c)
    \/ \E s \in SemAdd : a.waits[s] # <<>> /\ Head(a.waits[s]) \in Descendants(a.kids, c)
    \/ IsMiddleChild(a.kids, c)

(* One block more is unlinked, counted out and freed. *)
LEMMA OneFreed ==
  ASSUME NEW a, NEW c, NEW v, NEW n, NEW b, Doomed(a, c, v, n, b),
         NEW g, NEW f, NEW k, NEW D \in SUBSET Pcb, Books(g, a, c, v, n, b, f, k, D),
         NEW p \in Pcb, p \notin D, p \notin a.free, HeadsAreNot(a, {p}),
         NEW x, NEW l,
         Holds(x, f, Without(a.ready, With(D, p)), l, Less(a.waits, With(D, p))),
         NEW e, IsGlobals(e), e.mem = freePcb(x, p), e.missed = FALSE, e.current = c,
         e.mode = "run", e.count = g.count - 1,
         e.sem = SemLess(v, a.waits, With(D, p)),
         e.soft = IF p \in Soft(a.waits) THEN g.soft - 1 ELSE g.soft
  PROVE  Books(e, a, c, v, n, b, <<p>> \o f, l, With(D, p))
<1> DEFINE E == With(D, p)  r == Without(a.ready, E)  w == Less(a.waits, E)
<1>1. /\ a.ready \in Seq(Pcb) /\ IsInjective(a.ready)
      /\ a.waits \in [SemAdd -> Seq(Pcb)] /\ \A s \in SemAdd : IsInjective(a.waits[s])
      /\ n \in Int /\ b \in Int
  BY DEF Doomed
<1>2. Range(r) = Range(a.ready) \ E /\ Waiting(w) = Waiting(a.waits) \ E
  BY <1>1, WithoutMembers, LessIs
<1>3. Range(f) = a.free \cup D /\ f \in Seq(Pcb) /\ IsInjective(f)
  <2>1. Range(f) = a.free \cup D
    BY DEF Books
  <2> QED
    BY <2>1 DEF Holds, HFree
<1>4. Loose(f, r, w, {p})
  BY <1>2, <1>3 DEF Loose, E, With
<1> HIDE DEF r, w, E
<1>5. Holds(e.mem, <<p>> \o f, r, l, w)
  BY <1>4, FreeOp DEF r, w, E
<1>6. Range(<<p>> \o f) = a.free \cup E
  BY <1>3, PrependMembers DEF E, With
<1>7. IsFiniteSet(D) /\ Cardinality(E) = Cardinality(D) + 1 /\ Cardinality(D) \in Nat
  <2>1. IsFiniteSet(D)
    BY BlockAssumption, FS_Subset
  <2> QED
    BY <2>1, FS_AddElement, FS_CardinalityType DEF E, With
<1>8. e.count = n - Cardinality(E)
  <2>1. g.count = n - Cardinality(D)
    BY DEF Books
  <2> QED
    BY <1>1, <1>7, <2>1
<1>9. e.soft = b - Cardinality(Soft(a.waits) \cap E)
  <2>1. g.soft = b - Cardinality(Soft(a.waits) \cap D)
    BY DEF Books
  <2>2. IsFiniteSet(Soft(a.waits))
    <3>1. \A s \in SemAdd : Range(a.waits[s]) \subseteq Pcb
      BY <1>1, RangeOf
    <3>2. semd \subseteq SemAdd
      BY NucleusAssumption DEF semd
    <3>3. Soft(a.waits) \in SUBSET Pcb
      BY <3>1, <3>2 DEF Soft
    <3> QED
      BY <3>3, BlockAssumption, FS_Subset
  <2>3. /\ Cardinality(Soft(a.waits) \cap D) \in Nat
        /\ p \in Soft(a.waits) => Cardinality(Soft(a.waits) \cap E)
                                    = Cardinality(Soft(a.waits) \cap D) + 1
        /\ p \notin Soft(a.waits) => Soft(a.waits) \cap E = Soft(a.waits) \cap D
    BY <2>2, OneMore DEF E
  <2> DEFINE i == Cardinality(Soft(a.waits) \cap D)  j == Cardinality(Soft(a.waits) \cap E)
  <2>4. i \in Nat /\ j = (IF p \in Soft(a.waits) THEN i + 1 ELSE i) /\ g.soft = b - i
    BY <2>1, <2>3
  <2> HIDE DEF i, j
  <2>5. e.soft = b - j
    BY <1>1, <2>4
  <2> QED
    BY <2>5 DEF j
<1>10. HeadsAreNot(a, E)
  <2>1. HeadsAreNot(a, D)
    BY DEF Books
  <2> QED
    BY <2>1 DEF HeadsAreNot, E, With
<1> QED
  BY <1>5, <1>6, <1>8, <1>9, <1>10 DEF Books, r, w, E

\* Ended(g, p) has missed a block out of reach, or freed one block more.
Unlinks(g, a, c, v, n, b, f, k, D, p) ==
    /\ Ended(g, p).missed = TRUE => Stuck(a, c)
    /\ Ended(g, p).missed = FALSE =>
          /\ Books(Ended(g, p), a, c, v, n, b, <<p>> \o f,
                   IF p = c THEN Orphaned(k, c) ELSE k, With(D, p))
          /\ p = c => ~ IsMiddleChild(a.kids, c)

(* A round that unlinks a block that waits. *)
LEMMA UnlinksWaiting ==
  ASSUME NEW a, NEW c, NEW v, NEW n, NEW b, Doomed(a, c, v, n, b),
         NEW g, NEW f, NEW k, NEW D \in SUBSET Pcb, Books(g, a, c, v, n, b, f, k, D),
         NEW p \in Descendants(a.kids, c), p \notin D, p \in Waiting(a.waits)
  PROVE  Unlinks(g, a, c, v, n, b, f, k, D, p)
<1> DEFINE m == g.mem  q == a.ready  w == a.waits  K == Descendants(a.kids, c)
           r == Without(q, D)  u == Less(w, D)  e == Ended(g, p)
<1>1. /\ q \in Seq(Pcb) /\ IsInjective(q)
      /\ w \in [SemAdd -> Seq(Pcb)] /\ \A s \in SemAdd : IsInjective(w[s])
      /\ \A s, t \in SemAdd : s # t => Range(w[s]) \cap Range(w[t]) = {}
      /\ Range(q) \cap Waiting(w) = {}
      /\ c \notin Waiting(w) /\ K \subseteq Pcb \ a.free
      /\ v \in [SemAdd -> Int]
  BY DEF Doomed
<1>2. /\ IsGlobals(g) /\ g.missed = FALSE /\ g.current = c /\ g.mode = "run"
      /\ Holds(m, f, r, k, u) /\ g.sem = SemLess(v, w, D) /\ HeadsAreNot(a, D)
  BY DEF Books
<1>3. p # c /\ p \in Pcb /\ p \notin a.free /\ p \notin Range(q)
  BY <1>1
<1>4. PICK s \in SemAdd : p \in Range(w[s])
  BY DEF Waiting
<1>5. \A t \in SemAdd : p \in Range(w[t]) => t = s
  BY <1>1, <1>4
<1>6. /\ u[s] = Without(w[s], D) /\ p \in Range(u[s]) /\ u \in [SemAdd -> Seq(Pcb)]
      /\ u[s] \in Seq(Pcb)
  BY <1>1, <1>4, LessIs
<1> HIDE DEF r, u
<1>7. m[p_semAdd(p)] = s
  BY <1>2, <1>6, WaitsOnce
<1>8. s # NULL
  BY AddressAssumption
<1>9. QueuesIn(m) = u
  BY <1>2 DEF Holds, HWaits
<1> DEFINE x == outBlocked(m, p).mem
<1>10. /\ MemWithout(g, p) = x
       /\ MissesOf(g, p) <=> QueuesIn(x)[s] # Without(u[s], {p})
       /\ SemAfter(g, p) = IF s \in semd THEN g.sem ELSE [g.sem EXCEPT ![s] = @ + 1]
       /\ SoftAfter(g, p) = IF s \in semd THEN g.soft - 1 ELSE g.soft
  BY <1>7, <1>8, <1>9 DEF MemWithout, MissesOf, Misses, SemAfter, SoftAfter
<1>11. /\ IsGlobals(e) /\ e.mem = freePcb(x, p) /\ e.current = c
       /\ e.sem = (IF s \in semd THEN g.sem ELSE [g.sem EXCEPT ![s] = @ + 1])
       /\ e.count = g.count - 1 /\ e.soft = (IF s \in semd THEN g.soft - 1 ELSE g.soft)
       /\ e.missed = (QueuesIn(x)[s] # Without(u[s], {p})) /\ e.mode = "run"
  BY <1>2, <1>10, EndedIs
<1> HIDE DEF e
<1>12. w[s] # <<>> /\ Head(w[s]) \notin D /\ Head(u[s]) = Head(w[s])
  <2>1. w[s] # <<>>
    BY <1>1, <1>4, RangeEmpty
  <2>2. Head(w[s]) \notin D
    BY <1>2, <2>1 DEF HeadsAreNot
  <2> QED
    BY <1>1, <1>6, <2>1, <2>2, WithoutKeepsHead
<1>13. CASE Head(u[s]) = p
  <2>1. u[s] # <<>>
    BY <1>6, RangeEmpty
  <2>2. QueuesIn(x)[s] # Without(u[s], {p})
    BY <1>2, <1>13, <2>1, OutWaitHead DEF x
  <2>3. Stuck(a, c)
    BY <1>12, <1>13 DEF Stuck
  <2> QED
    BY <1>11, <2>2, <2>3 DEF Unlinks, e
<1>14. CASE Head(u[s]) # p
  <2> DEFINE y == [u EXCEPT ![s] = Without(@, {p})]
  <2>1. Holds(x, f, r, k, y) /\ QueuesIn(x)[s] = Without(u[s], {p})
    <3>1. Holds(m, f, r, k, u) /\ p \in Range(u[s]) /\ Head(u[s]) # p
      BY <1>2, <1>6, <1>14
    <3> HIDE DEF m, u, r
    <3> QED
      BY <3>1, OutWait, SMTT(30)
  <2> HIDE DEF x
  <2>2. y = Less(w, With(D, p))
    <3>1. Less(w, With(D, p)) = Drop(Less(w, D), s, p)
      <4>1. /\ w \in [SemAdd -> Seq(Pcb)] /\ \A z \in SemAdd : IsInjective(w[z])
            /\ (\A z \in SemAdd : p \in Range(w[z]) => z = s) /\ p \in Pcb
        BY <1>1, <1>3, <1>5
      <4> HIDE DEF w
      <4> QED
        BY <4>1, LessOne
    <3> QED
      BY <3>1 DEF u, Drop
  <2>3. r = Without(q, With(D, p))
    BY <1>1, <1>3, WithoutStranger DEF r
  <2>4. e.missed = FALSE
    BY <1>11, <2>1
  <2>5. e.sem = SemLess(v, w, With(D, p))
    <3>1. SemLess(v, w, With(D, p)) = Returned(SemLess(v, w, D), s)
      <4>1. WaitsAt(w, v, D, p, s)
        BY <1>1, <1>3, <1>4, <1>5 DEF WaitsAt
      <4> HIDE DEF w
      <4> QED
        BY <4>1, SemLessOne
    <3> QED
      BY <1>2, <1>11, <3>1 DEF Returned
  <2>6. e.soft = IF p \in Soft(w) THEN g.soft - 1 ELSE g.soft
    <3>1. p \in Soft(w) <=> s \in semd
      <4>1. semd \subseteq SemAdd
        BY NucleusAssumption DEF semd
      <4> QED
        BY <1>4, <1>5, <4>1 DEF Soft
    <3> QED
      BY <1>11, <3>1
  <2>7. HeadsAreNot(a, {p})
    <3>1. q # <<>> => Head(q) # p
      BY <1>1, <1>3, RangeTail
    <3>2. ASSUME NEW t \in SemAdd, w[t] # <<>> PROVE Head(w[t]) # p
      <4>1. Head(w[t]) \in Range(w[t])
        BY <1>1, <3>2, RangeTail
      <4> QED
        BY <1>5, <1>12, <1>14, <4>1
    <3> QED
      BY <3>1, <3>2 DEF HeadsAreNot
  <2>8. Books(e, a, c, v, n, b, <<p>> \o f, k, With(D, p))
    <3>1. Holds(x, f, Without(q, With(D, p)), k, Less(w, With(D, p)))
      BY <2>1, <2>2, <2>3
    <3> QED
      BY <1>3, <1>11, <2>4, <2>5, <2>6, <2>7, <3>1, OneFreed
  <2> QED
    BY <1>3, <2>4, <2>8 DEF Unlinks, e
<1> QED
  BY <1>13, <1>14

(* The dying process is where it was in the tree. *)
LEMMA StillAKid ==
  ASSUME NEW a, NEW c, NEW v, NEW n, NEW b, Doomed(a, c, v, n, b),
         NEW k \in [Pcb -> Seq(Pcb)], NEW D, NEW cl, Visited(a.kids, c, k, D, cl)
  PROVE  /\ c = RootPcb \/ \E q \in Pcb : c \in Range(k[q])
         /\ IsMiddleChild(k, c) <=> IsMiddleChild(a.kids, c)
<1> DEFINE o == a.kids  K == Descendants(o, c)
<1>1. /\ o \in [Pcb -> Seq(Pcb)] /\ c \in Pcb
      /\ \A y \in K : c \notin Range(o[y])
      /\ c = RootPcb \/ \E q \in Pcb : c \in Range(o[q])
  BY DEF Doomed
<1>2. c \in Range(cl)
  <2>1. cl \in Seq(Pcb) /\ cl # <<>> /\ cl[Len(cl)] = c
    BY DEF Visited
  <2>2. Len(cl) \in 1 .. Len(cl)
    <3>1. Len(cl) \in Nat /\ Len(cl) # 0
      BY <2>1, EmptySeq
    <3> DEFINE l == Len(cl)
    <3> HIDE DEF l
    <3>2. l \in 1 .. l
      BY <3>1 DEF l
    <3> QED
      BY <3>2 DEF l
  <2> QED
    BY <2>1, <2>2, RangeOf
<1>3. /\ \A y \in K : c \notin Range(k[y])
      /\ \A y \in Pcb \ K : k[y] = o[y]
  BY <1>2 DEF Visited
<1> HIDE DEF o, K
<1>4. \A y \in Pcb : y \in K => /\ \A i \in 2 .. Len(o[y]) - 1 : o[y][i] # c
                               /\ \A i \in 2 .. Len(k[y]) - 1 : k[y][i] # c
  <2>1. ASSUME NEW s \in Seq(Pcb), c \notin Range(s), NEW i \in 2 .. Len(s) - 1
        PROVE  s[i] # c
    <3>1. i \in 1 .. Len(s)
      BY <2>1
    <3> QED
      BY <2>1, <3>1, RangeOf
  <2> QED
    BY <1>1, <1>3, <2>1
<1>5. IsMiddleChild(k, c) <=> IsMiddleChild(o, c)
  BY <1>1, <1>3, <1>4 DEF IsMiddleChild
<1>6. c = RootPcb \/ \E q \in Pcb : c \in Range(k[q])
  BY <1>1, <1>3
<1> QED
  BY <1>5, <1>6 DEF o

(* A round that unlinks a block that is ready. *)
LEMMA UnlinksReady ==
  ASSUME NEW a, NEW c, NEW v, NEW n, NEW b, Doomed(a, c, v, n, b),
         NEW g, NEW f, NEW k, NEW D \in SUBSET Pcb, Books(g, a, c, v, n, b, f, k, D),
         NEW p \in Descendants(a.kids, c), p \notin D, p \in Range(a.ready)
  PROVE  Unlinks(g, a, c, v, n, b, f, k, D, p)
<1> DEFINE m == g.mem  q == a.ready  w == a.waits  K == Descendants(a.kids, c)
           r == Without(q, D)  u == Less(w, D)  e == Ended(g, p)
<1>1. /\ q \in Seq(Pcb) /\ IsInjective(q)
      /\ w \in [SemAdd -> Seq(Pcb)] /\ \A s \in SemAdd : IsInjective(w[s])
      /\ Range(q) \cap Waiting(w) = {}
      /\ c \notin Range(q) /\ K \subseteq Pcb \ a.free
      /\ v \in [SemAdd -> Int]
  BY DEF Doomed
<1>2. /\ IsGlobals(g) /\ g.missed = FALSE /\ g.current = c /\ g.mode = "run"
      /\ Holds(m, f, r, k, u) /\ g.sem = SemLess(v, w, D) /\ HeadsAreNot(a, D)
  BY DEF Books
<1>3. p # c /\ p \in Pcb /\ p \notin a.free /\ p \notin Waiting(w)
  BY <1>1
<1>4. /\ r \in Seq(Pcb) /\ p \in Range(r) /\ IsInjective(r)
      /\ Waiting(u) = Waiting(w) \ D
  BY <1>1, LessIs, WithoutMembers
<1> HIDE DEF r, u
<1>5. m[p_semAdd(p)] = NULL
  BY <1>2, <1>3, <1>4, NotMarked
<1> DEFINE x == outProcQ(m, readyQ, p).mem
<1>6. /\ QueueAt(m, readyQ) = r
      /\ Head(r) # p => QueueAt(x, readyQ) = Without(r, {p})
                        /\ Holds(x, f, Without(r, {p}), k, u)
      /\ Head(r) = p => QueueAt(x, readyQ) # Without(r, {p})
  BY <1>2, <1>3, <1>4, OutReady
<1>7. /\ MemWithout(g, p) = x
      /\ MissesOf(g, p) <=> QueueAt(x, readyQ) # Without(r, {p})
      /\ SemAfter(g, p) = g.sem /\ SoftAfter(g, p) = g.soft
  BY <1>2, <1>3, <1>5, <1>6 DEF MemWithout, MissesOf, Misses, SemAfter, SoftAfter
<1>8. /\ IsGlobals(e) /\ e.mem = freePcb(x, p) /\ e.current = c /\ e.sem = g.sem
      /\ e.count = g.count - 1 /\ e.soft = g.soft
      /\ e.missed = (QueueAt(x, readyQ) # Without(r, {p})) /\ e.mode = "run"
  BY <1>2, <1>7, EndedIs
<1> HIDE DEF e, x
<1>9. q # <<>> /\ Head(q) \notin D /\ Head(r) = Head(q)
  <2>1. q # <<>>
    BY <1>1, RangeEmpty
  <2>2. Head(q) \notin D
    BY <1>2, <2>1 DEF HeadsAreNot
  <2> QED
    BY <1>1, <2>1, <2>2, WithoutKeepsHead DEF r
<1>10. CASE Head(r) = p
  <2>1. QueueAt(x, readyQ) # Without(r, {p})
    BY <1>6, <1>10
  <2>2. Stuck(a, c)
    BY <1>9, <1>10 DEF Stuck
  <2> QED
    BY <1>8, <2>1, <2>2 DEF Unlinks, e
<1>11. CASE Head(r) # p
  <2>1. Holds(x, f, Without(r, {p}), k, u) /\ e.missed = FALSE
    BY <1>6, <1>8, <1>11
  <2>2. Without(r, {p}) = Without(q, With(D, p))
    BY <1>1, WithoutTwice DEF r, With
  <2>3. u = Less(w, With(D, p))
    <3> HIDE DEF w
    <3> QED
      BY <1>1, <1>3, LessStranger DEF u
  <2>4. e.sem = SemLess(v, w, With(D, p))
    <3> HIDE DEF w
    <3>1. SemLess(v, w, With(D, p)) = SemLess(v, w, D)
      <4>1. w \in [SemAdd -> Seq(Pcb)] /\ v \in [SemAdd -> Int] /\ p \in Pcb /\ p \notin Waiting(w)
        BY <1>1, <1>3
      <4> QED
        BY <4>1, SemLessStranger
    <3> QED
      BY <1>2, <1>8, <3>1
  <2>5. e.soft = IF p \in Soft(w) THEN g.soft - 1 ELSE g.soft
    <3>1. semd \subseteq SemAdd
      BY NucleusAssumption DEF semd
    <3>2. p \notin Soft(w)
      BY <1>3, <3>1 DEF Soft, Waiting
    <3> QED
      BY <1>8, <3>2
  <2>6. HeadsAreNot(a, {p})
    <3>1. ASSUME NEW t \in SemAdd, w[t] # <<>> PROVE Head(w[t]) # p
      <4>1. Head(w[t]) \in Range(w[t])
        BY <1>1, <3>1, RangeTail
      <4> QED
        BY <1>3, <4>1 DEF Waiting
    <3> QED
      BY <1>9, <1>11, <3>1 DEF HeadsAreNot
  <2>7. Books(e, a, c, v, n, b, <<p>> \o f, k, With(D, p))
    <3>1. Holds(x, f, Without(q, With(D, p)), k, Less(w, With(D, p)))
      BY <2>1, <2>2, <2>3
    <3> QED
      BY <1>3, <1>8, <2>1, <2>4, <2>5, <2>6, <3>1, OneFreed
  <2> QED
    BY <1>3, <2>1, <2>7 DEF Unlinks, e
<1> QED
  BY <1>10, <1>11

(* The last round unlinks the running process from its parent. *)
LEMMA UnlinksCurrent ==
  ASSUME NEW a, NEW c, NEW v, NEW n, NEW b, Doomed(a, c, v, n, b),
         NEW g, NEW f, NEW k, NEW D \in SUBSET Pcb, Books(g, a, c, v, n, b, f, k, D),
         NEW cl, Visited(a.kids, c, k, D, cl), c \in Descendants(a.kids, c), c \notin D
  PROVE  Unlinks(g, a, c, v, n, b, f, k, D, c)
<1> DEFINE m == g.mem  q == a.ready  w == a.waits
           r == Without(q, D)  u == Less(w, D)  e == Ended(g, c)
<1>1. /\ q \in Seq(Pcb) /\ IsInjective(q)
      /\ w \in [SemAdd -> Seq(Pcb)] /\ \A s \in SemAdd : IsInjective(w[s])
      /\ c \in Pcb /\ c \notin Range(q) /\ c \notin Waiting(w)
      /\ Descendants(a.kids, c) \subseteq Pcb \ a.free
      /\ v \in [SemAdd -> Int]
  BY DEF Doomed
<1>2. /\ IsGlobals(g) /\ g.missed = FALSE /\ g.current = c /\ g.mode = "run"
      /\ Holds(m, f, r, k, u) /\ g.sem = SemLess(v, w, D)
  BY DEF Books
<1>3. c \notin a.free
  BY <1>1
<1>4. Waiting(u) = Waiting(w) \ D
  BY <1>1, LessIs
<1> HIDE DEF r, u
<1>5. m[p_semAdd(c)] = NULL
  BY <1>1, <1>2, <1>4, NotMarked
<1> DEFINE y == outChild(m, c)  x == y.mem  l == Orphaned(k, c)
<1>6. /\ y.ptr = Undefined <=> IsMiddleChild(a.kids, c)
      /\ y.ptr # Undefined => Holds(x, f, r, l, u)
  <2>1. k \in [Pcb -> Seq(Pcb)]
    BY <1>2, HoldsFacts
  <2>2. /\ c = RootPcb \/ \E z \in Pcb : c \in Range(k[z])
        /\ IsMiddleChild(k, c) <=> IsMiddleChild(a.kids, c)
    BY <2>1, StillAKid
  <2>3. /\ y.ptr = Undefined <=> IsMiddleChild(k, c)
        /\ y.ptr # Undefined => Holds(x, f, r, l, u)
    BY <1>1, <1>2, <2>2, OutKid
  <2> QED
    BY <2>2, <2>3
<1>7. /\ MemWithout(g, c) = x
      /\ MissesOf(g, c) <=> y.ptr = Undefined
      /\ SemAfter(g, c) = g.sem /\ SoftAfter(g, c) = g.soft
  BY <1>2, <1>5 DEF MemWithout, MissesOf, SemAfter, SoftAfter
<1>8. /\ IsGlobals(e) /\ e.mem = freePcb(x, c) /\ e.current = c /\ e.sem = g.sem
      /\ e.count = g.count - 1 /\ e.soft = g.soft
      /\ e.missed = (y.ptr = Undefined) /\ e.mode = "run"
  BY <1>2, <1>7, EndedIs
<1> HIDE DEF e, x, y, l
<1>9. CASE y.ptr = Undefined
  <2>1. Stuck(a, c)
    BY <1>6, <1>9 DEF Stuck
  <2> QED
    BY <1>8, <1>9, <2>1 DEF Unlinks, e
<1>10. CASE y.ptr # Undefined
  <2>1. Holds(x, f, r, l, u) /\ e.missed = FALSE /\ ~ IsMiddleChild(a.kids, c)
    BY <1>6, <1>8, <1>10
  <2>2. r = Without(q, With(D, c))
    BY <1>1, WithoutStranger DEF r
  <2>3. u = Less(w, With(D, c))
    <3> HIDE DEF w
    <3> QED
      BY <1>1, LessStranger DEF u
  <2>4. e.sem = SemLess(v, w, With(D, c))
    <3> HIDE DEF w
    <3>1. SemLess(v, w, With(D, c)) = SemLess(v, w, D)
      <4>1. w \in [SemAdd -> Seq(Pcb)] /\ v \in [SemAdd -> Int] /\ c \in Pcb /\ c \notin Waiting(w)
        BY <1>1, <1>3
      <4> QED
        BY <4>1, SemLessStranger
    <3> QED
      BY <1>2, <1>8, <3>1
  <2>5. e.soft = IF c \in Soft(w) THEN g.soft - 1 ELSE g.soft
    <3>1. semd \subseteq SemAdd
      BY NucleusAssumption DEF semd
    <3>2. c \notin Soft(w)
      BY <1>1, <3>1 DEF Soft, Waiting
    <3> QED
      BY <1>8, <3>2
  <2>6. HeadsAreNot(a, {c})
    <3>1. ASSUME NEW t \in SemAdd, w[t] # <<>> PROVE Head(w[t]) # c
      <4>1. Head(w[t]) \in Range(w[t])
        BY <1>1, <3>1, RangeTail
      <4> QED
        BY <1>1, <4>1 DEF Waiting
    <3>2. q # <<>> => Head(q) # c
      BY <1>1, RangeTail
    <3> QED
      BY <3>1, <3>2 DEF HeadsAreNot
  <2>7. Books(e, a, c, v, n, b, <<c>> \o f, l, With(D, c))
    <3>1. Holds(x, f, Without(q, With(D, c)), l, Less(w, With(D, c)))
      BY <2>1, <2>2, <2>3
    <3> QED
      BY <1>1, <1>3, <1>8, <2>1, <2>4, <2>5, <2>6, <3>1, OneFreed
  <2> QED
    BY <2>1, <2>7 DEF Unlinks, e, l
<1> QED
  BY <1>9, <1>10

(* A round that unlinks a block. *)
LEMMA UnlinkIs ==
  ASSUME NEW a, NEW c, NEW v, NEW n, NEW b, Doomed(a, c, v, n, b),
         NEW g, NEW f, NEW k, NEW D \in SUBSET Pcb, Books(g, a, c, v, n, b, f, k, D),
         NEW cl, Visited(a.kids, c, k, D, cl)
  PROVE  Unlinks(g, a, c, v, n, b, f, k, D, Head(cl))
<1> DEFINE p == Head(cl)
<1>1. p \in Descendants(a.kids, c) /\ p \notin D
  <2>1. /\ cl \in Seq(Pcb) /\ IsInjective(cl) /\ cl # <<>>
        /\ Range(cl) \subseteq Descendants(a.kids, c) \ D
    BY DEF Visited
  <2>2. p \in Range(cl)
    BY <2>1, RangeTail
  <2> QED
    BY <2>1, <2>2
<1> HIDE DEF p
<1>2. p = c \/ p \in Range(a.ready) \/ p \in Waiting(a.waits)
  BY <1>1 DEF Doomed
<1>3. CASE p = c
  BY <1>1, <1>3, UnlinksCurrent DEF p
<1>4. CASE p \in Range(a.ready)
  BY <1>1, <1>4, UnlinksReady DEF p
<1>5. CASE p \in Waiting(a.waits)
  BY <1>1, <1>5, UnlinksWaiting DEF p
<1> QED
  BY <1>2, <1>3, <1>4, <1>5

------------------------------------------------------------------------------
(* What a kill finds.                                                       *)

(* In one tree nobody is below himself, and everybody but the root has a parent. *)
LEMMA NoCycle ==
  ASSUME NEW o \in [Pcb -> Seq(Pcb)], NEW c \in Pcb, NEW L \in SUBSET Pcb,
         L = Descendants(o, RootPcb), c \in L,
         \A p, q \in Pcb : p # q => Range(o[p]) \cap Range(o[q]) = {},
         \A p \in Pcb : RootPcb \notin Range(o[p])
  PROVE  /\ \A y \in Descendants(o, c) : c \notin Range(o[y])
         /\ c = RootPcb \/ \E q \in Pcb : c \in Range(o[q])
         /\ Descendants(o, c) \subseteq L
<1> DEFINE K == Descendants(o, c)  T == L \ K
<1>1. /\ RootPcb \in L /\ ChildClosed(o, L) /\ L \subseteq Pcb
      /\ c \in K /\ ChildClosed(o, K) /\ K \subseteq Pcb /\ RootPcb \in Pcb
  BY NucleusAssumption, DescendantsLeast
<1>2. K \subseteq L
  BY <1>1, DescendantsLeast
<1>3. c = RootPcb \/ \E q \in Pcb : c \in Range(o[q])
  <2>1. CASE c # RootPcb
    <3>1. \E y \in Descendants(o, RootPcb) : c \in Range(o[y])
      BY <1>1, <2>1, DescendantHasParent
    <3> QED
      BY <1>1, <3>1
  <2> QED
    BY <2>1
<1>4. ASSUME NEW y \in K, c \in Range(o[y]) PROVE FALSE
  <2>1. y \in Pcb /\ c # RootPcb
    BY <1>1, <1>4
  <2>2. RootPcb \notin K
    <3>1. ASSUME RootPcb \in K PROVE FALSE
      <4>1. \E z \in K : RootPcb \in Range(o[z])
        BY <2>1, <3>1, DescendantHasParent
      <4> QED
        BY <1>1, <4>1
    <3> QED
      BY <3>1
  <2>3. ASSUME NEW z \in T, NEW x \in Range(o[z]) PROVE x \in T
    <3>1. z \in Pcb /\ z # y /\ x \in L
      BY <1>1 DEF ChildClosed
    <3>2. x # c
      BY <1>4, <2>1, <3>1
    <3>3. x \notin K
      <4>1. ASSUME x \in K PROVE FALSE
        <5>1. z \in K
          BY <3>1, <3>2, <4>1, ParentOfDescendant
        <5> QED
          BY <5>1
      <4> QED
        BY <4>1
    <3> QED
      BY <3>1, <3>3
  <2>4. ChildClosed(o, T) /\ RootPcb \in T /\ T \in SUBSET Pcb
    BY <1>1, <2>2, <2>3 DEF ChildClosed
  <2>5. L \subseteq T
    BY <1>1, <2>4, DescendantsLeast
  <2> QED
    BY <1>1, <1>2, <2>5
<1> QED
  BY <1>2, <1>3, <1>4

(* What killEverything finds. *)
LEMMA DoomedIs ==
  ASSUME NP!IInv, CurrentMode = "run"
  PROVE  /\ Doomed(lists, currentProcess, sem, processCount, softBlockCount)
         /\ NP!Subtree(currentProcess) = Descendants(lists.kids, currentProcess)
         /\ Stuck(lists, currentProcess) <=> NP!OutOfReach(NP!Subtree(currentProcess))
<1> DEFINE a == lists  c == currentProcess  o == lists.kids  L == Pcb \ a.free
<1>1. NP!Sem = SemAdd
  BY NucleusAssumption DEF NP!Sem, NP!Semd
<1>2. /\ a.ready \in Seq(Pcb) /\ IsInjective(a.ready)
      /\ o \in [Pcb -> Seq(Pcb)] /\ a.waits \in [SemAdd -> Seq(Pcb)]
      /\ c \in Pcb /\ c \notin Range(a.ready) /\ c \notin Waiting(a.waits) /\ c \notin a.free
      /\ RootPcb \notin a.free
      /\ sem \in [SemAdd -> Int] /\ processCount \in Int /\ softBlockCount \in Int
  BY StateIs
<1>3. NP!Live = L
  BY DEF NP!Live
<1>4. /\ \A s \in SemAdd : IsInjective(a.waits[s])
      /\ \A s, t \in SemAdd : s # t => Range(a.waits[s]) \cap Range(a.waits[t]) = {}
      /\ Range(a.ready) \cap Waiting(a.waits) = {}
      /\ L \subseteq {c} \cup Range(a.ready) \cup Waiting(a.waits)
  BY <1>1, <1>3, NPOperators DEF NP!IInv, NP!NoProcessLost, NP!Blocked, NP!Running, Waiting
<1>5. /\ L = Descendants(o, RootPcb)
      /\ \A p, q \in Pcb : p # q => Range(o[p]) \cap Range(o[q]) = {}
      /\ \A p \in Pcb : RootPcb \notin Range(o[p])
  <2>1. L = NP!Subtree(RootPcb)
    BY <1>2, <1>3 DEF NP!IInv, NP!OneTree
  <2>2. NP!Subtree(RootPcb) = Descendants(o, RootPcb)
    BY NPOperators DEF NP!Subtree
  <2> QED
    BY <2>1, <2>2, NPOperators DEF NP!IInv, NP!OneTree, NP!RootIsNoChild
<1>6. /\ \A y \in Descendants(o, c) : c \notin Range(o[y])
      /\ c = RootPcb \/ \E q \in Pcb : c \in Range(o[q])
      /\ Descendants(o, c) \subseteq L
  <2>1. L \in SUBSET Pcb /\ c \in L
    BY <1>2
  <2> HIDE DEF L, o
  <2>2. o \in [Pcb -> Seq(Pcb)] /\ c \in Pcb
    BY <1>2 DEF o
  <2> QED
    BY <1>5, <2>1, <2>2, NoCycle
<1>7. Doomed(a, c, sem, processCount, softBlockCount)
  BY <1>2, <1>4, <1>6 DEF Doomed
<1>8. NP!Subtree(c) = Descendants(o, c)
  BY NPOperators DEF NP!Subtree
<1>9. Stuck(a, c) <=> NP!OutOfReach(NP!Subtree(c))
  <2>1. NP!IsMiddleChild(o, c) <=> IsMiddleChild(o, c)
    BY NPOperators
  <2> QED
    BY <1>1, <1>8, <2>1 DEF Stuck, NP!OutOfReach
<1> QED
  BY <1>7, <1>8, <1>9

------------------------------------------------------------------------------
(* The loop of killEverything.                                              *)

\* What is left of the visit when a block has been missed: the tree in g.mem has
\* the children k, and the n blocks that were counted are without those of D.
Counts(g, o, c, n, k, D, cl) ==
    /\ IsMemory(g.mem) /\ HKids(g.mem, k)
    /\ Visited(o, c, k, D, cl)
    /\ g.count = n - Cardinality(D)

\* The globals g have missed a block that is out of reach, with the calls cl open.
Astray(g, cl) ==
    /\ Stuck(lists, currentProcess)
    /\ \E k : \E D \in SUBSET Pcb :
          Counts(g, lists.kids, currentProcess, processCount, k, D, cl)

\* The loop of killEverything has taken children from the dying processes, and
\* unlinked and freed those of D; or it has missed one.
Killing ==
    /\ IsGlobals(work) /\ work.mode = "run" /\ work.current = currentProcess
    /\ work.missed = TRUE => Astray(work, calls)
    /\ work.missed = FALSE =>
          \E f, k : \E D \in SUBSET Pcb :
             /\ Books(work, lists, currentProcess, sem, processCount, softBlockCount, f, k, D)
             /\ Visited(lists.kids, currentProcess, k, D, calls)

\* Nothing is done yet that Nucleus sees: the handler loops.
Looping(m) ==
    /\ NP!vars' = NP!vars /\ Agrees(mem', lists') /\ missed' = FALSE /\ mode' = m

\* A handler has missed a block that is out of reach.
Missing ==
    /\ missed' = TRUE /\ Stuck(lists, currentProcess)
    /\ processCount' = processCount - Cardinality(Descendants(lists.kids, currentProcess))
    /\ DOMAIN mem' = AslLocations /\ sem' \in [SemAdd -> Int]
    /\ processCount' \in Int /\ softBlockCount' \in Int
    /\ mode' \in {"run", "wait", "halt", "panic", "returned", "fault"}

(* Nothing is unlinked before the first round. *)
LEMMA KillStarts ==
  ASSUME NEW a, NEW c, NEW v, NEW n, NEW b, Doomed(a, c, v, n, b),
         NEW g, NEW f, Plain(g, f, a.ready, a.kids, a.waits), Range(f) = a.free,
         g.current = c, g.count = n, g.soft = b, g.sem = v, g.mode = "run"
  PROVE  /\ Books(g, a, c, v, n, b, f, a.kids, {})
         /\ Visited(a.kids, c, a.kids, {}, <<c>>)
<1> DEFINE w == a.waits
<1>1. /\ a.ready \in Seq(Pcb) /\ IsInjective(a.ready) /\ a.kids \in [Pcb -> Seq(Pcb)]
      /\ w \in [SemAdd -> Seq(Pcb)] /\ \A s \in SemAdd : IsInjective(w[s])
      /\ c \in Pcb /\ v \in [SemAdd -> Int] /\ n \in Int /\ b \in Int
      /\ \A y \in Descendants(a.kids, c) : c \notin Range(a.kids[y])
  BY DEF Doomed
<1>2. Visited(a.kids, c, a.kids, {}, <<c>>)
  BY <1>1, VisitStarts
<1>3. Without(a.ready, {}) = a.ready
  BY <1>1, WithoutNone
<1>4. Less(w, {}) = w
  <2>1. \A s \in SemAdd : Without(w[s], {}) = w[s]
    BY <1>1, WithoutNone
  <2> QED
    BY <1>1, <2>1 DEF Less
<1>5. Cardinality({}) = 0 /\ \A S : S \cap {} = {}
  BY FS_EmptySet
<1>6. SemLess(v, w, {}) = v
  <2>1. \A s \in SemAdd : v[s] + Cardinality(Range(w[s]) \cap {}) = v[s]
    <3>1. ASSUME NEW s \in SemAdd PROVE v[s] + Cardinality(Range(w[s]) \cap {}) = v[s]
      <4>1. Cardinality(Range(w[s]) \cap {}) = 0 /\ v[s] \in Int
        BY <1>1, <1>5
      <4> QED
        BY <4>1
    <3> QED
      BY <3>1
  <2> QED
    BY <1>1, <2>1 DEF SemLess
<1>7. g.count = n - Cardinality({}) /\ g.soft = b - Cardinality(Soft(w) \cap {})
  BY <1>1, <1>5
<1>8. /\ IsGlobals(g) /\ g.missed = FALSE
      /\ Holds(g.mem, f, a.ready, a.kids, w)
  BY DEF Plain, IsGlobals
<1>9. HeadsAreNot(a, {})
  BY DEF HeadsAreNot
<1>10. Range(f) = a.free \cup {}
  OBVIOUS
<1>11. Books(g, a, c, v, n, b, f, a.kids, {})
  BY <1>3, <1>4, <1>6, <1>7, <1>8, <1>9, <1>10 DEF Books
<1> QED
  BY <1>2, <1>11

(* After the last round the children are what Nucleus says. *)
LEMMA KidsLeft ==
  ASSUME NEW o \in [Pcb -> Seq(Pcb)], o = lists.kids, NEW c \in Pcb, c = currentProcess,
         NEW k \in [Pcb -> Seq(Pcb)], NEW D \in SUBSET Pcb, NEW cl, Visited(o, c, k, D, cl),
         k[c] = <<>>, With(D, c) = Descendants(o, c)
  PROVE  Orphaned(k, c) = NP!KidsWithout(With(D, c))
<1> DEFINE K == With(D, c)
<1>1. /\ \A p \in K : k[p] = <<>>
      /\ \A p \in Pcb \ K : k[p] = o[p]
  BY DEF Visited, With
<1>2. Without(<<>>, {c}) = <<>>
  <2>1. <<>> \in Seq(Pcb) /\ IsInjective(<<>>) /\ Range(<<>>) \cap {c} = {}
    BY RangeEmpty, EmptyQueue
  <2> QED
    BY <2>1, WithoutNone
<1>3. \A p \in Pcb : Without(k[p], {c}) = IF p \in K THEN <<>> ELSE Without(o[p], {c})
  BY <1>1, <1>2
<1> HIDE DEF K
<1>4. NP!KidsWithout(K) = [p \in Pcb |-> IF p \in K THEN <<>> ELSE Without(o[p], {c})]
  BY NPOperators DEF NP!KidsWithout
<1> QED
  BY <1>3, <1>4 DEF Orphaned, K

(* The globals when nobody runs. *)
LEMMA NoneRuns ==
  ASSUME NEW e, IsGlobals(e)
  PROVE  LET z == [e EXCEPT !.current = NULL] IN
         /\ IsGlobals(z) /\ z.mem = e.mem /\ z.sem = e.sem /\ z.count = e.count
         /\ z.soft = e.soft /\ z.missed = e.missed /\ z.mode = e.mode
<1> DEFINE z == [e EXCEPT !.current = NULL]
<1>1. e = [mem |-> e.mem, current |-> e.current, sem |-> e.sem, count |-> e.count,
           soft |-> e.soft, missed |-> e.missed, mode |-> e.mode]
  BY DEF IsGlobals
<1>2. z = [mem |-> e.mem, current |-> NULL, sem |-> e.sem, count |-> e.count,
           soft |-> e.soft, missed |-> e.missed, mode |-> e.mode]
  BY <1>1
<1>3. /\ z.mem = e.mem /\ z.sem = e.sem /\ z.count = e.count /\ z.soft = e.soft
      /\ z.missed = e.missed /\ z.mode = e.mode
      /\ z = [mem |-> z.mem, current |-> z.current, sem |-> z.sem, count |-> z.count,
              soft |-> z.soft, missed |-> z.missed, mode |-> z.mode]
  BY <1>2
<1> HIDE DEF z
<1>4. IsGlobals(z)
  BY <1>3 DEF IsGlobals
<1> QED
  BY <1>3, <1>4 DEF z

(* Globals in which the memory is another. *)
LEMMA OtherMemory ==
  ASSUME NEW e, IsGlobals(e), NEW n, DOMAIN n = AslLocations
  PROVE  LET z == [e EXCEPT !.mem = n] IN
         /\ IsGlobals(z) /\ z.mem = n /\ z.current = e.current /\ z.sem = e.sem
         /\ z.count = e.count /\ z.soft = e.soft /\ z.missed = e.missed /\ z.mode = e.mode
<1> DEFINE z == [e EXCEPT !.mem = n]
<1>1. e = [mem |-> e.mem, current |-> e.current, sem |-> e.sem, count |-> e.count,
           soft |-> e.soft, missed |-> e.missed, mode |-> e.mode]
  BY DEF IsGlobals
<1>2. z = [mem |-> n, current |-> e.current, sem |-> e.sem, count |-> e.count,
           soft |-> e.soft, missed |-> e.missed, mode |-> e.mode]
  BY <1>1
<1>3. /\ z.mem = n /\ z.current = e.current /\ z.sem = e.sem /\ z.count = e.count
      /\ z.soft = e.soft /\ z.missed = e.missed /\ z.mode = e.mode
      /\ z = [mem |-> z.mem, current |-> z.current, sem |-> z.sem, count |-> z.count,
              soft |-> z.soft, missed |-> z.missed, mode |-> z.mode]
  BY <1>2
<1> HIDE DEF z
<1>4. IsGlobals(z)
  BY <1>3 DEF IsGlobals
<1> QED
  BY <1>3, <1>4 DEF z

(* The end of a kill that has missed nobody. *)
LEMMA KillEnds ==
  ASSUME NP!IInv, CurrentMode = "run", NEW K \in SUBSET Pcb,
         K = Descendants(lists.kids, currentProcess),
         NEW e, NEW f, NEW d,
         d = NP!KidsWithout(K),
         Books(e, lists, currentProcess, sem, processCount, softBlockCount, f, d, K),
         ~ IsMiddleChild(lists.kids, currentProcess),
         Scheduler([e EXCEPT !.current = NULL]), busy' = busy
  PROVE  Fine
<1> DEFINE a == lists  c == currentProcess  r == Without(a.ready, K)  w == Less(a.waits, K)
           z == [e EXCEPT !.current = NULL]
<1>1. /\ IsGlobals(e) /\ e.missed = FALSE
      /\ Holds(e.mem, f, r, d, w) /\ Range(f) = a.free \cup K
      /\ e.count = processCount - Cardinality(K)
      /\ e.soft = softBlockCount - Cardinality(Soft(a.waits) \cap K)
      /\ e.sem = SemLess(sem, a.waits, K) /\ HeadsAreNot(a, K)
  BY DEF Books
<1>2. /\ NP!Subtree(c) = K
      /\ Stuck(a, c) <=> NP!OutOfReach(K)
  BY DoomedIs
<1>3. ~ NP!OutOfReach(K)
  <2>1. ~ Stuck(a, c)
    BY <1>1 DEF Stuck, HeadsAreNot
  <2> QED
    BY <1>2, <2>1
<1>4. /\ Plain(z, f, r, d, w)
      /\ z.count = e.count /\ z.soft = e.soft /\ z.sem = e.sem
  BY <1>1, NoneRuns DEF Plain
<1> HIDE DEF z, r, w
<1>5. Scheduler(z)
  BY DEF z
<1>6. /\ NP!Scheduler(r, z.count, z.soft)
      /\ \E t : Shows(mem', lists', f, t, d, w) /\ lists'.ready = t
      /\ lists'.free = Range(f) /\ lists'.kids = d /\ lists'.waits = w
      /\ sem' = z.sem /\ missed' = FALSE
      /\ mode' \in {"run", "wait", "halt", "panic", "returned"}
  <2>1. Plain(z, f, r, d, w) /\ Scheduler(z)
    BY <1>4, <1>5
  <2>2. NP!Scheduler(r, z.count, z.soft)
    BY <2>1, SchedulerIs
  <2>3. \E t : Shows(mem', lists', f, t, d, w) /\ lists'.ready = t
    BY <2>1, SchedulerIs
  <2>4. /\ lists'.free = Range(f) /\ lists'.kids = d /\ lists'.waits = w
        /\ sem' = z.sem /\ missed' = FALSE
        /\ mode' \in {"run", "wait", "halt", "panic", "returned"}
    BY <2>1, SchedulerIs
  <2> QED
    BY <2>2, <2>3, <2>4
<1>7. NP!Sem = SemAdd /\ NP!Semd = semd
  BY NucleusAssumption DEF NP!Sem, NP!Semd, semd
<1>8. NP!KidsWithout(K) = d
  OBVIOUS
<1>9. [s \in NP!Sem |-> NP!Without(a.waits[s], K)] = w
  BY <1>7, NPOperators DEF Less, w
<1>10. NP!SemWithout(K) = z.sem
  BY <1>1, <1>4, <1>7, NPOperators DEF NP!SemWithout, SemLess
<1>11. z.count = processCount - NP!Cardinality(K) /\ z.soft = NP!SoftWithout(K)
  BY <1>1, <1>4, <1>7, NPOperators DEF NP!SoftWithout, NP!SoftBlocked, Soft
<1>12. r = NP!Without(a.ready, K)
  BY NPOperators DEF r
<1>13. NP!KillEverything(K)
  BY <1>1, <1>6, <1>8, <1>9, <1>10, <1>11, <1>12 DEF NP!KillEverything
<1>14. NP!SysCall2
  BY <1>2, <1>3, <1>13 DEF NP!SysCall2, NP!Terminate, CurrentMode
<1>15. NP!Next
  BY <1>14 DEF NP!Next
<1> QED
  BY <1>6, <1>15 DEF Fine, Agrees

(* A function on queues leaves the tree where it is, whatever is in memory. *)
LEMMA QueueKeepsTree ==
  ASSUME NEW m, DOMAIN m = AslLocations, NEW tp, tp \notin KidsArea, NEW p
  PROVE  /\ Same(m, removeProcQ(m, tp).mem, KidsArea)
         /\ Same(m, Unlinked(m, p), KidsArea)
         /\ Same(m, outProcQ(m, tp, p).mem, KidsArea)
         /\ Same(m, freePcb(m, p), KidsArea)
<1>1. KidsArea \subseteq DOMAIN m
  BY AreasThere
<1>2. \A x : next(x) \notin KidsArea /\ prev(x) \notin KidsArea /\ FreeHead \notin KidsArea
  BY DEF KidsArea, next, prev, FreeHead
<1>3. ASSUME NEW t, t \notin KidsArea PROVE Same(m, removeProcQ(m, t).mem, KidsArea)
  <2> SUFFICES ASSUME NEW l \in KidsArea PROVE removeProcQ(m, t).mem[l] = m[l]
    BY DEF Same
  <2> QED
    BY <1>1, <1>2, <1>3 DEF removeProcQ, Returns
<1>4. Same(m, Unlinked(m, p), KidsArea) /\ DOMAIN Unlinked(m, p) = DOMAIN m
  BY <1>1, <1>2 DEF Unlinked, Same
<1>5. Same(m, outProcQ(m, tp, p).mem, KidsArea)
  <2> DEFINE last == m[tp]  v == m[prev(p)]  u == Unlinked(m, p)
             cut == [u EXCEPT ![tp] = v]
  <2>1. Same(m, removeProcQ(m, next(last)).mem, KidsArea)
    BY <1>2, <1>3
  <2>2. Same(m, cut, KidsArea)
    BY <1>1, <1>4 DEF Same
  <2>3. outProcQ(m, tp, p) \in {removeProcQ(m, next(last)), Returns(cut, p), Returns(u, p),
                                Returns(m, NULL)}
    BY DEF outProcQ
  <2>4. Same(m, m, KidsArea)
    BY DEF Same
  <2>5. outProcQ(m, tp, p).mem \in {removeProcQ(m, next(last)).mem, cut, u, m}
    BY <2>3 DEF Returns
  <2> HIDE DEF cut, u, last
  <2> QED
    BY <1>4, <2>1, <2>2, <2>4, <2>5 DEF u
<1>6. Same(m, freePcb(m, p), KidsArea)
  BY <1>1, <1>2 DEF freePcb, Same
<1> QED
  BY <1>3, <1>4, <1>5, <1>6

(* So does outBlocked. *)
LEMMA OutBlockedKeepsTree ==
  ASSUME NEW m, DOMAIN m = AslLocations, NEW p
  PROVE  Same(m, outBlocked(m, p).mem, KidsArea)
<1> DEFINE found == search(m, m[p_semAdd(p)])  d == m[s_next(found)]
           r == outProcQ(m, s_procQ(d), p)  t == Taken(r, found)
<1>1. KidsArea \subseteq AslLocations
  BY AreasThere
<1>2. \A x : /\ s_procQ(x) \notin KidsArea /\ s_next(x) \notin KidsArea
             /\ p_semAdd(x) \notin KidsArea /\ SemdFree \notin KidsArea
  BY DEF KidsArea, s_procQ, tail, s_next, p_semAdd, SemdFree
<1>3. Same(m, r.mem, KidsArea) /\ DOMAIN r.mem = AslLocations
  <2>1. ASSUME NEW x, NEW tp PROVE DOMAIN outProcQ(x, tp, p).mem = DOMAIN x
    BY PcbDomains
  <2> QED
    BY <1>2, <2>1, QueueKeepsTree
<1> HIDE DEF r, found
<1> DEFINE n == r.mem  u == UnlinkedIfEmpty(n, found)
<1>4. Same(n, u, KidsArea) /\ DOMAIN u = AslLocations
  <2>1. \A x, y : DOMAIN freeSemd(x, y) = DOMAIN x
    BY DEF freeSemd
  <2> QED
    BY <1>1, <1>2, <1>3 DEF UnlinkedIfEmpty, freeSemd, Same
<1> HIDE DEF u
<1>5. t.mem = [u EXCEPT ![p_semAdd(r.ptr)] = NULL]
  BY DEF Taken, Returns, u
<1>6. Same(u, t.mem, KidsArea)
  BY <1>1, <1>2, <1>4, <1>5 DEF Same
<1>7. Same(m, t.mem, KidsArea) /\ Same(m, m, KidsArea)
  BY <1>3, <1>4, <1>6 DEF Same
<1>8. outBlocked(m, p) = t \/ outBlocked(m, p) = Returns(m, NULL)
  BY DEF outBlocked, r, found
<1> QED
  BY <1>7, <1>8 DEF Returns

(* A victim that is not the dying process itself is freed and counted out, and
   the tree stays, even if it is missed. *)
LEMMA EndedKeepsTree ==
  ASSUME NEW g, IsGlobals(g), NEW k, HKids(g.mem, k), NEW p, p # g.current
  PROVE  LET e == Ended(g, p) IN
         IsMemory(e.mem) /\ HKids(e.mem, k) /\ e.count = g.count - 1
<1> DEFINE e == Ended(g, p)  n == MemWithout(g, p)
<1>1. IsGlobals(e) /\ e.mem = freePcb(n, p) /\ e.count = g.count - 1
  BY EndedIs
<1>2. DOMAIN g.mem = AslLocations /\ DOMAIN e.mem = AslLocations
  BY <1>1 DEF IsGlobals
<1>3. readyQ \notin KidsArea
  BY DEF readyQ, tail, KidsArea
<1>4. Same(g.mem, n, KidsArea)
  BY <1>2, <1>3, QueueKeepsTree, OutBlockedKeepsTree DEF MemWithout
<1>5. DOMAIN n = AslLocations
  BY <1>1, <1>2, PcbDomains
<1> HIDE DEF n, e
<1>6. Same(n, e.mem, KidsArea)
  BY <1>1, <1>3, <1>5, QueueKeepsTree
<1>7. Same(g.mem, e.mem, KidsArea)
  BY <1>4, <1>6 DEF Same
<1>8. HKids(e.mem, k)
  BY <1>7, KidsSame
<1>9. IsMemory(e.mem)
  <2>1. e.mem = [l \in DOMAIN e.mem |-> e.mem[l]]
    BY <1>1 DEF freePcb
  <2> QED
    BY <1>2, <2>1 DEF IsMemory, AslLocations
<1> QED
  BY <1>1, <1>8, <1>9 DEF e

(* The count is right as long as nothing is missed. *)
LEMMA BooksCount ==
  ASSUME NEW a, NEW c, NEW v, NEW n, NEW b,
         NEW g, NEW f, NEW k, NEW D \in SUBSET Pcb, Books(g, a, c, v, n, b, f, k, D),
         NEW cl, Visited(a.kids, c, k, D, cl)
  PROVE  Counts(g, a.kids, c, n, k, D, cl)
<1>1. Holds(g.mem, f, Without(a.ready, D), k, Less(a.waits, D)) /\ g.count = n - Cardinality(D)
  BY DEF Books
<1>2. IsMemory(g.mem) /\ HKids(g.mem, k)
  BY <1>1, HoldsFacts DEF Holds
<1> QED
  BY <1>1, <1>2 DEF Counts

(* A round that goes down keeps the count. *)
LEMMA CountsDown ==
  ASSUME NEW o \in [Pcb -> Seq(Pcb)], NEW c \in Pcb, NEW n, NEW g, IsGlobals(g),
         NEW k, NEW D \in SUBSET Pcb, NEW cl, Counts(g, o, c, n, k, D, cl),
         ~ emptyChild(g.mem, Head(cl))
  PROVE  LET x == removeChild(g.mem, Head(cl)) IN
         Counts([g EXCEPT !.mem = x.mem], o, c, n, KidTaken(k, Head(cl)), D, <<x.ptr>> \o cl)
<1> DEFINE p == Head(cl)  x == removeChild(g.mem, p)  l == KidTaken(k, p)
           z == [g EXCEPT !.mem = x.mem]
<1>1. /\ IsMemory(g.mem) /\ HKids(g.mem, k) /\ Visited(o, c, k, D, cl)
      /\ g.count = n - Cardinality(D) /\ DOMAIN g.mem = AslLocations
  BY DEF Counts, IsGlobals
<1>2. p \in Pcb
  <2>1. cl \in Seq(Pcb) /\ cl # <<>>
    BY <1>1 DEF Visited
  <2> QED
    BY <2>1
<1>3. k[p] # <<>>
  BY <1>1, <1>2, EmptyTree
<1>4. x.ptr = Head(k[p]) /\ HKids(x.mem, l)
  BY <1>1, <1>2, <1>3, RemoveFromTree DEF KidTaken
<1>5. /\ k \in [Pcb -> Seq(Pcb)]
      /\ \A q \in Pcb : IsInjective(k[q])
      /\ \A q, t \in Pcb : q # t => Range(k[q]) \cap Range(k[t]) = {}
  BY <1>1 DEF HKids
<1>6. Visited(o, c, l, D, <<x.ptr>> \o cl)
  BY <1>1, <1>3, <1>4, <1>5, VisitGoesDown
<1>7. DOMAIN x.mem = AslLocations
  BY <1>1, PcbDomains
<1>8. IsMemory(x.mem)
  <2>1. x.mem = [y \in DOMAIN x.mem |-> x.mem[y]]
    BY DEF removeChild, Returns
  <2> QED
    BY <1>7, <2>1 DEF IsMemory, AslLocations
<1> HIDE DEF x, l
<1>9. z.mem = x.mem /\ z.count = g.count
  BY <1>7, OtherMemory
<1> HIDE DEF z
<1> QED
  BY <1>1, <1>4, <1>6, <1>8, <1>9 DEF Counts, x, l, z

(* A call that returns has counted its process out. *)
LEMMA CountsUp ==
  ASSUME NEW o \in [Pcb -> Seq(Pcb)], NEW c \in Pcb, NEW n \in Int,
         NEW g, IsGlobals(g), g.current = c,
         NEW k, NEW D \in SUBSET Pcb, NEW cl, Counts(g, o, c, n, k, D, cl),
         emptyChild(g.mem, Head(cl)), Tail(cl) # <<>>
  PROVE  /\ With(D, Head(cl)) \in SUBSET Pcb
         /\ Counts(Ended(g, Head(cl)), o, c, n, k, With(D, Head(cl)), Tail(cl))
<1> DEFINE p == Head(cl)  e == Ended(g, p)  E == With(D, p)
<1>1. /\ HKids(g.mem, k) /\ Visited(o, c, k, D, cl) /\ g.count = n - Cardinality(D)
      /\ k \in [Pcb -> Seq(Pcb)]
  BY DEF Counts, HKids
<1>2. p \in Pcb /\ p \notin D
  <2>1. cl \in Seq(Pcb) /\ IsInjective(cl) /\ cl # <<>> /\ Range(cl) \cap D = {}
    BY <1>1 DEF Visited
  <2>2. p \in Range(cl)
    BY <2>1, RangeTail
  <2> QED
    BY <2>1, <2>2
<1>3. k[p] = <<>>
  BY <1>1, <1>2, EmptyTree
<1>4. p # c /\ Visited(o, c, k, E, Tail(cl))
  BY <1>1, <1>3, VisitGoesUp
<1> HIDE DEF p
<1>5. IsMemory(e.mem) /\ HKids(e.mem, k) /\ e.count = g.count - 1
  BY <1>1, <1>4, EndedKeepsTree
<1>6. Cardinality(E) = Cardinality(D) + 1 /\ Cardinality(D) \in Nat
  <2>1. IsFiniteSet(D)
    BY BlockAssumption, FS_Subset
  <2> QED
    BY <1>2, <2>1, FS_AddElement, FS_CardinalityType DEF With
<1>7. e.count = n - Cardinality(E)
  BY <1>1, <1>5, <1>6
<1>8. E \in SUBSET Pcb
  BY <1>2 DEF With
<1> HIDE DEF e, E
<1>9. Counts(e, o, c, n, k, E, Tail(cl))
  BY <1>4, <1>5, <1>7 DEF Counts
<1> QED
  BY <1>8, <1>9 DEF e, E, p

\* All descendants of c are counted out of the n processes.
AllCounted(g, o, c, n) == g.count = n - Cardinality(Descendants(o, c))

(* When the first call is at its end all descendants are counted out. *)
LEMMA CountsAll ==
  ASSUME NEW o \in [Pcb -> Seq(Pcb)], NEW c \in Pcb, NEW n \in Int, NEW g, IsGlobals(g),
         NEW k, NEW D \in SUBSET Pcb, NEW cl, Counts(g, o, c, n, k, D, cl),
         emptyChild(g.mem, Head(cl)), Tail(cl) = <<>>
  PROVE  AllCounted(Ended(g, Head(cl)), o, c, n)
<1> DEFINE p == Head(cl)  e == Ended(g, p)
<1>1. /\ HKids(g.mem, k) /\ Visited(o, c, k, D, cl) /\ g.count = n - Cardinality(D)
      /\ k \in [Pcb -> Seq(Pcb)]
  BY DEF Counts, HKids
<1>2. p \in Pcb
  <2>1. cl \in Seq(Pcb) /\ cl # <<>>
    BY <1>1 DEF Visited
  <2> QED
    BY <2>1
<1>3. IsLast(k, cl)
  BY <1>1, <1>2, EmptyTree DEF IsLast
<1>4. c \notin D /\ Descendants(o, c) = With(D, c)
  BY <1>1, <1>3, VisitEnds DEF AllVisited
<1>5. e.count = g.count - 1
  BY EndedIs
<1>6. Cardinality(With(D, c)) = Cardinality(D) + 1 /\ Cardinality(D) \in Nat
  <2>1. IsFiniteSet(D)
    BY BlockAssumption, FS_Subset
  <2> QED
    BY <1>4, <2>1, FS_AddElement, FS_CardinalityType DEF With
<1> HIDE DEF e
<1>7. e.count = n - Cardinality(Descendants(o, c))
  BY <1>1, <1>4, <1>5, <1>6
<1> QED
  BY <1>7 DEF e, AllCounted

(* The last round of a kill. *)
LEMMA LastRound ==
  ASSUME NP!IInv, CurrentMode = "run",
         NEW g, NEW f, NEW k \in [Pcb -> Seq(Pcb)], NEW D \in SUBSET Pcb, NEW cl,
         Books(g, lists, currentProcess, sem, processCount, softBlockCount, f, k, D),
         Visited(lists.kids, currentProcess, k, D, cl),
         IsLast(k, cl),
         Scheduler([Ended(g, Head(cl)) EXCEPT !.current = NULL]), busy' = busy
  PROVE  Fine \/ Missing
<1> DEFINE a == lists  c == currentProcess  o == lists.kids  e == Ended(g, c)
           K == With(D, c)
<1>1. /\ Doomed(a, c, sem, processCount, softBlockCount)
      /\ o \in [Pcb -> Seq(Pcb)] /\ c \in Pcb
  BY DoomedIs, StateIs
<1>2. Head(cl) = c /\ Descendants(o, c) = K
  <2>1. o \in [Pcb -> Seq(Pcb)] /\ c \in Pcb /\ Visited(o, c, k, D, cl)
    BY <1>1
  <2> HIDE DEF o, c
  <2>2. Head(cl) = c
    BY <2>1, VisitEnds
  <2>3. AllVisited(o, c, D)
    BY <2>1, VisitEnds
  <2> QED
    BY <2>2, <2>3 DEF AllVisited
<1>3. Unlinks(g, a, c, sem, processCount, softBlockCount, f, k, D, c)
  BY <1>1, <1>2, UnlinkIs
<1>4. IsGlobals(e)
  BY EndedIs DEF Books
<1>5. Scheduler([e EXCEPT !.current = NULL])
  BY <1>2
<1> HIDE DEF e, K
<1>6. CASE e.missed = TRUE
  <2> DEFINE z == [e EXCEPT !.current = NULL]
  <2>1. IsGlobals(z) /\ z.missed = TRUE
    BY <1>4, <1>6, NoneRuns
  <2>2. Stuck(a, c)
    BY <1>3, <1>6 DEF Unlinks, e
  <2>3. z.count = processCount - Cardinality(Descendants(o, c))
    <3>1. z.count = e.count
      BY <1>4, NoneRuns
    <3>2. Counts(g, o, c, processCount, k, D, cl) /\ IsGlobals(g)
      BY BooksCount DEF Books
    <3>3. emptyChild(g.mem, Head(cl)) /\ Tail(cl) = <<>>
      BY <1>1, <1>2, <3>2, EmptyTree DEF Counts, IsLast
    <3>4. processCount \in Int
      BY StateIs
    <3>5. AllCounted(Ended(g, Head(cl)), o, c, processCount)
      BY <1>1, <3>2, <3>3, <3>4, CountsAll
    <3> QED
      BY <1>2, <3>1, <3>5 DEF e, AllCounted
  <2> HIDE DEF z
  <2>4. Scheduler(z)
    BY <1>5 DEF z
  <2>5. /\ DOMAIN mem' = AslLocations /\ sem' \in [SemAdd -> Int]
        /\ processCount' = z.count /\ processCount' \in Int /\ softBlockCount' \in Int
        /\ mode' \in {"run", "wait", "halt", "panic", "returned", "fault"}
        /\ missed' = z.missed
    BY <2>1, <2>4, SchedulerTypes
  <2> QED
    BY <2>1, <2>2, <2>3, <2>5 DEF Missing
<1>7. CASE e.missed = FALSE
  <2> DEFINE d == Orphaned(k, c)  h == <<c>> \o f
  <2>1. /\ Books(e, a, c, sem, processCount, softBlockCount, h, d, K)
        /\ ~ IsMiddleChild(o, c)
    BY <1>3, <1>7 DEF Unlinks, e, K
  <2>2. d = NP!KidsWithout(K)
    <3>1. k[c] = <<>> /\ With(D, c) = Descendants(o, c)
      BY <1>2 DEF K, IsLast
    <3> QED
      BY <1>1, <3>1, KidsLeft DEF K
  <2>3. K \in SUBSET Pcb /\ K = Descendants(o, c)
    BY <1>1, <1>2 DEF K, With
  <2> HIDE DEF d, h
  <2>4. Fine
    BY <1>5, <2>1, <2>2, <2>3, KillEnds
  <2> QED
    BY <2>4
<1> QED
  BY <1>4, <1>6, <1>7 DEF IsGlobals

(* The handler goes on with the kill. *)
LEMMA GoesOn ==
  ASSUME Agrees(mem, lists), missed = FALSE, CurrentMode = "run",
         NEW g, IsGlobals(g), g.mode = "run", g.current = currentProcess, NEW cl,
         Loop(g, cl, "kill"), busy' = busy,
         g.missed = TRUE => Astray(g, cl),
         g.missed = FALSE =>
            \E f, k : \E D \in SUBSET Pcb :
               /\ Books(g, lists, currentProcess, sem, processCount, softBlockCount, f, k, D)
               /\ Visited(lists.kids, currentProcess, k, D, cl)
  PROVE  Looping("kill") /\ Killing'
<1>1. /\ work' = g /\ calls' = cl /\ mode' = "kill" /\ missed' = FALSE
      /\ UNCHANGED <<mem, lists, currentProcess, sem, processCount, softBlockCount>>
  BY DEF Loop
<1>2. (IF mode \in Loops THEN work.mode ELSE mode)' = "run"
  BY <1>1 DEF Loops
<1>3. (IF mode \in Loops THEN work.mode ELSE mode) = "run"
  BY DEF CurrentMode
<1>4. NP!vars' = NP!vars
  BY <1>1, <1>2, <1>3 DEF NP!vars
<1>5. Looping("kill")
  BY <1>1, <1>4 DEF Looping
<1>6. /\ IsGlobals(work') /\ work'.mode = "run" /\ work'.current = currentProcess'
      /\ work'.missed = TRUE => Astray(work, calls)'
      /\ work'.missed = FALSE =>
            \E f, k : \E D \in SUBSET Pcb :
               /\ Books(work', lists', currentProcess', sem', processCount', softBlockCount', f, k, D)
               /\ Visited(lists'.kids, currentProcess', k, D, calls')
  BY <1>1 DEF Astray
<1>7. Killing'
  BY <1>6 DEF Killing
<1> QED
  BY <1>5, <1>7

(* A round of a kill that has missed already. *)
LEMMA MissedRound ==
  ASSUME NP!IInv, Agrees(mem, lists), missed = FALSE, Killing, work.missed = TRUE, KillEverything
  PROVE  (Looping("kill") /\ Killing') \/ Missing
<1> DEFINE p == Head(calls)  e == Ended(work, p)  n == removeChild(work.mem, p)
           z == [work EXCEPT !.mem = n.mem]  y == [e EXCEPT !.current = NULL]
           o == lists.kids  c == currentProcess
<1>1. /\ mode = "kill" /\ busy' = busy /\ CurrentMode = "run"
      /\ IsGlobals(work) /\ work.mode = "run" /\ work.current = c
      /\ Stuck(lists, c)
  BY DEF KillEverything, Killing, Astray, CurrentMode, Loops
<1>2. o \in [Pcb -> Seq(Pcb)] /\ c \in Pcb /\ processCount \in Int
  BY <1>1, StateIs
<1>3. PICK k : \E D \in SUBSET Pcb : Counts(work, o, c, processCount, k, D, calls)
  BY DEF Killing, Astray
<1>4. PICK D \in SUBSET Pcb : Counts(work, o, c, processCount, k, D, calls)
  BY <1>3
<1>5. /\ IsGlobals(z) /\ z.mode = "run" /\ z.current = c /\ z.missed = TRUE
  <2>1. DOMAIN work.mem = AslLocations
    BY <1>1 DEF IsGlobals
  <2>2. DOMAIN n.mem = AslLocations
    BY <2>1, PcbDomains
  <2> HIDE DEF n
  <2> QED
    BY <1>1, <2>2, OtherMemory
<1>6. /\ IsGlobals(e) /\ e.mode = "run" /\ e.current = c /\ e.missed = TRUE
  <2>1. /\ IsGlobals(e) /\ e.current = work.current /\ e.mode = work.mode
        /\ e.missed = (work.missed \/ MissesOf(work, p))
    BY <1>1, EndedIs
  <2> HIDE DEF e
  <2> QED
    BY <1>1, <2>1
<1>7. CASE ~ emptyChild(work.mem, p)
  <2> DEFINE cl == <<n.ptr>> \o calls
  <2>1. Loop(z, cl, "kill")
    BY <1>7 DEF KillEverything
  <2>2. Counts(z, o, c, processCount, KidTaken(k, p), D, cl)
    BY <1>1, <1>2, <1>4, <1>7, CountsDown
  <2> HIDE DEF z, cl
  <2>3. Astray(z, cl)
    BY <1>1, <2>2 DEF Astray
  <2> QED
    BY <1>1, <1>5, <2>1, <2>3, GoesOn
<1>8. CASE emptyChild(work.mem, p) /\ Tail(calls) # <<>>
  <2> DEFINE cl == Tail(calls)
  <2>1. Loop(e, cl, "kill")
    BY <1>8 DEF KillEverything
  <2>2. With(D, p) \in SUBSET Pcb /\ Counts(e, o, c, processCount, k, With(D, p), cl)
    BY <1>1, <1>2, <1>4, <1>8, CountsUp
  <2> HIDE DEF e, cl
  <2>3. Astray(e, cl)
    BY <1>1, <2>2 DEF Astray
  <2> QED
    BY <1>1, <1>6, <2>1, <2>3, GoesOn
<1>9. CASE emptyChild(work.mem, p) /\ Tail(calls) = <<>>
  <2>1. IsGlobals(y) /\ y.missed = TRUE /\ y.count = e.count
    BY <1>6, NoneRuns
  <2>2. AllCounted(e, o, c, processCount)
    BY <1>1, <1>2, <1>4, <1>9, CountsAll
  <2>3. Scheduler(y)
    BY <1>9 DEF KillEverything
  <2> HIDE DEF y, e
  <2>4. /\ DOMAIN mem' = AslLocations /\ sem' \in [SemAdd -> Int]
        /\ processCount' = y.count /\ processCount' \in Int /\ softBlockCount' \in Int
        /\ mode' \in {"run", "wait", "halt", "panic", "returned", "fault"}
        /\ missed' = y.missed
    BY <2>1, <2>3, SchedulerTypes
  <2> QED
    BY <1>1, <2>1, <2>2, <2>4 DEF Missing, AllCounted
<1> QED
  BY <1>7, <1>8, <1>9

(* A child becomes the next to be ended. *)
LEMMA RoundDown ==
  ASSUME NEW a, NEW c, NEW v, NEW n, NEW b, Doomed(a, c, v, n, b),
         NEW g, NEW f, NEW k, NEW D \in SUBSET Pcb, Books(g, a, c, v, n, b, f, k, D),
         NEW cl, Visited(a.kids, c, k, D, cl), ~ emptyChild(g.mem, Head(cl))
  PROVE  LET x == removeChild(g.mem, Head(cl)) IN
         /\ Books([g EXCEPT !.mem = x.mem], a, c, v, n, b, f, KidTaken(k, Head(cl)), D)
         /\ Visited(a.kids, c, KidTaken(k, Head(cl)), D, <<x.ptr>> \o cl)
<1> DEFINE p == Head(cl)  x == removeChild(g.mem, p)  l == KidTaken(k, p)
           r == Without(a.ready, D)  u == Less(a.waits, D)  z == [g EXCEPT !.mem = x.mem]
<1>1. /\ IsGlobals(g) /\ g.missed = FALSE /\ g.current = c /\ g.mode = "run"
      /\ Holds(g.mem, f, r, k, u) /\ Range(f) = a.free \cup D
      /\ g.count = n - Cardinality(D) /\ g.soft = b - Cardinality(Soft(a.waits) \cap D)
      /\ g.sem = SemLess(v, a.waits, D) /\ HeadsAreNot(a, D)
  BY DEF Books
<1>2. a.kids \in [Pcb -> Seq(Pcb)] /\ c \in Pcb
  BY DEF Doomed
<1>3. p \in Pcb
  <2>1. cl \in Seq(Pcb) /\ cl # <<>>
    BY DEF Visited
  <2> QED
    BY <2>1
<1> HIDE DEF p, r, u
<1>4. k[p] # <<>>
  <2>1. ~ emptyChild(g.mem, p)
    BY DEF p
  <2> QED
    BY <1>1, <1>3, <2>1, EmptyKids
<1>5. x.ptr = Head(k[p]) /\ Holds(x.mem, f, r, l, u)
  BY <1>1, <1>3, <1>4, RemoveKid DEF KidTaken
<1>6. /\ k \in [Pcb -> Seq(Pcb)]
      /\ \A q \in Pcb : IsInjective(k[q])
      /\ \A q, t \in Pcb : q # t => Range(k[q]) \cap Range(k[t]) = {}
  BY <1>1 DEF Holds, HKids
<1>7. Visited(a.kids, c, l, D, <<Head(k[p])>> \o cl)
  <2>1. Visited(a.kids, c, KidTaken(k, Head(cl)), D, <<Head(k[Head(cl)])>> \o cl)
    BY <1>2, <1>4, <1>6, VisitGoesDown DEF p
  <2> QED
    BY <2>1 DEF p
<1>8. DOMAIN x.mem = AslLocations
  BY <1>5, HoldsFacts
<1> HIDE DEF x, l
<1>9. /\ IsGlobals(z) /\ z.mem = x.mem /\ z.current = g.current /\ z.sem = g.sem
      /\ z.count = g.count /\ z.soft = g.soft /\ z.missed = g.missed /\ z.mode = g.mode
  BY <1>1, <1>8, OtherMemory
<1> HIDE DEF z
<1>10. Books(z, a, c, v, n, b, f, l, D)
  BY <1>1, <1>5, <1>9 DEF Books, r, u
<1> QED
  BY <1>5, <1>7, <1>10 DEF p, x, l, z

(* A round of the loop of killEverything. *)
LEMMA KillRoundIs ==
  ASSUME NP!IInv, Agrees(mem, lists), missed = FALSE, Killing, KillEverything
  PROVE  Fine \/ (Looping("kill") /\ Killing') \/ Missing
<1>1. CASE work.missed = TRUE
  BY <1>1, MissedRound
<1>2. CASE work.missed = FALSE
  <2> DEFINE a == lists  c == currentProcess  o == lists.kids  p == Head(calls)
             B(g, f, k, D) == Books(g, a, c, sem, processCount, softBlockCount, f, k, D)
  <2>1. /\ mode = "kill" /\ busy' = busy /\ CurrentMode = "run"
        /\ IsGlobals(work) /\ work.mode = "run" /\ work.current = currentProcess
    BY DEF KillEverything, Killing, CurrentMode, Loops
  <2>2. PICK f, k : \E D \in SUBSET Pcb : B(work, f, k, D) /\ Visited(o, c, k, D, calls)
    BY <1>2 DEF Killing
  <2>3. PICK D \in SUBSET Pcb : B(work, f, k, D) /\ Visited(o, c, k, D, calls)
    BY <2>2
  <2>4. Doomed(a, c, sem, processCount, softBlockCount) /\ o \in [Pcb -> Seq(Pcb)] /\ c \in Pcb
    BY <2>1, DoomedIs, StateIs
  <2>5. Holds(work.mem, f, Without(a.ready, D), k, Less(a.waits, D))
    BY <2>3 DEF Books
  <2>6. k \in [Pcb -> Seq(Pcb)] /\ p \in Pcb
    <3>1. calls \in Seq(Pcb) /\ calls # <<>>
      BY <2>3 DEF Visited
    <3> QED
      BY <2>5, <3>1, HoldsFacts
  <2>7. emptyChild(work.mem, p) <=> k[p] = <<>>
    <3> HIDE DEF p
    <3> QED
      BY <2>5, <2>6, EmptyKids
  <2>8. CASE ~ emptyChild(work.mem, p)
    <3> DEFINE x == removeChild(work.mem, p)  z == [work EXCEPT !.mem = x.mem]
               cl == <<x.ptr>> \o calls
    <3>1. Loop(z, cl, "kill")
      BY <2>8 DEF KillEverything
    <3>2. B(z, f, KidTaken(k, p), D) /\ Visited(o, c, KidTaken(k, p), D, cl)
      BY <2>3, <2>4, <2>8, RoundDown
    <3>3. IsGlobals(z) /\ z.mode = "run" /\ z.current = c /\ z.missed = FALSE
      BY <3>2 DEF Books
    <3> HIDE DEF z, cl
    <3> QED
      BY <2>1, <3>1, <3>2, <3>3, GoesOn
  <2>9. CASE emptyChild(work.mem, p) /\ Tail(calls) # <<>>
    <3> DEFINE e == Ended(work, p)  cl == Tail(calls)
    <3>1. Loop(e, cl, "kill")
      BY <2>9 DEF KillEverything
    <3>2. p # c /\ Visited(o, c, k, With(D, p), cl)
      BY <2>3, <2>4, <2>6, <2>7, <2>9, VisitGoesUp
    <3>3. Unlinks(work, a, c, sem, processCount, softBlockCount, f, k, D, p)
      BY <2>3, <2>4, UnlinkIs
    <3>4. IsGlobals(e) /\ e.mode = "run" /\ e.current = c
      BY <2>1, EndedIs
    <3>5. e.missed = TRUE => Astray(e, cl)
      <4>1. Counts(work, o, c, processCount, k, D, calls)
        BY <2>3, BooksCount
      <4>2. processCount \in Int
        BY <2>1, StateIs
      <4>3. With(D, p) \in SUBSET Pcb /\ Counts(e, o, c, processCount, k, With(D, p), cl)
        BY <2>1, <2>4, <2>9, <4>1, <4>2, CountsUp
      <4>4. e.missed = TRUE => Stuck(a, c)
        BY <3>3 DEF Unlinks
      <4> HIDE DEF e, cl
      <4> QED
        BY <4>3, <4>4 DEF Astray
    <3>6. e.missed = FALSE => B(e, <<p>> \o f, k, With(D, p))
      BY <3>2, <3>3 DEF Unlinks
    <3>7. With(D, p) \in SUBSET Pcb
      BY <2>6 DEF With
    <3> HIDE DEF e, cl
    <3> QED
      BY <2>1, <3>1, <3>2, <3>4, <3>5, <3>6, <3>7, GoesOn
  <2>10. CASE emptyChild(work.mem, p) /\ Tail(calls) = <<>>
    <3>1. Scheduler([Ended(work, p) EXCEPT !.current = NULL])
      BY <2>10 DEF KillEverything
    <3>2. IsLast(k, calls)
      BY <2>7, <2>10 DEF IsLast
    <3> QED
      BY <2>1, <2>3, <2>6, <3>1, <3>2, LastRound
  <2> QED
    BY <2>8, <2>9, <2>10
<1> QED
  BY <1>1, <1>2 DEF Killing, IsGlobals

(* sysCall2() up to the loop. *)
LEMMA SysCall2Is ==
  ASSUME NP!IInv, Agrees(mem, lists), missed = FALSE, SysCall2
  PROVE  Fine \/ (Looping("kill") /\ Killing') \/ Missing
<1> DEFINE a == lists  c == currentProcess  o == lists.kids  g == Globals
           B(h, f, k, D) == Books(h, a, c, sem, processCount, softBlockCount, f, k, D)
<1>1. mode = "run" /\ busy' = busy /\ CurrentMode = "run"
  BY DEF SysCall2, CurrentMode, Loops
<1>2. PICK f : Plain(g, f, a.ready, o, a.waits) /\ Range(f) = a.free
  BY <1>1, HereIs
<1>3. /\ g.mem = mem /\ g.current = c /\ g.count = processCount /\ g.soft = softBlockCount
      /\ g.sem = sem /\ g.mode = "run" /\ g.missed = FALSE
  BY <1>1 DEF Globals
<1>4. /\ Doomed(a, c, sem, processCount, softBlockCount) /\ o \in [Pcb -> Seq(Pcb)] /\ c \in Pcb
      /\ c \notin Waiting(a.waits)
  BY <1>1, DoomedIs, StateIs
<1> HIDE DEF g
<1>5. B(g, f, o, {}) /\ Visited(o, c, o, {}, <<c>>)
  BY <1>2, <1>3, <1>4, KillStarts
<1>6. Holds(g.mem, f, a.ready, o, a.waits) /\ IsGlobals(g)
  BY <1>2 DEF Plain
<1>7. emptyChild(mem, c) <=> o[c] = <<>>
  BY <1>3, <1>4, <1>6, EmptyKids
<1>8. CASE emptyChild(mem, c)
  <2>1. Scheduler(EndAlone(g))
    BY <1>8 DEF SysCall2, g
  <2>2. g.mem[p_semAdd(g.current)] = NULL
    BY <1>3, <1>4, <1>6, NotMarked
  <2>3. EndAlone(g) = [Ended(g, c) EXCEPT !.current = NULL]
    BY <1>3, <1>6, <2>2, EndsAlone
  <2> DEFINE cl == <<c>>
  <2>4. Head(cl) = c /\ Tail(cl) = <<>>
    BY <1>4
  <2>5. IsLast(o, cl) /\ Visited(o, c, o, {}, cl)
    BY <1>5, <1>7, <1>8, <2>4 DEF IsLast
  <2> HIDE DEF cl
  <2>6. Scheduler([Ended(g, Head(cl)) EXCEPT !.current = NULL])
    BY <2>1, <2>3, <2>4
  <2>7. {} \in SUBSET Pcb
    OBVIOUS
  <2> QED
    BY <1>1, <1>4, <1>5, <2>5, <2>6, <2>7, LastRound
<1>9. CASE ~ emptyChild(mem, c)
  <2> DEFINE cl == <<c>>
  <2>1. Loop(g, cl, "kill")
    BY <1>9 DEF SysCall2, g
  <2>2. {} \in SUBSET Pcb
    OBVIOUS
  <2> QED
    BY <1>1, <1>3, <1>5, <1>6, <2>1, <2>2, GoesOn
<1> QED
  BY <1>8, <1>9

------------------------------------------------------------------------------
(* The memory main() leaves.                                                *)

\* The locations that the first call of allocPcb() and the free list are about.
BootArea == {FreeHead} \cup ({"p_next"} \X Pcb) \cup (Fields \X {RootPcb})

(* The free list as main() finds it, and what else is in memory then. *)
LEMMA FreshMemory ==
  ASSUME NEW pcbs \in Orders(Pcb), NEW semds \in Orders(SemdPool)
  PROVE  LET m == InitASL([l \in AslLocations |-> NULL], semds)
             n == Stacked(m, FreeHead, "p_next", pcbs)
         IN  /\ pcbs \in Seq(Pcb) /\ IsInjective(pcbs) /\ Range(pcbs) = Pcb /\ pcbs # <<>>
             /\ HWaits(m, [s \in SemAdd |-> <<>>])
             /\ \A l \in Locations : m[l] = NULL
             /\ Linked(n, "p_next", FreeHead, pcbs)
             /\ IsAslMemory(n)
             /\ Same(m, n, AslLocations \ ({FreeHead} \cup ({"p_next"} \X Pcb)))
<1> DEFINE m == InitASL([l \in AslLocations |-> NULL], semds)
           n == Stacked(m, FreeHead, "p_next", pcbs)
           L == {FreeHead} \cup ({"p_next"} \X Pcb)
<1>1. pcbs \in Seq(Pcb) /\ IsInjective(pcbs) /\ Range(pcbs) = Pcb /\ pcbs # <<>>
  <2>1. pcbs \in Seq(Pcb) /\ IsInjective(pcbs) /\ Range(pcbs) = Pcb
    BY OrderFacts, BlockAssumption
  <2> QED
    BY <2>1, BlockAssumption, EmptyQueue
<1>2. Kept(m) /\ QueuesIn(m) = [s \in SemAdd |-> <<>>]
  BY InitGood
<1>3. DOMAIN m = AslLocations /\ \A l \in Locations : m[l] = NULL
  <2>1. m = [l \in AslLocations |-> m[l]] /\ \A l \in Locations : m[l] = NULL
    BY InitASLWrites
  <2> QED
    BY <2>1
<1>4. HWaits(m, [s \in SemAdd |-> <<>>])
  BY <1>2 DEF HWaits
<1> HIDE DEF m
<1>5. Blank(m, FreeHead, "p_next", Pcb)
  <2>1. /\ FreeHead \in Locations /\ {"p_next"} \X Pcb \subseteq Locations
        /\ FreeHead \notin {"p_next"} \X Pcb /\ \A x \in Pcb : <<"p_next", x>> \in Locations
    BY DEF Locations, Fields, FreeHead
  <2>2. Locations \subseteq AslLocations
    BY AslLocationFacts
  <2> QED
    BY <1>3, <2>1, <2>2 DEF Blank
<1>6. /\ Linked(n, "p_next", FreeHead, pcbs)
      /\ n = [l \in DOMAIN m |-> n[l]]
      /\ \A l \in DOMAIN m \ L : n[l] = m[l]
  BY <1>1, <1>5, StackedLinked
<1> HIDE DEF n
<1>7. \A x \in Pcb : n[<<"p_next", x>>] \in Pcb \cup {NULL}
  <2> TAKE x \in Pcb
  <2>1. PICK i \in 1 .. Len(pcbs) : pcbs[i] = x
    BY <1>1, RangeOf
  <2>2. i # Len(pcbs) => pcbs[i + 1] \in Pcb
    BY <1>1
  <2> QED
    BY <1>6, <2>1, <2>2 DEF Linked
<1>8. n[FreeHead] \in Pcb
  BY <1>1, <1>6 DEF Linked
<1>9. IsAslMemory(n) /\ Same(m, n, AslLocations \ L)
  <2>1. n = [l \in AslLocations |-> n[l]] /\ \A l \in AslLocations \ L : n[l] = m[l]
    BY <1>3, <1>6
  <2>2. Locations \subseteq AslLocations
    BY AslLocationFacts
  <2>3. \A l \in Locations : n[l] \in Pcb \cup {NULL}
    <3> TAKE l \in Locations
    <3>1. CASE l \in L
      BY <1>7, <1>8, <3>1
    <3>2. CASE l \notin L
      BY <1>3, <2>1, <2>2, <3>2
    <3> QED
      BY <3>1, <3>2
  <2> QED
    BY <2>1, <2>3 DEF IsAslMemory, Same
<1> QED
  BY <1>1, <1>3, <1>4, <1>6, <1>9 DEF m, n

(* The memory main() starts the first process in. *)
LEMMA BootMemory ==
  ASSUME NEW pcbs \in Orders(Pcb), NEW semds \in Orders(SemdPool), pcbs[1] = RootPcb
  PROVE  LET q == [p \in Pcb |-> <<>>]  w == [s \in SemAdd |-> <<>>] IN
         /\ Holds(InitialMemory(pcbs, semds), Tail(pcbs), <<>>, q, w)
         /\ Range(Tail(pcbs)) = Pcb \ {RootPcb}
<1> DEFINE m == InitASL([l \in AslLocations |-> NULL], semds)
           n == Stacked(m, FreeHead, "p_next", pcbs)
           r == allocPcb(n)  z == r.mem
           k == [p \in Pcb |-> <<>>]  w == [s \in SemAdd |-> <<>>]
           L == {FreeHead} \cup (Fields \X {RootPcb})
<1>1. /\ pcbs \in Seq(Pcb) /\ IsInjective(pcbs) /\ Range(pcbs) = Pcb /\ pcbs # <<>>
      /\ HWaits(m, w)
      /\ \A l \in Locations : m[l] = NULL
      /\ Linked(n, "p_next", FreeHead, pcbs)
      /\ IsAslMemory(n)
      /\ Same(m, n, AslLocations \ ({FreeHead} \cup ({"p_next"} \X Pcb)))
  BY FreshMemory
<1>2. z = InitialMemory(pcbs, semds)
  BY DEF InitialMemory
<1> HIDE DEF m, n
<1>3. /\ Linked(z, "p_next", FreeHead, Tail(pcbs)) /\ Changes(n, z, L)
      /\ \A l \in Fields \X {RootPcb} : z[l] = NULL
  <2>1. IsMemory(n) /\ Head(pcbs) = RootPcb
    BY <1>1, AslMemoryIs
  <2> QED
    BY <1>1, <2>1, AllocLinked
<1> HIDE DEF z
<1>4. IsAslMemory(z) /\ Same(n, z, AslLocations \ L)
  BY <1>1, <1>3, ChangesAre
<1>5. Same(m, z, AslLocations \ BootArea)
  BY <1>1, <1>4 DEF Same, BootArea
<1>6. /\ \A l \in Locations \ BootArea : z[l] = NULL
      /\ \A l \in Fields \X {RootPcb} : z[l] = NULL
  BY <1>1, <1>3, <1>5, AslLocationFacts DEF Same
<1>7. \A l \in Locations \ ({FreeHead} \cup ({"p_next"} \X Pcb)) : z[l] = NULL
  BY <1>6 DEF BootArea
<1>8. Tail(pcbs) \in Seq(Pcb) /\ IsInjective(Tail(pcbs)) /\ Range(Tail(pcbs)) = Pcb \ {RootPcb}
  BY <1>1, RangeTail
<1>9. HFree(z, Tail(pcbs))
  BY <1>3, <1>8 DEF HFree
<1>10. HReady(z, <<>>)
  <2>1. readyQ \in Locations \ ({FreeHead} \cup ({"p_next"} \X Pcb))
    BY NucleusAssumption DEF readyQ, tail, FreeHead, Locations
  <2>2. z[readyQ] = NULL
    BY <1>7, <2>1
  <2>3. Ring(z, readyQ, <<>>)
    BY <2>2 DEF Ring
  <2> QED
    BY <2>3, EmptyQueue DEF HReady, IsInjective
<1>11. HKids(z, k)
  <2>1. \A p \in Pcb : k[p] = <<>>
    OBVIOUS
  <2>2. k \in [Pcb -> Seq(Pcb)]
    OBVIOUS
  <2> HIDE DEF k
  <2>3. \A p \in Pcb : z[child(p)] = NULL
    BY <1>7, LocationFacts DEF child, FreeHead
  <2>4. \A p \in Pcb : IsInjective(k[p]) /\ Range(k[p]) = {} /\ Family(z, p, k[p])
    BY <2>1, <2>3, FamilyFacts, EmptyQueue DEF IsInjective
  <2>5. z[parent(RootPcb)] = NULL
    BY <1>7, NucleusAssumption, FamilyLocations DEF parent, FreeHead
  <2> QED
    BY <2>2, <2>4, <2>5 DEF HKids
<1>12. HWaits(z, w)
  <2>1. Waiting(w) = {}
    BY EmptyQueue DEF Waiting
  <2>2. HWaits(m, w)
    BY <1>1
  <2> HIDE DEF w
  <2>3. Same(m, z, WaitArea({}))
    <3> SUFFICES ASSUME NEW l \in WaitArea({}) PROVE z[l] = m[l]
      BY DEF Same
    <3>1. l \in AslLocations
      BY AreasThere
    <3>2. CASE l \in BootArea
      <4>1. l \in Fields \X {RootPcb}
        BY <3>2 DEF BootArea, WaitArea, WaitLocs, ListLocs, FreeHead, tail, SemdFree, SemdActive
      <4>2. l \in Locations
        BY <4>1, NucleusAssumption DEF Locations
      <4> QED
        BY <1>1, <1>6, <4>1, <4>2
    <3>3. CASE l \notin BootArea
      BY <1>5, <3>1, <3>3 DEF Same
    <3> QED
      BY <3>2, <3>3
  <2> QED
    BY <1>4, <2>1, <2>2, <2>3, WaitsSame
<1>13. Range(<<>>) = {} /\ Waiting(w) = {}
  BY EmptyQueue DEF Waiting
<1>14. Apart(Tail(pcbs), <<>>, w)
  BY <1>13 DEF Apart
<1> HIDE DEF k, w
<1>15. Holds(z, Tail(pcbs), <<>>, k, w)
  BY <1>9, <1>10, <1>11, <1>12, <1>14 DEF Holds
<1> QED
  BY <1>2, <1>8, <1>15 DEF k, w

------------------------------------------------------------------------------
(* The invariant.                                                           *)

\* The modes outside of the loops.
Ends == {"run", "wait", "halt", "panic", "returned"}

(* main() leaves what Nucleus starts with. *)
LEMMA InitIs ==
  ASSUME Init
  PROVE  /\ NP!Init /\ Agrees(mem, lists) /\ missed = FALSE /\ mode = "run" /\ busy = {}
<1> DEFINE k == [p \in Pcb |-> <<>>]  w == [s \in SemAdd |-> <<>>]
<1>1. PICK pcbs \in Orders(Pcb), semds \in Orders(SemdPool) :
         pcbs[1] = RootPcb /\ InitWith(pcbs, semds)
  BY DEF Init
<1>2. /\ mem = InitialMemory(pcbs, semds) /\ lists = ListsIn(mem)
      /\ currentProcess = RootPcb /\ processCount = 1 /\ softBlockCount = 0
      /\ busy = {} /\ mode = "run" /\ missed = FALSE
  BY <1>1 DEF InitWith
<1>3. /\ Holds(mem, Tail(pcbs), <<>>, k, w) /\ Range(Tail(pcbs)) = Pcb \ {RootPcb}
  BY <1>1, <1>2, BootMemory
<1>4. sem \in [SemAdd -> 0 .. MaxSem] /\ \A s \in semd : sem[s] = 0
  BY DEF Init
<1> HIDE DEF k, w
<1>5. lists = [free |-> Pcb \ {RootPcb}, ready |-> <<>>, kids |-> k, waits |-> w]
  BY <1>2, <1>3, HoldsLists
<1>6. Shows(mem, lists, Tail(pcbs), <<>>, k, w)
  BY <1>3, <1>5 DEF Shows
<1>7. /\ lists.free = Pcb \ {RootPcb} /\ lists.ready = <<>> /\ lists.kids = k /\ lists.waits = w
  BY <1>5
<1>8. CurrentMode = "run"
  BY <1>2 DEF CurrentMode, Loops
<1>9. NP!Sem = SemAdd /\ NP!Semd = semd
  BY NucleusAssumption DEF NP!Sem, NP!Semd, semd
<1>10. NP!Init
  BY <1>2, <1>4, <1>7, <1>8, <1>9 DEF NP!Init, CurrentMode, k, w
<1> QED
  BY <1>2, <1>6, <1>10 DEF Agrees

\* While nothing has been missed memory holds the lists of a state of Nucleus,
\* and in a loop that part of them the loop has left.
Sound ==
    missed = FALSE =>
       /\ NP!IInv /\ Agrees(mem, lists)
       /\ \/ mode \in Ends
          \/ mode = "kill" /\ Killing
          \/ mode = "wake" /\ Waking

\* The invariant.
MInv == TypeOK /\ Sound

(* Each step does what Nucleus does, goes on in a loop, or misses. *)
LEMMA StepIs ==
  ASSUME MInv, Next
  PROVE  /\ missed = FALSE /\ NP!IInv
         /\ \/ Fine
            \/ Looping("kill") /\ Killing'
            \/ Looping("wake") /\ Waking'
            \/ Missing /\ CurrentMode = "run"
<1>1. missed = FALSE
  BY DEF MInv, TypeOK, Next
<1>2. /\ NP!IInv /\ Agrees(mem, lists)
      /\ mode = "kill" => Killing
      /\ mode = "wake" => Waking
  BY <1>1 DEF MInv, Sound, Ends
<1>3. CASE SysCall1
  BY <1>1, <1>2, <1>3, SysCall1Is
<1>4. CASE SysCall2
  BY <1>1, <1>2, <1>4, SysCall2Is DEF SysCall2, CurrentMode, Loops
<1>5. CASE SysCall7
  BY <1>1, <1>2, <1>5, SysCall7Is
<1>6. CASE \E s \in Mutex : SysCall3(s)
  BY <1>1, <1>2, <1>6, SysCall3Is
<1>7. CASE \E s \in Mutex : SysCall4(s)
  BY <1>1, <1>2, <1>7, SysCall4Is
<1>8. CASE \E d \in Device : SysCall8(d)
  BY <1>1, <1>2, <1>8, SysCall8Is
<1>9. CASE \E d \in Device : StartIO(d)
  BY <1>1, <1>2, <1>9, StartIOIs
<1>10. CASE \E d \in Device : DeviceInterrupt(d)
  BY <1>1, <1>2, <1>10, DeviceInterruptIs
<1>11. CASE LocalTimer
  BY <1>1, <1>2, <1>11, LocalTimerIs
<1>12. CASE IntervalTimer
  BY <1>1, <1>2, <1>12, IntervalTimerIs DEF Looping
<1>13. CASE KillEverything
  <2>1. Killing
    BY <1>2, <1>13 DEF KillEverything
  <2>2. CurrentMode = "run"
    BY <1>13, <2>1 DEF KillEverything, Killing, CurrentMode, Loops
  <2> QED
    BY <1>1, <1>2, <1>13, <2>1, <2>2, KillRoundIs
<1>14. CASE WakeAll
  <2>1. Waking
    BY <1>2, <1>14 DEF WakeAll
  <2> QED
    BY <1>1, <1>2, <1>14, <2>1, WakeAllIs DEF Looping
<1> QED
  BY <1>1, <1>2, <1>3, <1>4, <1>5, <1>6, <1>7, <1>8, <1>9, <1>10, <1>11, <1>12, <1>13, <1>14
  DEF Next

(* Only devices work. *)
LEMMA BusyStays ==
  ASSUME busy \in SUBSET Device, [Next]_vars
  PROVE  busy' \in SUBSET Device
BY DEF vars, Next, SysCall1, SysCall2, SysCall7, SysCall3, SysCall4, SysCall8, Passeren, StartIO,
       DeviceInterrupt, LocalTimer, IntervalTimer, KillEverything, WakeAll

(* The types follow. *)
LEMMA SoundTypes ==
  Sound /\ missed = FALSE /\ busy \in SUBSET Device => TypeOK
<1> SUFFICES ASSUME Sound, missed = FALSE, busy \in SUBSET Device
             PROVE  TypeOK
  OBVIOUS
<1>1. NP!IInv /\ Agrees(mem, lists)
  BY DEF Sound
<1>2. /\ lists.ready \in Seq(Pcb) /\ lists.waits \in [SemAdd -> Seq(Pcb)]
      /\ sem \in [SemAdd -> Int] /\ processCount \in Int /\ softBlockCount \in Int
      /\ currentProcess \in Pcb \cup {NULL} /\ CurrentMode # "returned"
  BY <1>1, StateIs
<1>3. DOMAIN mem = AslLocations
  BY <1>1, HoldsFacts DEF Agrees, Shows
<1>4. mode \in Ends \cup Loops /\ mode # "returned"
  BY <1>2 DEF Sound, Ends, Loops, CurrentMode
<1>5. mode \in Loops => DOMAIN work.mem = AslLocations
  BY DEF Sound, Ends, Loops, Killing, Waking, IsGlobals
<1>6. mode = "kill" /\ ~ work.missed => calls \in Seq(Pcb) \ {<<>>}
  <2> SUFFICES ASSUME mode = "kill", ~ work.missed
               PROVE  calls \in Seq(Pcb) \ {<<>>}
    OBVIOUS
  <2>1. Killing
    BY DEF Sound, Ends
  <2>2. work.missed = FALSE
    BY <2>1 DEF Killing, IsGlobals
  <2> QED
    BY <2>1, <2>2 DEF Killing, Visited
<1>7. mode \in {"run", "wait", "halt", "panic", "returned", "fault"} \cup Loops
      /\ mode \notin {"returned", "fault"}
  BY <1>4 DEF Ends, Loops
<1> QED
  BY <1>2, <1>3, <1>5, <1>6, <1>7 DEF TypeOK

(* main() establishes the invariant. *)
LEMMA MInit == Init => MInv
<1> SUFFICES ASSUME Init PROVE MInv
  OBVIOUS
<1>1. NP!Init /\ Agrees(mem, lists) /\ missed = FALSE /\ mode = "run" /\ busy = {}
  BY InitIs
<1>2. NP!IInv
  BY <1>1, NP!InitStep, NPAssumptions
<1>3. Sound
  BY <1>1, <1>2 DEF Sound, Ends
<1> QED
  BY <1>1, <1>3, SoundTypes DEF MInv

(* Every step keeps it. *)
LEMMA MNext == MInv /\ [Next]_vars => MInv'
<1> SUFFICES ASSUME MInv, [Next]_vars PROVE MInv'
  OBVIOUS
<1>1. busy' \in SUBSET Device
  BY BusyStays DEF MInv, TypeOK
<1>2. (Sound /\ missed = FALSE /\ busy \in SUBSET Device => TypeOK)'
  BY SoundTypes, PTL
<1>3. CASE Next
  <2>1. /\ NP!IInv
        /\ \/ Fine
           \/ Looping("kill") /\ Killing'
           \/ Looping("wake") /\ Waking'
           \/ Missing
    BY <1>3, StepIs
  <2>2. ASSUME [NP!Next]_(NP!vars) PROVE NP!IInv'
    BY <2>1, <2>2, NP!NextStep, NPAssumptions
  <2>3. CASE Fine
    <3>1. Sound' /\ missed' = FALSE
      BY <2>2, <2>3 DEF Fine, Sound, Ends
    <3> QED
      BY <1>1, <1>2, <3>1 DEF MInv
  <2>4. CASE Looping("kill") /\ Killing'
    <3>1. Sound' /\ missed' = FALSE
      BY <2>2, <2>4 DEF Looping, Sound
    <3> QED
      BY <1>1, <1>2, <3>1 DEF MInv
  <2>5. CASE Looping("wake") /\ Waking'
    <3>1. Sound' /\ missed' = FALSE
      BY <2>2, <2>5 DEF Looping, Sound
    <3> QED
      BY <1>1, <1>2, <3>1 DEF MInv
  <2>6. CASE Missing
    BY <1>1, <2>6 DEF Missing, MInv, Sound, TypeOK, Loops
  <2> QED
    BY <2>1, <2>3, <2>4, <2>5, <2>6
<1>4. CASE UNCHANGED vars
  <2>1. TypeOK'
    BY <1>4 DEF vars, MInv, TypeOK
  <2>2. CASE missed # FALSE
    BY <1>4, <2>1, <2>2 DEF vars, MInv, Sound
  <2>3. CASE missed = FALSE
    <3>1. NP!vars' = NP!vars
      BY <1>4 DEF vars, NP!vars
    <3>2. NP!IInv'
      BY <2>3, <3>1, NP!NextStep, NPAssumptions DEF MInv, Sound
    <3>3. Agrees(mem', lists')
      BY <1>4, <2>3 DEF vars, MInv, Sound
    <3>4. (Killing => Killing') /\ (Waking => Waking') /\ mode' = mode
      BY <1>4 DEF vars, Killing, Astray, Waking
    <3> QED
      BY <2>1, <2>3, <3>2, <3>3, <3>4 DEF MInv, Sound
  <2> QED
    BY <2>2, <2>3
<1> QED
  BY <1>3, <1>4

(* Whatever the nucleus does, as long as it has missed nothing memory holds
   the lists of a state of Nucleus in which its invariant holds, and a handler
   in a loop has done its part of the work and no other. *)
THEOREM Invariance == Spec => []MInv
BY MInit, MNext, PTL DEF Spec

(* The invariant TypeOK: no tail pointer loses its queue, removeProcQ follows no
   null pointer and scheduler() does not return, until an unlinking misses. *)
THEOREM TypeCorrectness == Spec => []TypeOK
<1>1. MInv => TypeOK
  BY DEF MInv
<1> QED
  BY <1>1, Invariance, PTL

(* What is proved of the lists of Nucleus is true of those in memory as long as
   nothing has been missed: no process is lost or in two places, the counters
   and the semaphores agree with the queues, the scheduler is right about the
   machine and the processes are one tree. *)
THEOREM MemorySafety ==
  Spec => [](~ missed => /\ NP!NoProcessLost /\ NP!CountsAgree /\ NP!SemaphoresAgree
                         /\ NP!VerdictIsRight /\ NP!OneTree)
<1>1. MInv => (~ missed => /\ NP!NoProcessLost /\ NP!CountsAgree /\ NP!SemaphoresAgree
                           /\ NP!VerdictIsRight /\ NP!OneTree)
  BY DEF MInv, Sound, NP!IInv
<1> QED
  BY <1>1, Invariance, PTL

------------------------------------------------------------------------------
(* The nucleus on lists is implemented.                                     *)

(* The operators of both instances of Nucleus are the same. *)
LEMMA SameHelpers ==
  /\ NP!vars = Lists!vars
  /\ NP!Sem = Lists!Sem /\ NP!Semd = Lists!Semd
  /\ \A S : NP!Cardinality(S) = Lists!Cardinality(S)
  /\ \A q : NP!Range(q) = Lists!Range(q)
  /\ \A q, K : NP!Without(q, K) = Lists!Without(q, K)
  /\ \A k, p : NP!Descendants(k, p) = Lists!Descendants(k, p)
  /\ \A k, p : NP!IsMiddleChild(k, p) <=> Lists!IsMiddleChild(k, p)
<1>1. NP!vars = Lists!vars
  BY DEF NP!vars, Lists!vars
<1>2. NP!Sem = Lists!Sem /\ NP!Semd = Lists!Semd
  BY DEF NP!Sem, Lists!Sem, NP!Semd, Lists!Semd
<1>3. \A S : NP!Cardinality(S) = Lists!Cardinality(S)
  BY DEF NP!Cardinality, Lists!Cardinality
<1>4. \A q : NP!Range(q) = Lists!Range(q)
  BY DEF NP!Range, Lists!Range
<1>5. \A q, K : NP!Without(q, K) = Lists!Without(q, K)
  BY <1>3, <1>4 DEF NP!Without, Lists!Without
<1>6. \A k, K : NP!ChildClosed(k, K) <=> Lists!ChildClosed(k, K)
  BY <1>4 DEF NP!ChildClosed, Lists!ChildClosed
<1>7. \A k, p : NP!Descendants(k, p) = Lists!Descendants(k, p)
  BY <1>6 DEF NP!Descendants, Lists!Descendants
<1>8. \A k, p : NP!IsMiddleChild(k, p) <=> Lists!IsMiddleChild(k, p)
  BY DEF NP!IsMiddleChild, Lists!IsMiddleChild
<1> QED
  BY <1>1, <1>2, <1>3, <1>4, <1>5, <1>7, <1>8

(* scheduler(), done() and insertBlocked() are the same in both instances. *)
LEMMA SameScheduler ==
  /\ \A q, n, b : NP!Scheduler(q, n, b) => Lists!Scheduler(q, n, b)
  /\ \A q, b : NP!Done(q, b) => Lists!Done(q, b)
  /\ NP!Resume => Lists!Resume
  /\ \A s : NP!InsertBlocked(s) => Lists!InsertBlocked(s)
<1>1. \A q, n, b : NP!Scheduler(q, n, b) => Lists!Scheduler(q, n, b)
  BY DEF NP!Scheduler, Lists!Scheduler
<1>2. \A q, b : NP!Done(q, b) => Lists!Done(q, b)
  BY <1>1 DEF NP!Done, Lists!Done
<1>3. NP!Resume => Lists!Resume
  BY DEF NP!Resume, Lists!Resume
<1>4. NP!ActiveSemd = Lists!ActiveSemd
  BY SameHelpers DEF NP!ActiveSemd, Lists!ActiveSemd
<1>5. \A s : NP!DescriptorFor(s) <=> Lists!DescriptorFor(s)
  BY <1>4, SameHelpers DEF NP!DescriptorFor, Lists!DescriptorFor
<1>6. \A s : NP!InsertBlocked(s) => Lists!InsertBlocked(s)
  BY <1>5 DEF NP!InsertBlocked, Lists!InsertBlocked
<1> QED
  BY <1>1, <1>2, <1>3, <1>6

(* killEverything() is the same in both instances. *)
LEMMA SameKill ==
  /\ NP!Subtree(currentProcess) = Lists!Subtree(currentProcess)
  /\ \A K : NP!OutOfReach(K) <=> Lists!OutOfReach(K)
  /\ \A K : NP!KillEverything(K) => Lists!KillEverything(K)
<1>1. NP!Subtree(currentProcess) = Lists!Subtree(currentProcess)
  BY SameHelpers DEF NP!Subtree, Lists!Subtree
<1>2. \A K : NP!OutOfReach(K) <=> Lists!OutOfReach(K)
  BY SameHelpers DEF NP!OutOfReach, Lists!OutOfReach
<1>3. \A K : NP!KidsWithout(K) = Lists!KidsWithout(K)
  BY SameHelpers DEF NP!KidsWithout, Lists!KidsWithout
<1>4. \A K : NP!SemWithout(K) = Lists!SemWithout(K)
  BY SameHelpers DEF NP!SemWithout, Lists!SemWithout
<1>5. NP!SoftBlocked = Lists!SoftBlocked
  BY SameHelpers DEF NP!SoftBlocked, Lists!SoftBlocked
<1>6. \A K : NP!SoftWithout(K) = Lists!SoftWithout(K)
  BY <1>5, SameHelpers DEF NP!SoftWithout, Lists!SoftWithout
<1>7. ASSUME NEW K, NP!KillEverything(K) PROVE Lists!KillEverything(K)
  BY <1>3, <1>4, <1>6, <1>7, SameHelpers, SameScheduler DEF NP!KillEverything, Lists!KillEverything
<1> QED
  BY <1>1, <1>2, <1>7

(* The initial states are the same in both instances. *)
LEMMA SameInit == NP!Init => Lists!Init
BY SameHelpers DEF NP!Init, Lists!Init

(* The steps are the same in both instances. *)
LEMMA SameStep == [NP!Next]_(NP!vars) => [Lists!Next]_(Lists!vars)
<1>1. NP!SysCall1 => Lists!SysCall1
  BY SameScheduler DEF NP!SysCall1, Lists!SysCall1
<1>2. NP!SysCall1Fails => Lists!SysCall1Fails
  BY SameHelpers DEF NP!SysCall1Fails, Lists!SysCall1Fails, NP!vars, Lists!vars
<1>3. NP!SysCall2 => Lists!SysCall2
  BY SameKill DEF NP!SysCall2, Lists!SysCall2, NP!Terminate, Lists!Terminate
<1>4. NP!SysCall7 => Lists!SysCall7
  BY SameScheduler DEF NP!SysCall7, Lists!SysCall7
<1>5. ASSUME NEW s, NP!SysCall3(s) PROVE Lists!SysCall3(s)
  BY <1>5, SameScheduler DEF NP!SysCall3, Lists!SysCall3
<1>6. ASSUME NEW s, NP!SysCall4(s) PROVE Lists!SysCall4(s)
  BY <1>6, SameScheduler DEF NP!SysCall4, Lists!SysCall4
<1>7. ASSUME NEW d, NP!SysCall8(d) PROVE Lists!SysCall8(d)
  BY <1>7, SameScheduler DEF NP!SysCall8, Lists!SysCall8
<1>8. ASSUME NEW d, NP!StartIO(d) PROVE Lists!StartIO(d)
  BY <1>8 DEF NP!StartIO, Lists!StartIO
<1>9. ASSUME NEW d, NP!DeviceInterrupt(d) PROVE Lists!DeviceInterrupt(d)
  <2>1. NP!Signal(d) => Lists!Signal(d)
    BY SameScheduler DEF NP!Signal, Lists!Signal
  <2> QED
    BY <1>9, <2>1 DEF NP!DeviceInterrupt, Lists!DeviceInterrupt
<1>10. NP!LocalTimer => Lists!LocalTimer
  BY SameScheduler DEF NP!LocalTimer, Lists!LocalTimer
<1>11. NP!IntervalTimer => Lists!IntervalTimer
  BY SameScheduler DEF NP!IntervalTimer, Lists!IntervalTimer
<1>12. NP!Next => Lists!Next
  BY <1>1, <1>2, <1>3, <1>4, <1>5, <1>6, <1>7, <1>8, <1>9, <1>10, <1>11 DEF NP!Next, Lists!Next
<1> QED
  BY <1>12 DEF NP!vars, Lists!vars

(* The pointers implement Nucleus: every handler of exceptions.c and interrupts.c
   does to the lists in memory what Nucleus says, for any number of processes
   and semaphores, and only a kill with a victim out of reach misses one. *)
THEOREM Implementation == Spec => ImplementsNucleus
<1>1. Init => Lists!Init
  BY InitIs, SameInit
<1>2. ASSUME MInv, [Next]_vars
      PROVE  [IF missed' THEN missed \/ Lists!OutOfReach(Lists!Subtree(currentProcess))
              ELSE [Lists!Next]_(Lists!vars)]_vars
  <2>1. CASE UNCHANGED vars
    BY <2>1
  <2>2. CASE Next
    <3>1. /\ missed = FALSE /\ NP!IInv
          /\ \/ Fine
             \/ Looping("kill") /\ Killing'
             \/ Looping("wake") /\ Waking'
             \/ Missing /\ CurrentMode = "run"
      BY <1>2, <2>2, StepIs
    <3>2. CASE Fine
      <4>1. missed' = FALSE /\ [Lists!Next]_(Lists!vars)
        BY <3>2, SameStep DEF Fine
      <4> QED
        BY <4>1
    <3>3. CASE Looping("kill") \/ Looping("wake")
      <4>1. missed' = FALSE /\ [Lists!Next]_(Lists!vars)
        BY <3>3 DEF Looping, NP!vars, Lists!vars
      <4> QED
        BY <4>1
    <3>4. CASE Missing /\ CurrentMode = "run"
      <4>1. /\ missed' = TRUE /\ Stuck(lists, currentProcess)
        BY <3>4 DEF Missing
      <4>2. NP!OutOfReach(NP!Subtree(currentProcess))
        BY <3>1, <3>4, <4>1, DoomedIs
      <4>3. Lists!OutOfReach(Lists!Subtree(currentProcess))
        BY <4>2, SameKill
      <4> QED
        BY <4>1, <4>3
    <3> QED
      BY <3>1, <3>2, <3>3, <3>4
  <2> QED
    BY <1>2, <2>1, <2>2
<1>3. QED
  BY <1>1, <1>2, Invariance, PTL DEF Spec, ImplementsNucleus

(* A step of Nucleus that lowers processCount is the kill of one subtree. *)
LEMMA FineKills ==
  ASSUME NP!IInv, Fine, processCount' < processCount
  PROVE  /\ processCount' = processCount - Cardinality(Lists!Subtree(currentProcess))
         /\ lists'.free = lists.free \cup Lists!Subtree(currentProcess)
<1> DEFINE K == NP!Subtree(currentProcess)
<1>1. processCount \in Int
  BY StateIs
<1>2. NP!Next
  BY <1>1 DEF Fine, NP!vars
<1>3. \A q, n, b : NP!Scheduler(q, n, b) => processCount' = n
  BY DEF NP!Scheduler
<1>4. ~ (processCount' = processCount) /\ ~ (processCount' = processCount + 1)
  BY <1>1
<1>5. NP!Terminate
  <2>1. ~ NP!SysCall1 /\ ~ NP!SysCall1Fails
    BY <1>4 DEF NP!SysCall1, NP!SysCall1Fails, NP!vars
  <2>2. \A s : ~ NP!SysCall3(s) /\ ~ NP!SysCall4(s)
    BY <1>3, <1>4 DEF NP!SysCall3, NP!SysCall4
  <2>3. \A d : ~ NP!SysCall8(d) /\ ~ NP!StartIO(d) /\ ~ NP!SysCall7
    BY <1>3, <1>4 DEF NP!SysCall8, NP!StartIO, NP!SysCall7
  <2>4. \A q, b : ~ NP!Done(q, b)
    BY <1>3, <1>4 DEF NP!Done
  <2>5. \A d : ~ NP!DeviceInterrupt(d) /\ ~ NP!LocalTimer /\ ~ NP!IntervalTimer
    BY <2>4 DEF NP!DeviceInterrupt, NP!Signal, NP!LocalTimer, NP!IntervalTimer
  <2> QED
    BY <1>2, <2>1, <2>2, <2>3, <2>5 DEF NP!Next, NP!SysCall2
<1>6. NP!KillEverything(K)
  BY <1>4, <1>5 DEF NP!Terminate
<1>7. processCount' = processCount - NP!Cardinality(K) /\ lists'.free = lists.free \cup K
  BY <1>3, <1>6 DEF NP!KillEverything
<1> QED
  BY <1>7, NPOperators, SameKill

(* killEverything() ends one subtree: for any number of processes and any shape
   of the tree, the calls it makes to itself visit the running process and each
   of its descendants once, so that processCount falls by their number, even
   when a block among them could not be unlinked; and when all could, these
   blocks and no others join the free list. *)
THEOREM KillsRight == Spec => KillsOneSubtree
<1> DEFINE K == Lists!Subtree(currentProcess)
           A == processCount' < processCount =>
                  /\ processCount' = processCount - Cardinality(K)
                  /\ ~ missed' => lists'.free = lists.free \cup K
<1>1. ASSUME MInv, [Next]_vars, processCount' < processCount
      PROVE  /\ processCount' = processCount - Cardinality(K)
             /\ ~ missed' => lists'.free = lists.free \cup K
  <2>1. processCount' # processCount
    BY <1>1 DEF MInv, TypeOK
  <2>2. /\ NP!IInv
        /\ \/ Fine
           \/ Looping("kill") \/ Looping("wake")
           \/ Missing /\ CurrentMode = "run"
    BY <1>1, <2>1, StepIs DEF vars
  <2>3. CASE Fine
    BY <1>1, <2>2, <2>3, FineKills
  <2>4. CASE Looping("kill") \/ Looping("wake")
    BY <2>1, <2>4 DEF Looping, NP!vars
  <2>5. CASE Missing /\ CurrentMode = "run"
    <3>1. NP!Subtree(currentProcess) = Descendants(lists.kids, currentProcess)
      BY <2>2, <2>5, DoomedIs
    <3>2. K = Descendants(lists.kids, currentProcess)
      BY <3>1, SameKill
    <3> QED
      BY <2>5, <3>2 DEF Missing
  <2> QED
    BY <2>2, <2>3, <2>4, <2>5
<1>2. MInv /\ [Next]_vars => [A]_vars
  BY <1>1
<1> HIDE DEF A
<1>3. Spec => [][A]_vars
  BY <1>2, Invariance, PTL DEF Spec
<1> QED
  BY <1>3 DEF KillsOneSubtree, A
===============================================================================
