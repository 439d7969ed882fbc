------------------------------- MODULE AslLemmas -------------------------------
(***************************************************************************)
(* What the functions of src/phase1/asl.c do to the list of descriptors    *)
(* and to the queues it holds, one function after the other, for every     *)
(* memory that is as initASL() and these functions leave it.               *)
(***************************************************************************)
EXTENDS AslMemory, PcbLemmas

\* The memory m has the descriptors a between the dummies, sorted by address,
\* and the descriptors u on the free list.
Sorted(m, a, u) ==
    /\ a \in Seq(Descriptors) /\ IsInjective(a)
    /\ u \in Seq(Descriptors) /\ IsInjective(u)
    /\ Range(a) \cap Range(u) = {} /\ Range(a) \cup Range(u) = Descriptors
    /\ Linked(m, "s_next", SemdActive, a) /\ Linked(m, "s_next", SemdFree, u)
    /\ Len(a) >= 2 /\ a[1] = FirstDummy /\ a[Len(a)] = LastDummy
    /\ m[s_semAdd(FirstDummy)] = 0 /\ m[s_semAdd(LastDummy)] = MAXINT
    /\ \A d \in SemdPool : m[s_semAdd(d)] \in SemAdd \/ (d \in Range(u) /\ m[s_semAdd(d)] = NULL)
    /\ \A i, j \in 1 .. Len(a) : i < j => m[s_semAdd(a[i])] < m[s_semAdd(a[j])]

\* The memory m holds the queues Q of the descriptors.
HoldsQueues(m, Q) ==
    /\ Q \in [Descriptors -> Seq(Pcb)]
    /\ \A d \in Descriptors : IsInjective(Q[d]) /\ Ring(m, tail(d), Q[d])
    /\ \A d, e \in Descriptors : d # e => Range(Q[d]) \cap Range(Q[e]) = {}

\* Each block is marked with the address of the descriptor it waits on.
Marked(m, Q) ==
    /\ \A d \in Descriptors : \A p \in Range(Q[d]) : m[p_semAdd(p)] = m[s_semAdd(d)]
    /\ \A p \in Pcb : (\A d \in Descriptors : p \notin Range(Q[d])) => m[p_semAdd(p)] = NULL

\* The descriptors with somebody who waits are those between the dummies.
WaitedFor(a, Q) ==
    \A d \in Descriptors : Q[d] # <<>> <=> d \in Range(a) \cap SemdPool

IsAslMemory(m) ==
    /\ m = [l \in AslLocations |-> m[l]]
    /\ \A l \in Locations \ ({"p_semAdd"} \X Pcb) : m[l] \in Pcb \cup {NULL}

Good(m, a, u, Q) ==
    /\ IsAslMemory(m)
    /\ Sorted(m, a, u)
    /\ HoldsQueues(m, Q)
    /\ Marked(m, Q)
    /\ WaitedFor(a, Q)

QueuesOf(m) == [d \in Descriptors |-> QueueAt(m, s_procQ(d))]

\* The memories m and n agree on the locations X.
Same(m, n, X) == \A l \in X : n[l] = m[l]

\* The locations of the list of active descriptors and of the free list.
ListLocs == ({"s_next", "s_semAdd"} \X Descriptors) \cup {SemdFree, SemdActive}

\* The locations of the queues of the descriptors.
RingLocs == {tail(d) : d \in Descriptors} \cup ({"p_next", "p_prev"} \X Pcb)

\* The locations of the descriptors, and of the blocks S on their queues.
WaitLocs(S) ==
    ListLocs \cup {tail(d) : d \in Descriptors}
             \cup ({"p_next", "p_prev", "p_semAdd"} \X S)

\* n differs from m in such locations only.
Within(m, n, S) == Same(m, n, AslLocations \ WaitLocs(S))

\* The blocks that wait.
Waiters(m) == UNION {Range(QueuesIn(m)[s]) : s \in SemAdd}

------------------------------------------------------------------------------
(* Locations. *)

LEMMA DescriptorFacts ==
  /\ Descriptors \subseteq ProcQ /\ NULL \notin Descriptors
  /\ SemdPool \subseteq Descriptors /\ FirstDummy \in Descriptors /\ LastDummy \in Descriptors
  /\ \A d \in Descriptors : d \in SemdPool <=> d # FirstDummy /\ d # LastDummy
  /\ FirstDummy # LastDummy
BY DescriptorAssumption DEF Descriptors

LEMMA AddressFacts ==
  /\ MAXINT \in Nat /\ NULL \notin SemAdd /\ NULL # MAXINT /\ NULL # 0
  /\ \A s \in SemAdd : s \in Nat /\ 0 < s /\ s < MAXINT
<1>1. MAXINT \in Nat /\ NULL \notin 0 .. MAXINT
  BY AddressAssumption
<1>2. ASSUME NEW s \in SemAdd PROVE s \in Nat /\ 0 < s /\ s < MAXINT
  <2>1. s \in 1 .. MAXINT - 1
    BY AddressAssumption
  <2> QED
    BY <1>1, <2>1
<1>3. NULL # 0 /\ NULL # MAXINT
  BY <1>1
<1>4. NULL \notin SemAdd
  BY <1>1, <1>2
<1> QED
  BY <1>1, <1>2, <1>3, <1>4

LEMMA AslLocationFacts ==
  /\ Locations \subseteq AslLocations
  /\ \A d \in Descriptors : {s_next(d), s_semAdd(d)} \subseteq AslLocations \cap ListLocs
  /\ \A d \in Descriptors : tail(d) \in AslLocations \cap RingLocs
  /\ {SemdFree, SemdActive} \subseteq AslLocations \cap ListLocs
  /\ \A p \in Pcb : {next(p), prev(p)} \subseteq AslLocations \cap RingLocs
  /\ \A p \in Pcb : p_semAdd(p) \in AslLocations
  /\ \A p : p_semAdd(p) \notin ListLocs \cup RingLocs
  /\ ListLocs \cap RingLocs = {}
<1>1. Descriptors \subseteq ProcQ
  BY DescriptorFacts
<1>2. Locations \subseteq AslLocations
  BY DEF AslLocations
<1>3. \A p : p_semAdd(p) \notin ListLocs \cup RingLocs
  BY DEF p_semAdd, ListLocs, RingLocs, SemdFree, SemdActive, tail
<1>4. ListLocs \cap RingLocs = {}
  BY DEF ListLocs, RingLocs, SemdFree, SemdActive, tail
<1>5. \A p \in Pcb : {next(p), prev(p), p_semAdd(p)} \subseteq Locations
  BY DEF Locations, Fields, next, prev, p_semAdd
<1>6. \A d \in Descriptors : tail(d) \in Locations
  BY <1>1 DEF Locations
<1>7. \A p \in Pcb : {next(p), prev(p)} \subseteq RingLocs
  BY DEF RingLocs, next, prev
<1>8. \A d \in Descriptors : {s_next(d), s_semAdd(d)} \subseteq AslLocations \cap ListLocs
  BY DEF AslLocations, ListLocs, s_next, s_semAdd
<1>9. {SemdFree, SemdActive} \subseteq AslLocations \cap ListLocs
  BY DEF AslLocations, ListLocs
<1>10. \A d \in Descriptors : tail(d) \in RingLocs
  BY DEF RingLocs
<1> QED
  BY <1>2, <1>3, <1>4, <1>5, <1>6, <1>7, <1>8, <1>9, <1>10

LEMMA AslMemoryIs ==
  ASSUME NEW m, IsAslMemory(m)
  PROVE  IsMemory(m) /\ DOMAIN m = AslLocations
<1>1. DOMAIN m = AslLocations
  BY DEF IsAslMemory
<1>2. m = [l \in DOMAIN m |-> m[l]]
  BY <1>1 DEF IsAslMemory
<1>3. Locations \subseteq DOMAIN m
  BY <1>1, AslLocationFacts
<1> QED
  BY <1>1, <1>2, <1>3 DEF IsMemory

(* Two changes after each other. *)
LEMMA WithinBoth ==
  ASSUME NEW m, NEW k, NEW n, NEW S, Within(m, k, S), Within(k, n, S)
  PROVE  Within(m, n, S)
BY DEF Within, Same

LEMMA WithinMore ==
  ASSUME NEW m, NEW n, NEW A, NEW S, A \subseteq S, Within(m, n, A)
  PROVE  Within(m, n, S)
<1>1. WaitLocs(A) \subseteq WaitLocs(S)
  BY DEF WaitLocs
<1> QED
  BY <1>1 DEF Within, Same

------------------------------------------------------------------------------
(* The list of active descriptors and the search in it. *)

\* What is known of the members of a sorted list.
SortedList(m, a) ==
    /\ \A i \in 1 .. Len(a) : a[i] \in Descriptors
    /\ \A i, j \in 1 .. Len(a) : a[i] = a[j] => i = j
    /\ Len(a) \in Nat /\ Len(a) >= 2 /\ a[1] = FirstDummy /\ a[Len(a)] = LastDummy
    /\ m[SemdActive] = a[1]
    /\ \A i \in 1 .. Len(a) - 1 : m[s_next(a[i])] = a[i + 1]
    /\ \A i \in 1 .. Len(a) : m[s_semAdd(a[i])] \in 0 .. MAXINT
    /\ m[s_semAdd(a[1])] = 0 /\ m[s_semAdd(a[Len(a)])] = MAXINT
    /\ \A i \in 2 .. Len(a) - 1 : a[i] \in SemdPool /\ m[s_semAdd(a[i])] \in SemAdd
    /\ \A i, j \in 1 .. Len(a) : i < j => m[s_semAdd(a[i])] < m[s_semAdd(a[j])]

LEMMA SortedIs ==
  ASSUME NEW m, NEW a, NEW u, Sorted(m, a, u)
  PROVE  SortedList(m, a) /\ a \in Seq(Descriptors) /\ a # <<>>
<1>1. /\ a \in Seq(Descriptors) /\ IsInjective(a) /\ Linked(m, "s_next", SemdActive, a)
      /\ Len(a) >= 2 /\ a[1] = FirstDummy /\ a[Len(a)] = LastDummy
      /\ m[s_semAdd(FirstDummy)] = 0 /\ m[s_semAdd(LastDummy)] = MAXINT
      /\ Range(a) \cap Range(u) = {}
      /\ \A d \in SemdPool :
            m[s_semAdd(d)] \in SemAdd \/ (d \in Range(u) /\ m[s_semAdd(d)] = NULL)
      /\ \A i, j \in 1 .. Len(a) : i < j => m[s_semAdd(a[i])] < m[s_semAdd(a[j])]
  BY DEF Sorted
<1>2. /\ Len(a) \in Nat /\ DOMAIN a = 1 .. Len(a) /\ a # <<>>
      /\ \A i \in 1 .. Len(a) : a[i] \in Descriptors /\ a[i] \in Range(a)
      /\ \A i, j \in 1 .. Len(a) : a[i] = a[j] => i = j
  BY <1>1, RangeOf DEF IsInjective
<1>3. m[SemdActive] = a[1] /\ \A i \in 1 .. Len(a) - 1 : m[s_next(a[i])] = a[i + 1]
  <2>1. /\ m[SemdActive] = a[1]
        /\ \A i \in 1 .. Len(a) : m[s_next(a[i])] = IF i = Len(a) THEN NULL ELSE a[i + 1]
    BY <1>1, <1>2 DEF Linked, s_next
  <2>2. \A i \in 1 .. Len(a) - 1 : i \in 1 .. Len(a) /\ i # Len(a)
    <3>1. Len(a) \in Nat
      BY <1>2
    <3> QED
      BY <3>1
  <2> QED
    BY <2>1, <2>2
<1>4. ASSUME NEW i \in 2 .. Len(a) - 1
      PROVE  a[i] \in SemdPool /\ m[s_semAdd(a[i])] \in SemAdd
  <2>1. i \in 1 .. Len(a) /\ 1 \in 1 .. Len(a) /\ Len(a) \in 1 .. Len(a)
        /\ i # 1 /\ i # Len(a)
    <3>1. Len(a) \in Nat /\ Len(a) >= 2
      BY <1>1, <1>2
    <3> QED
      BY <3>1
  <2>2. a[i] # FirstDummy /\ a[i] # LastDummy
    BY <1>1, <1>2, <2>1
  <2>3. a[i] \in SemdPool
    BY <1>2, <2>1, <2>2, DescriptorFacts
  <2> QED
    BY <1>1, <1>2, <2>1, <2>3
<1>5. ASSUME NEW i \in 1 .. Len(a) PROVE m[s_semAdd(a[i])] \in 0 .. MAXINT
  <2>1. i = 1 \/ i = Len(a) \/ i \in 2 .. Len(a) - 1
    <3>1. Len(a) \in Nat
      BY <1>2
    <3> QED
      BY <3>1
  <2> QED
    BY <1>1, <1>4, <2>1, AddressFacts
<1> QED
  BY <1>1, <1>2, <1>3, <1>4, <1>5 DEF SortedList

(* A list of descriptors is followed to its end. *)
LEMMA DescriptorsCount ==
  /\ IsFiniteSet(Descriptors) /\ Cardinality(Descriptors) = Cardinality(SemdPool) + 2
  /\ Cardinality(SemdPool) \in Nat /\ Cardinality(Descriptors) <= N + 2
<1>1. /\ IsFiniteSet(SemdPool) /\ FirstDummy \notin SemdPool
      /\ LastDummy \notin SemdPool \cup {FirstDummy} /\ Cardinality(SemdPool) <= N
      /\ Descriptors = (SemdPool \cup {FirstDummy}) \cup {LastDummy}
  BY DescriptorAssumption DEF Descriptors, N
<1>2. /\ IsFiniteSet(SemdPool \cup {FirstDummy})
      /\ Cardinality(SemdPool \cup {FirstDummy}) = Cardinality(SemdPool) + 1
  BY <1>1, FS_AddElement
<1>3. /\ IsFiniteSet(Descriptors)
      /\ Cardinality(Descriptors) = Cardinality(SemdPool \cup {FirstDummy}) + 1
  BY <1>1, <1>2, FS_AddElement
<1>4. Cardinality(SemdPool) \in Nat
  BY <1>1, FS_CardinalityType
<1> QED
  BY <1>1, <1>2, <1>3, <1>4, BlocksCount

LEMMA DescriptorListLen ==
  ASSUME NEW a \in Seq(Descriptors), IsInjective(a)
  PROVE  Len(a) \in Nat /\ Len(a) <= Cardinality(SemdPool) + 2 /\ Len(a) <= N + 2
<1>1. IsFiniteSet(Range(a)) /\ Cardinality(Range(a)) = Len(a) /\ Range(a) \subseteq Descriptors
      /\ Len(a) \in Nat
  BY InjectiveLen, RangeOf
<1>2. Cardinality(Range(a)) <= Cardinality(Descriptors)
  BY <1>1, DescriptorsCount, FS_Subset
<1> QED
  BY <1>1, <1>2, DescriptorsCount, BlocksCount

\* The search for an address ends between a[j - 1] and a[j].
Found(m, a, key, j) ==
    /\ j \in 2 .. Len(a)
    /\ m[s_semAdd(a[j - 1])] < key /\ key <= m[s_semAdd(a[j])]

LEMMA SearchFinds ==
  ASSUME NEW m, NEW a, NEW u, Sorted(m, a, u), NEW s \in SemAdd \cup {NULL}
  PROVE  \E j \in 2 .. Len(a) :
            /\ Found(m, a, IF s = NULL THEN MAXINT ELSE s, j)
            /\ search(m, s) = a[j - 1]
            /\ m[s_next(search(m, s))] = a[j]
<1> DEFINE key == IF s = NULL THEN MAXINT ELSE s
           met == Chase(m, "s_next", m[SemdActive])
           n == Len(a)
           Stops(i) == met[i + 1] = NULL \/ key <= m[s_semAdd(met[i + 1])]
           C == Cardinality(SemdPool)
           I == {i \in 0 .. C + 1 : Stops(i)}
<1>1. SortedList(m, a) /\ a \in Seq(Descriptors) /\ a # <<>>
  BY SortedIs
<1>2. n \in Nat /\ n >= 2 /\ n <= C + 2 /\ n <= N + 2 /\ C \in Nat
  BY <1>1, DescriptorListLen, DescriptorsCount DEF Sorted, SortedList
<1>3. \A i \in 0 .. n - 1 : met[i] = a[i + 1]
  <2>1. Along(m, "s_next", a)
    BY <1>1 DEF SortedList, Along, s_next
  <2>2. \A i \in 0 .. Len(a) - 1 : Chase(m, "s_next", a[1])[i] = a[i + 1]
    BY <1>1, <1>2, <2>1, ChaseMeets, DescriptorFacts
  <2>3. m[SemdActive] = a[1]
    BY <1>1 DEF SortedList
  <2> QED
    BY <2>2, <2>3
<1>4. key \in Nat /\ 0 < key /\ key <= MAXINT
  <2>1. m[s_semAdd(a[1])] < m[s_semAdd(a[n])]
    BY <1>1, <1>2 DEF SortedList
  <2>2. 0 < MAXINT
    BY <1>1, <2>1 DEF SortedList
  <2> QED
    BY <2>2, AddressFacts
<1> HIDE DEF key, met, n
<1>5. \A i \in 0 .. n - 2 : Stops(i) <=> key <= m[s_semAdd(a[i + 2])]
  <2> SUFFICES ASSUME NEW i \in 0 .. n - 2 PROVE Stops(i) <=> key <= m[s_semAdd(a[i + 2])]
    OBVIOUS
  <2>1. i + 1 \in 0 .. n - 1 /\ i + 2 \in 1 .. n /\ (i + 1) + 1 = i + 2
    BY <1>2
  <2>2. met[i + 1] = a[i + 2]
    BY <1>3, <2>1
  <2>3. met[i + 1] # NULL
    BY <1>1, <2>1, <2>2, DescriptorFacts DEF SortedList, n
  <2> QED
    BY <2>2, <2>3
<1>6. n - 2 \in I
  <2>1. n - 2 \in 0 .. n - 2 /\ (n - 2) + 2 = n /\ n - 2 \in 0 .. C + 1
    BY <1>2
  <2>2. key <= m[s_semAdd(a[n])]
    BY <1>1, <1>4 DEF SortedList, n
  <2> QED
    BY <1>5, <2>1, <2>2
<1>7. PICK i \in I : \A j \in I : i <= j
  <2>1. I \in SUBSET Nat /\ I # {}
    BY <1>2, <1>6
  <2> HIDE DEF I
  <2> QED
    BY <2>1, LeastNat
<1>8. /\ i \in 0 .. C + 1 /\ i \in 0 .. n - 2 /\ Stops(i)
      /\ \A j \in 0 .. i - 1 : ~ Stops(j)
  <2>1. i <= n - 2
    BY <1>6, <1>7
  <2>2. i \in 0 .. C + 1 /\ Stops(i)
    BY <1>7
  <2>3. ASSUME NEW j \in 0 .. i - 1, Stops(j) PROVE FALSE
    <3>1. j \in I
      BY <1>2, <2>2, <2>3
    <3> QED
      BY <1>7, <2>2, <3>1
  <2> QED
    BY <1>2, <2>1, <2>2, <2>3
<1>9. search(m, s) = met[i]
  <2> HIDE DEF I
  <2>1. \A k \in 0 .. C + 1 : Stops(k) /\ (\A j \in 0 .. k - 1 : ~ Stops(j)) => k = i
    <3> SUFFICES ASSUME NEW k \in 0 .. C + 1, Stops(k), \A j \in 0 .. k - 1 : ~ Stops(j)
                 PROVE  k = i
      OBVIOUS
    <3>1. ~ (k < i) /\ ~ (i < k)
      BY <1>2, <1>8
    <3> QED
      BY <1>2, <1>8, <3>1
  <2> DEFINE Least(k) == Stops(k) /\ \A j \in 0 .. k - 1 : ~ Stops(j)
  <2>2. search(m, s) = met[CHOOSE k \in 0 .. C + 1 : Least(k)]
    BY Zenon DEF search, key, met
  <2>3. i \in 0 .. C + 1 /\ Least(i) /\ \A k \in 0 .. C + 1 : Least(k) => k = i
    BY <1>8, <2>1
  <2> HIDE DEF Least
  <2>4. (CHOOSE k \in 0 .. C + 1 : Least(k)) = i
    BY <2>3
  <2> QED
    BY <2>2, <2>4
<1> DEFINE j == i + 2
<1>10. /\ j \in 2 .. n /\ j - 1 \in 1 .. n - 1 /\ j - 1 = i + 1 /\ i \in 0 .. n - 1
       /\ (j - 1) + 1 = j
  BY <1>2, <1>8
<1>11. search(m, s) = a[j - 1] /\ m[s_next(a[j - 1])] = a[j]
  <2>1. m[s_next(a[j - 1])] = a[(j - 1) + 1]
    BY <1>1, <1>10 DEF SortedList, n
  <2> QED
    BY <1>3, <1>9, <1>10, <2>1
<1>12. key <= m[s_semAdd(a[j])]
  BY <1>5, <1>8
<1>13. m[s_semAdd(a[j - 1])] < key
  <2>1. CASE i = 0
    <3>1. j - 1 = 1
      BY <2>1
    <3> QED
      BY <1>1, <1>4, <3>1 DEF SortedList
  <2>2. CASE i # 0
    <3>1. i - 1 \in 0 .. i - 1 /\ i - 1 \in 0 .. n - 2 /\ (i - 1) + 2 = j - 1 /\ j - 1 \in 1 .. n
      BY <1>2, <1>8, <2>2
    <3>2. ~ (key <= m[s_semAdd(a[j - 1])])
      BY <1>5, <1>8, <3>1
    <3>3. m[s_semAdd(a[j - 1])] \in 0 .. MAXINT
      BY <1>1, <3>1 DEF SortedList, n
    <3> QED
      BY <1>4, <3>2, <3>3, AddressFacts
  <2> QED
    BY <2>1, <2>2
<1> QED
  BY <1>10, <1>11, <1>12, <1>13 DEF Found, n, key

(* The search for the address of an active semaphore ends at its descriptor. *)
LEMMA FoundIs ==
  ASSUME NEW m, NEW a, NEW u, Sorted(m, a, u), NEW s \in SemAdd, NEW j, Found(m, a, s, j)
  PROVE  /\ m[s_semAdd(a[j])] = s =>
               j \in 2 .. Len(a) - 1 /\ a[j] \in SemdPool /\ a[j] \in Range(a)
         /\ \A d \in Range(a) : m[s_semAdd(d)] = s => d = a[j]
         /\ \A d \in Range(a) : m[s_semAdd(d)] \in 0 .. MAXINT
<1> DEFINE n == Len(a)  adr(i) == m[s_semAdd(a[i])]
<1>1. SortedList(m, a) /\ a \in Seq(Descriptors)
  BY SortedIs
<1>2. /\ n \in Nat /\ n >= 2 /\ adr(n) = MAXINT
      /\ \A i \in 1 .. n : adr(i) \in 0 .. MAXINT
      /\ \A i \in 2 .. n - 1 : a[i] \in SemdPool
      /\ \A i, h \in 1 .. n : i < h => adr(i) < adr(h)
  BY <1>1 DEF SortedList
<1>3. j \in 2 .. n /\ adr(j - 1) < s /\ s <= adr(j)
  BY DEF Found
<1>4. Range(a) = {a[i] : i \in 1 .. n}
  BY <1>1, RangeOf
<1>5. MAXINT \in Nat /\ s \in Nat /\ s < MAXINT
  BY AddressFacts
<1> HIDE DEF n
<1>6. adr(j) = s => j \in 2 .. n - 1 /\ a[j] \in SemdPool /\ a[j] \in Range(a)
  <2> SUFFICES ASSUME adr(j) = s PROVE j \in 2 .. n - 1 /\ a[j] \in SemdPool /\ a[j] \in Range(a)
    OBVIOUS
  <2>1. j # n
    BY <1>2, <1>5
  <2>2. j \in 2 .. n - 1 /\ j \in 1 .. n
    BY <1>2, <1>3, <2>1
  <2> QED
    BY <1>2, <1>4, <2>2
<1>7. ASSUME NEW d \in Range(a), m[s_semAdd(d)] = s PROVE d = a[j]
  <2>1. PICK i \in 1 .. n : d = a[i]
    BY <1>4
  <2>2. adr(i) = s /\ j \in 1 .. n /\ j - 1 \in 1 .. n
    BY <1>2, <1>3, <1>7, <2>1
  <2> HIDE DEF adr
  <2>3. ~ (i < j)
    <3> SUFFICES ASSUME i < j PROVE FALSE
      OBVIOUS
    <3>1. i = j - 1 \/ i < j - 1
      BY <1>2, <2>2
    <3>2. adr(i) <= adr(j - 1)
      BY <1>2, <2>2, <3>1
    <3> QED
      BY <1>2, <1>3, <1>5, <2>2, <3>2
  <2>4. ~ (j < i)
    <3> SUFFICES ASSUME j < i PROVE FALSE
      OBVIOUS
    <3>1. adr(j) < adr(i)
      BY <1>2, <2>2
    <3> QED
      BY <1>2, <1>3, <1>5, <2>2, <3>1
  <2>5. i = j
    BY <1>2, <2>2, <2>3, <2>4
  <2> QED
    BY <2>1, <2>5
<1>8. \A d \in Range(a) : m[s_semAdd(d)] \in 0 .. MAXINT
  BY <1>2, <1>4
<1> QED
  BY <1>6, <1>7, <1>8 DEF n

------------------------------------------------------------------------------
(* A descriptor enters the list. *)

\* The sequence a with d at the position j.
Inserted(a, j, d) ==
    [i \in 1 .. Len(a) + 1 |-> IF i < j THEN a[i] ELSE IF i = j THEN d ELSE a[i - 1]]

LEMMA InsertedMembers ==
  ASSUME NEW S, NEW a \in Seq(S), IsInjective(a), NEW j \in 1 .. Len(a),
         NEW d \in S \ Range(a)
  PROVE  /\ Inserted(a, j, d) \in Seq(S)
         /\ Len(Inserted(a, j, d)) = Len(a) + 1
         /\ \A i \in 1 .. Len(a) + 1 : Inserted(a, j, d)[i] =
                  IF i < j THEN a[i] ELSE IF i = j THEN d ELSE a[i - 1]
         /\ IsInjective(Inserted(a, j, d))
         /\ Range(Inserted(a, j, d)) = Range(a) \cup {d}
<1> DEFINE n == Len(a)  b == Inserted(a, j, d)
<1>1. /\ n \in Nat /\ Range(a) = {a[i] : i \in 1 .. n}
      /\ \A i \in 1 .. n : a[i] \in S /\ a[i] # d
      /\ \A i, k \in 1 .. n : a[i] = a[k] => i = k
  BY RangeOf DEF IsInjective
<1>2. b = [i \in 1 .. n + 1 |-> IF i < j THEN a[i] ELSE IF i = j THEN d ELSE a[i - 1]]
  BY DEF Inserted
<1>a. j \in 1 .. n
  OBVIOUS
<1> HIDE DEF n, b
<1>3. \A i \in 1 .. n + 1 : b[i] = IF i < j THEN a[i] ELSE IF i = j THEN d ELSE a[i - 1]
  BY <1>2
<1>4. ASSUME NEW i \in 1 .. n + 1
      PROVE  \/ i < j /\ i \in 1 .. n /\ b[i] = a[i]
             \/ i = j /\ b[i] = d
             \/ i > j /\ i - 1 \in 1 .. n /\ b[i] = a[i - 1]
  BY <1>1, <1>3, <1>a
<1>5. \A i \in 1 .. n + 1 : b[i] \in S
  BY <1>1, <1>4
<1>6. b \in Seq(S) /\ Len(b) = n + 1 /\ DOMAIN b = 1 .. n + 1
  <2>1. DOMAIN b = 1 .. n + 1 /\ b = [i \in 1 .. n + 1 |-> b[i]]
    BY <1>2
  <2>2. b \in [1 .. n + 1 -> S]
    BY <1>5, <2>1
  <2>3. n + 1 \in Nat
    BY <1>1
  <2> QED
    BY <2>1, <2>2, <2>3
<1>7. IsInjective(b)
  <2> SUFFICES ASSUME NEW i \in 1 .. n + 1, NEW k \in 1 .. n + 1, b[i] = b[k] PROVE i = k
    BY <1>6 DEF IsInjective
  <2> QED
    BY <1>1, <1>4, <1>a
<1>8. Range(b) = Range(a) \cup {d}
  <2>1. Range(b) = {b[i] : i \in 1 .. n + 1}
    BY <1>6 DEF Range
  <2>2. Range(b) \subseteq Range(a) \cup {d}
    BY <1>1, <1>4, <2>1
  <2>3. d \in Range(b)
    <3>1. j \in 1 .. n + 1
      BY <1>1, <1>a
    <3>2. b[j] = d
      BY <1>3, <3>1
    <3> QED
      BY <2>1, <3>1, <3>2
  <2>4. ASSUME NEW i \in 1 .. n PROVE a[i] \in Range(b)
    <3>1. CASE i < j
      <4>1. i \in 1 .. n + 1 /\ b[i] = a[i]
        BY <1>1, <1>3, <3>1
      <4> QED
        BY <2>1, <4>1
    <3>2. CASE ~ (i < j)
      <4>1. i + 1 \in 1 .. n + 1 /\ ~ (i + 1 < j) /\ i + 1 # j /\ (i + 1) - 1 = i
        BY <1>1, <1>a, <3>2
      <4>2. b[i + 1] = a[i]
        BY <1>3, <4>1
      <4> QED
        BY <2>1, <4>1, <4>2
    <3> QED
      BY <3>1, <3>2
  <2> QED
    BY <1>1, <2>2, <2>3, <2>4
<1> QED
  BY <1>3, <1>6, <1>7, <1>8 DEF n, b

\* In n the descriptor d has left the free list of m, and has the address s and
\* the place behind x.
LinkedBehind(m, n, x, d, s) ==
    /\ n[SemdActive] = m[SemdActive] /\ n[SemdFree] = m[s_next(d)]
    /\ n[s_next(d)] = m[s_next(x)] /\ n[s_next(x)] = d /\ n[s_semAdd(d)] = s
    /\ \A e \in Descriptors \ {d, x} : n[s_next(e)] = m[s_next(e)]
    /\ \A e \in Descriptors \ {d} : n[s_semAdd(e)] = m[s_semAdd(e)]

\* x is before the position j.
Before(a, j, x) == x = a[j - 1]

LEMMA SortedInsert ==
  ASSUME NEW m, NEW a, NEW u, Sorted(m, a, u), u # <<>>,
         NEW s \in SemAdd, NEW j, Found(m, a, s, j), m[s_semAdd(a[j])] # s,
         NEW d, d = Head(u), NEW x, Before(a, j, x), NEW n, LinkedBehind(m, n, x, d, s)
  PROVE  Sorted(n, Inserted(a, j, d), Tail(u))
<1> DEFINE k == Len(a)  l == Len(u)  b == Inserted(a, j, d)  t == Tail(u)
<1>1. SortedList(m, a) /\ a \in Seq(Descriptors)
  BY SortedIs
<1>2. /\ IsInjective(a) /\ u \in Seq(Descriptors) /\ IsInjective(u)
      /\ Range(a) \cap Range(u) = {} /\ Range(a) \cup Range(u) = Descriptors
      /\ Linked(m, "s_next", SemdActive, a) /\ Linked(m, "s_next", SemdFree, u)
      /\ m[s_semAdd(FirstDummy)] = 0 /\ m[s_semAdd(LastDummy)] = MAXINT
      /\ \A e \in SemdPool :
            m[s_semAdd(e)] \in SemAdd \/ (e \in Range(u) /\ m[s_semAdd(e)] = NULL)
  BY DEF Sorted
<1>3. /\ k \in Nat /\ k >= 2 /\ a[1] = FirstDummy /\ a[k] = LastDummy /\ m[SemdActive] = a[1]
      /\ \A i \in 1 .. k : a[i] \in Descriptors /\ m[s_semAdd(a[i])] \in 0 .. MAXINT
      /\ \A i, h \in 1 .. k : a[i] = a[h] => i = h
      /\ \A i, h \in 1 .. k : i < h => m[s_semAdd(a[i])] < m[s_semAdd(a[h])]
  BY <1>1 DEF SortedList
<1>4. \A i \in 1 .. k : m[s_next(a[i])] = IF i = k THEN NULL ELSE a[i + 1]
  BY <1>2 DEF Linked, s_next
<1>5. /\ l \in Nat /\ l > 0 /\ d = u[1]
      /\ m[SemdFree] = u[1]
      /\ \A i \in 1 .. l : m[s_next(u[i])] = IF i = l THEN NULL ELSE u[i + 1]
      /\ \A i \in 1 .. l : u[i] \in Descriptors /\ u[i] \in Range(u)
      /\ \A i, h \in 1 .. l : u[i] = u[h] => i = h
  BY <1>2, RangeOf DEF Linked, s_next, IsInjective
<1>6. /\ t \in Seq(Descriptors) /\ IsInjective(t) /\ Range(t) = Range(u) \ {d}
      /\ d \in Range(u) /\ d \in Descriptors /\ Len(t) = l - 1
  BY <1>2, RangeTail
<1>7. \A i \in 1 .. l - 1 : t[i] = u[i + 1]
  BY <1>2, HeadTailProperties
<1>8. /\ j \in 2 .. k /\ m[s_semAdd(x)] < s /\ s <= m[s_semAdd(a[j])]
      /\ m[s_semAdd(a[j])] # s
  BY DEF Found, Before
<1>9. \A i \in 1 .. k : a[i] # d /\ a[i] \in Range(a)
  BY <1>1, <1>2, <1>6, RangeOf
<1>10. /\ b \in Seq(Descriptors) /\ Len(b) = k + 1 /\ IsInjective(b)
       /\ Range(b) = Range(a) \cup {d}
       /\ \A i \in 1 .. k + 1 : b[i] = IF i < j THEN a[i] ELSE IF i = j THEN d ELSE a[i - 1]
  <2>1. j \in 1 .. Len(a) /\ d \in Descriptors \ Range(a)
    BY <1>2, <1>3, <1>6, <1>8
  <2> QED
    BY <1>1, <1>2, <2>1, InsertedMembers
<1>11. /\ n[SemdActive] = m[SemdActive] /\ n[SemdFree] = m[s_next(d)]
       /\ n[s_next(d)] = m[s_next(x)] /\ n[s_next(x)] = d /\ n[s_semAdd(d)] = s
       /\ \A e \in Descriptors \ {d, x} : n[s_next(e)] = m[s_next(e)]
       /\ \A e \in Descriptors \ {d} : n[s_semAdd(e)] = m[s_semAdd(e)]
  BY DEF LinkedBehind
<1>x. x = a[j - 1] /\ j - 1 \in 1 .. k /\ (j - 1) + 1 = j /\ j - 1 # k /\ j \in 1 .. k
  BY <1>3, <1>8 DEF Before
<1> HIDE DEF k, l, b, t
<1>12. ASSUME NEW i \in 1 .. k + 1
       PROVE  \/ i < j /\ i \in 1 .. k /\ b[i] = a[i]
              \/ i = j /\ b[i] = d
              \/ i > j /\ i - 1 \in 1 .. k /\ b[i] = a[i - 1]
  BY <1>3, <1>8, <1>10
<1>13. Linked(n, "s_next", SemdActive, b)
  <2>1. b # <<>> /\ b[1] = a[1]
    BY <1>3, <1>8, <1>10
  <2>2. ASSUME NEW i \in 1 .. k + 1
        PROVE  n[s_next(b[i])] = IF i = k + 1 THEN NULL ELSE b[i + 1]
    <3>1. CASE i < j - 1
      <4>1. i \in 1 .. k /\ i # k /\ i + 1 \in 1 .. k + 1 /\ i + 1 < j /\ i < j /\ i # k + 1
        BY <1>3, <1>8, <3>1
      <4>2. b[i] = a[i] /\ b[i + 1] = a[i + 1]
        BY <1>10, <4>1
      <4>3. a[i] \in Descriptors \ {d, x}
        BY <1>3, <1>9, <1>x, <3>1, <4>1
      <4> QED
        BY <1>4, <1>11, <4>1, <4>2, <4>3
    <3>2. CASE i = j - 1
      <4>1. i + 1 = j /\ j \in 1 .. k + 1 /\ i < j /\ i # k + 1
        BY <1>3, <1>8, <3>2
      <4>2. b[i] = x /\ b[i + 1] = d
        BY <1>10, <1>x, <3>2, <4>1
      <4> QED
        BY <1>11, <4>1, <4>2
    <3>3. CASE i = j
      <4>1. i + 1 \in 1 .. k + 1 /\ ~ (i + 1 < j) /\ i + 1 # j /\ (i + 1) - 1 = j /\ i # k + 1
        BY <1>3, <1>8, <3>3
      <4>2. b[i] = d /\ b[i + 1] = a[j]
        BY <1>10, <3>3, <4>1
      <4>3. m[s_next(x)] = a[j]
        BY <1>4, <1>x
      <4> QED
        BY <1>11, <4>1, <4>2, <4>3
    <3>4. CASE i > j
      <4>1. /\ i - 1 \in 1 .. k /\ i - 1 # j - 1 /\ ~ (i < j) /\ i # j
            /\ (i - 1) + 1 = i /\ (i - 1 = k <=> i = k + 1)
        BY <1>3, <1>8, <3>4
      <4>2. b[i] = a[i - 1]
        BY <1>10, <4>1
      <4>3. i # k + 1 => b[i + 1] = a[i]
        <5>1. i # k + 1 => i + 1 \in 1 .. k + 1 /\ ~ (i + 1 < j) /\ i + 1 # j /\ (i + 1) - 1 = i
          BY <1>3, <1>8, <3>4
        <5> QED
          BY <1>10, <5>1
      <4>4. a[i - 1] \in Descriptors \ {d, x}
        BY <1>3, <1>9, <1>x, <4>1
      <4>5. m[s_next(a[i - 1])] = IF i = k + 1 THEN NULL ELSE a[i]
        BY <1>4, <4>1
      <4> QED
        BY <1>11, <4>2, <4>3, <4>4, <4>5
    <3> QED
      BY <1>3, <1>8, <3>1, <3>2, <3>3, <3>4
  <2> QED
    BY <1>3, <1>10, <1>11, <2>1, <2>2 DEF Linked, s_next
<1>14. Linked(n, "s_next", SemdFree, t)
  <2>1. n[SemdFree] = IF t = <<>> THEN NULL ELSE t[1]
    <3>1. CASE l = 1
      <4>1. t = <<>>
        BY <1>6, <3>1
      <4> QED
        BY <1>5, <1>11, <3>1, <4>1
    <3>2. CASE l # 1
      <4>1. t # <<>> /\ 1 \in 1 .. l - 1 /\ 1 \in 1 .. l
        BY <1>5, <1>6, <3>2
      <4> QED
        BY <1>5, <1>7, <1>11, <3>2, <4>1
    <3> QED
      BY <3>1, <3>2
  <2>2. ASSUME NEW i \in 1 .. l - 1
        PROVE  n[s_next(t[i])] = IF i = l - 1 THEN NULL ELSE t[i + 1]
    <3>1. /\ i + 1 \in 1 .. l /\ 1 \in 1 .. l /\ i + 1 # 1 /\ t[i] = u[i + 1]
          /\ (i + 1 = l <=> i = l - 1)
      BY <1>5, <1>7
    <3>2. u[i + 1] \in Descriptors \ {d, x}
      <4>1. u[i + 1] # d
        BY <1>5, <3>1
      <4>2. u[i + 1] # x
        BY <1>2, <1>5, <1>9, <1>x, <3>1
      <4> QED
        BY <1>5, <3>1, <4>1, <4>2
    <3>3. i # l - 1 => t[i + 1] = u[(i + 1) + 1]
      BY <1>5, <1>7
    <3> QED
      BY <1>5, <1>11, <3>1, <3>2, <3>3
  <2> QED
    BY <1>6, <2>1, <2>2 DEF Linked, s_next
<1>15. /\ n[s_semAdd(FirstDummy)] = 0 /\ n[s_semAdd(LastDummy)] = MAXINT
       /\ \A i \in 1 .. k : n[s_semAdd(a[i])] = m[s_semAdd(a[i])]
  <2>1. \A i \in 1 .. k : n[s_semAdd(a[i])] = m[s_semAdd(a[i])]
    BY <1>3, <1>9, <1>11
  <2>2. 1 \in 1 .. k /\ k \in 1 .. k
    BY <1>3
  <2> QED
    BY <1>2, <1>3, <2>1, <2>2
<1>16. \A e \in SemdPool :
         n[s_semAdd(e)] \in SemAdd \/ (e \in Range(t) /\ n[s_semAdd(e)] = NULL)
  <2> SUFFICES ASSUME NEW e \in SemdPool
               PROVE  n[s_semAdd(e)] \in SemAdd \/ (e \in Range(t) /\ n[s_semAdd(e)] = NULL)
    OBVIOUS
  <2>1. CASE e = d
    BY <1>11, <2>1
  <2>2. CASE e # d
    BY <1>2, <1>6, <1>11, <2>2, DescriptorFacts
  <2> QED
    BY <2>1, <2>2
<1>17. \A i, h \in 1 .. k + 1 : i < h => n[s_semAdd(b[i])] < n[s_semAdd(b[h])]
  <2> DEFINE adr(i) == m[s_semAdd(a[i])]
  <2>1. \A i \in 1 .. k : n[s_semAdd(a[i])] = adr(i) /\ adr(i) \in 0 .. MAXINT
    BY <1>3, <1>15
  <2>2. \A i, h \in 1 .. k : i < h => adr(i) < adr(h)
    BY <1>3
  <2>3. adr(j - 1) < s /\ s < adr(j)
    <3>1. s \in Nat /\ adr(j) \in 0 .. MAXINT /\ MAXINT \in Nat
      BY <1>x, <2>1, AddressFacts
    <3> QED
      BY <1>8, <1>x, <3>1
  <2>4. s \in Nat /\ MAXINT \in Nat
    BY AddressFacts
  <2> HIDE DEF adr
  <2>5. ASSUME NEW i \in 1 .. k, i < j PROVE adr(i) < s
    <3>1. i = j - 1 \/ (i < j - 1 /\ adr(i) < adr(j - 1))
      BY <1>3, <1>8, <1>x, <2>2, <2>5
    <3> QED
      BY <1>x, <2>1, <2>3, <2>4, <3>1
  <2>6. ASSUME NEW i \in 1 .. k, ~ (i < j) PROVE s < adr(i)
    <3>1. i = j \/ adr(j) < adr(i)
      BY <1>3, <1>8, <1>x, <2>2, <2>6
    <3> QED
      BY <1>x, <2>1, <2>3, <2>4, <3>1
  <2>7. n[s_semAdd(d)] = s
    BY <1>11
  <2> SUFFICES ASSUME NEW i \in 1 .. k + 1, NEW h \in 1 .. k + 1, i < h
               PROVE  n[s_semAdd(b[i])] < n[s_semAdd(b[h])]
    OBVIOUS
  <2>8. CASE h < j
    <3>1. i < j /\ i \in 1 .. k /\ h \in 1 .. k /\ b[i] = a[i] /\ b[h] = a[h]
      BY <1>3, <1>8, <1>10, <2>8
    <3> QED
      BY <2>1, <2>2, <3>1
  <2>9. CASE h = j
    <3>1. i < j /\ i \in 1 .. k /\ b[i] = a[i] /\ b[h] = d
      BY <1>3, <1>8, <1>10, <2>9
    <3> QED
      BY <2>1, <2>5, <2>7, <3>1
  <2>10. CASE h > j
    <3>1. h - 1 \in 1 .. k /\ b[h] = a[h - 1] /\ ~ (h - 1 < j)
      BY <1>3, <1>8, <1>10, <2>10
    <3>2. CASE i < j
      <4>1. i \in 1 .. k /\ b[i] = a[i] /\ i < h - 1
        BY <1>3, <1>8, <1>10, <2>10, <3>2
      <4> QED
        BY <2>1, <2>2, <3>1, <4>1
    <3>3. CASE i = j
      <4>1. b[i] = d
        BY <1>3, <1>8, <1>10, <3>3
      <4> QED
        BY <2>1, <2>6, <2>7, <3>1, <4>1
    <3>4. CASE i > j
      <4>1. i - 1 \in 1 .. k /\ b[i] = a[i - 1] /\ i - 1 < h - 1
        BY <1>3, <1>8, <1>10, <3>4
      <4> QED
        BY <2>1, <2>2, <3>1, <4>1
    <3> QED
      BY <1>3, <1>8, <3>2, <3>3, <3>4
  <2> QED
    BY <1>3, <1>8, <2>8, <2>9, <2>10
<1>18. /\ Range(b) \cap Range(t) = {} /\ Range(b) \cup Range(t) = Descriptors
  BY <1>2, <1>6, <1>10
<1>19. Len(b) >= 2 /\ b[1] = FirstDummy /\ b[Len(b)] = LastDummy
  <2>1. 1 \in 1 .. k + 1 /\ k + 1 \in 1 .. k + 1 /\ 1 < j /\ k + 1 > j /\ (k + 1) - 1 = k
        /\ k + 1 # j /\ ~ (k + 1 < j)
    BY <1>3, <1>8
  <2> QED
    BY <1>3, <1>10, <2>1
<1>20. Sorted(n, b, t)
  BY <1>6, <1>10, <1>13, <1>14, <1>15, <1>16, <1>17, <1>18, <1>19 DEF Sorted
<1> QED
  BY <1>20 DEF b, t

------------------------------------------------------------------------------
(* A descriptor leaves the list. *)

\* In n the descriptor d, which was behind x in m, is the first free one.
UnlinkedBehind(m, n, x, d) ==
    /\ n[SemdActive] = m[SemdActive] /\ n[SemdFree] = d
    /\ n[s_next(d)] = m[SemdFree] /\ n[s_next(x)] = m[s_next(d)]
    /\ \A e \in Descriptors \ {d, x} : n[s_next(e)] = m[s_next(e)]
    /\ \A e \in Descriptors : n[s_semAdd(e)] = m[s_semAdd(e)]

LEMMA SortedRemove ==
  ASSUME NEW m, NEW a, NEW u, Sorted(m, a, u), NEW j \in 2 .. Len(a) - 1,
         NEW d, d = a[j], NEW x, Before(a, j, x), NEW n, UnlinkedBehind(m, n, x, d)
  PROVE  Sorted(n, Omit(a, j), <<d>> \o u)
<1> DEFINE k == Len(a)  l == Len(u)  b == Omit(a, j)  t == <<d>> \o u
<1>1. SortedList(m, a) /\ a \in Seq(Descriptors)
  BY SortedIs
<1>2. /\ IsInjective(a) /\ u \in Seq(Descriptors) /\ IsInjective(u)
      /\ Range(a) \cap Range(u) = {} /\ Range(a) \cup Range(u) = Descriptors
      /\ Linked(m, "s_next", SemdActive, a) /\ Linked(m, "s_next", SemdFree, u)
      /\ m[s_semAdd(FirstDummy)] = 0 /\ m[s_semAdd(LastDummy)] = MAXINT
      /\ \A e \in SemdPool :
            m[s_semAdd(e)] \in SemAdd \/ (e \in Range(u) /\ m[s_semAdd(e)] = NULL)
  BY DEF Sorted
<1>3. /\ k \in Nat /\ k >= 2 /\ a[1] = FirstDummy /\ a[k] = LastDummy /\ m[SemdActive] = a[1]
      /\ \A i \in 1 .. k : a[i] \in Descriptors
      /\ \A i, h \in 1 .. k : a[i] = a[h] => i = h
      /\ \A i, h \in 1 .. k : i < h => m[s_semAdd(a[i])] < m[s_semAdd(a[h])]
  BY <1>1 DEF SortedList
<1>4. \A i \in 1 .. k : m[s_next(a[i])] = IF i = k THEN NULL ELSE a[i + 1]
  BY <1>2 DEF Linked, s_next
<1>5. /\ l \in Nat
      /\ m[SemdFree] = IF u = <<>> THEN NULL ELSE u[1]
      /\ \A i \in 1 .. l : m[s_next(u[i])] = IF i = l THEN NULL ELSE u[i + 1]
      /\ \A i \in 1 .. l : u[i] \in Descriptors /\ u[i] \in Range(u)
      /\ u = <<>> <=> l = 0
  BY <1>2, RangeOf DEF Linked, s_next
<1>6. /\ j \in 1 .. k /\ j - 1 \in 1 .. k /\ (j - 1) + 1 = j /\ j - 1 # k /\ j # k /\ j > 1
      /\ j + 1 \in 1 .. k /\ j # 1
  <2>1. j \in 2 .. k - 1
    OBVIOUS
  <2> HIDE DEF k
  <2> QED
    BY <1>3, <2>1
<1>7. /\ b = Without(a, {d}) /\ b \in Seq(Descriptors) /\ IsInjective(b)
      /\ Range(b) = Range(a) \ {d}
  <2>1. b = Without(a, {d}) /\ b \in Seq(Descriptors)
    BY <1>1, <1>2, <1>6, WithoutMember
  <2> HIDE DEF b
  <2> QED
    BY <1>1, <1>2, <2>1, WithoutMembers
<1>8. DOMAIN b = 1 .. k - 1 /\ \A i \in 1 .. k - 1 : b[i] = IF i < j THEN a[i] ELSE a[i + 1]
  BY DEF Omit
<1>9. d \in Descriptors /\ d \in Range(a) /\ d \notin Range(u)
  BY <1>1, <1>2, <1>3, <1>6, RangeOf
<1>10. /\ t \in Seq(Descriptors) /\ Len(t) = l + 1 /\ t[1] = d
       /\ \A i \in 1 .. l : t[i + 1] = u[i]
       /\ Range(t) = Range(u) \cup {d} /\ IsInjective(t)
  <2> QED
    BY <1>2, <1>9, PrependMembers
<1>11. /\ n[SemdActive] = m[SemdActive] /\ n[SemdFree] = d
       /\ n[s_next(d)] = m[SemdFree] /\ n[s_next(x)] = m[s_next(d)]
       /\ \A e \in Descriptors \ {d, x} : n[s_next(e)] = m[s_next(e)]
       /\ \A e \in Descriptors : n[s_semAdd(e)] = m[s_semAdd(e)]
  BY DEF UnlinkedBehind
<1>12. x = a[j - 1] /\ d = a[j] /\ x \in Range(a) /\ x \in Descriptors
  BY <1>1, <1>3, <1>6, RangeOf DEF Before
<1> HIDE DEF k, l, b, t
<1>13. Len(b) = k - 1
  <2>1. Len(b) \in Nat /\ 1 .. Len(b) = 1 .. k - 1
    BY <1>7, <1>8
  <2> QED
    BY <1>3, <2>1
<1>14. Linked(n, "s_next", SemdActive, b)
  <2>1. b # <<>> /\ b[1] = a[1]
    BY <1>3, <1>6, <1>8, <1>13
  <2>2. ASSUME NEW i \in 1 .. k - 1
        PROVE  n[s_next(b[i])] = IF i = k - 1 THEN NULL ELSE b[i + 1]
    <3>1. CASE i < j - 1
      <4>1. i \in 1 .. k /\ i # k /\ i + 1 \in 1 .. k - 1 /\ i + 1 < j /\ i < j /\ i # k - 1
            /\ i # j /\ i # j - 1
        BY <1>3, <1>6, <3>1
      <4>2. b[i] = a[i] /\ b[i + 1] = a[i + 1]
        BY <1>8, <4>1
      <4>3. a[i] \in Descriptors \ {d, x}
        BY <1>3, <1>6, <1>12, <4>1
      <4> QED
        BY <1>4, <1>11, <4>1, <4>2, <4>3
    <3>2. CASE i = j - 1
      <4>1. i < j /\ i + 1 = j /\ (i = k - 1 <=> j = k)
        BY <1>3, <1>6, <3>2
      <4>2. b[i] = x
        BY <1>8, <1>12, <3>2, <4>1
      <4>3. m[s_next(d)] = a[j + 1]
        BY <1>4, <1>6, <1>12
      <4>4. b[j] = a[j + 1]
        <5>1. j \in 1 .. k - 1 /\ ~ (j < j)
          BY <1>3, <1>6
        <5> QED
          BY <1>8, <5>1
      <4> QED
        BY <1>6, <1>11, <4>1, <4>2, <4>3, <4>4
    <3>3. CASE i >= j
      <4>1. /\ i + 1 \in 1 .. k /\ i + 1 # j /\ i + 1 # j - 1 /\ ~ (i < j)
            /\ (i + 1 = k <=> i = k - 1)
        BY <1>3, <1>6, <3>3
      <4>2. b[i] = a[i + 1]
        BY <1>8, <4>1
      <4>3. i # k - 1 => b[i + 1] = a[(i + 1) + 1]
        <5>1. i # k - 1 => i + 1 \in 1 .. k - 1 /\ ~ (i + 1 < j)
          BY <1>3, <1>6, <3>3
        <5> QED
          BY <1>8, <5>1
      <4>4. a[i + 1] \in Descriptors \ {d, x}
        BY <1>3, <1>6, <1>12, <4>1
      <4> QED
        BY <1>4, <1>11, <4>1, <4>2, <4>3, <4>4
    <3> QED
      BY <1>3, <1>6, <3>1, <3>2, <3>3
  <2> QED
    BY <1>3, <1>11, <1>13, <2>1, <2>2 DEF Linked, s_next
<1>15. Linked(n, "s_next", SemdFree, t)
  <2>1. t # <<>>
    BY <1>5, <1>10
  <2>2. ASSUME NEW i \in 1 .. l + 1
        PROVE  n[s_next(t[i])] = IF i = l + 1 THEN NULL ELSE t[i + 1]
    <3>1. CASE i = 1
      <4>1. l # 0 => t[2] = u[1]
        <5>1. l # 0 => 1 \in 1 .. l /\ 1 + 1 = 2
          BY <1>5
        <5> QED
          BY <1>10, <5>1
      <4>2. i = l + 1 <=> l = 0
        BY <1>5, <3>1
      <4>3. n[s_next(t[i])] = m[SemdFree]
        BY <1>10, <1>11, <3>1
      <4> QED
        BY <1>5, <3>1, <4>1, <4>2, <4>3
    <3>2. CASE i # 1
      <4>1. i - 1 \in 1 .. l /\ (i - 1) + 1 = i /\ (i - 1 = l <=> i = l + 1)
        BY <1>5, <3>2
      <4>2. t[i] = u[i - 1]
        BY <1>10, <4>1
      <4>3. i # l + 1 => t[i + 1] = u[i]
        <5>1. i # l + 1 => i \in 1 .. l
          BY <1>5, <3>2
        <5> QED
          BY <1>10, <5>1
      <4>4. u[i - 1] \in Descriptors \ {d, x}
        BY <1>2, <1>5, <1>9, <1>12, <4>1
      <4>5. m[s_next(u[i - 1])] = IF i = l + 1 THEN NULL ELSE u[i]
        BY <1>5, <4>1
      <4> QED
        BY <1>11, <4>2, <4>3, <4>4, <4>5
    <3> QED
      BY <3>1, <3>2
  <2> QED
    BY <1>10, <1>11, <2>1, <2>2 DEF Linked, s_next
<1>16. n[s_semAdd(FirstDummy)] = 0 /\ n[s_semAdd(LastDummy)] = MAXINT
  BY <1>2, <1>11, DescriptorFacts
<1>17. \A e \in SemdPool :
         n[s_semAdd(e)] \in SemAdd \/ (e \in Range(t) /\ n[s_semAdd(e)] = NULL)
  BY <1>2, <1>10, <1>11, DescriptorFacts
<1>18. \A i, h \in 1 .. k - 1 : i < h => n[s_semAdd(b[i])] < n[s_semAdd(b[h])]
  <2> SUFFICES ASSUME NEW i \in 1 .. k - 1, NEW h \in 1 .. k - 1, i < h
               PROVE  n[s_semAdd(b[i])] < n[s_semAdd(b[h])]
    OBVIOUS
  <2>1. PICK f \in 1 .. k : b[i] = a[f] /\ f = IF i < j THEN i ELSE i + 1
    <3>1. i \in 1 .. k /\ i + 1 \in 1 .. k
      BY <1>3
    <3> QED
      BY <1>8, <3>1
  <2>2. PICK g \in 1 .. k : b[h] = a[g] /\ g = IF h < j THEN h ELSE h + 1
    <3>1. h \in 1 .. k /\ h + 1 \in 1 .. k
      BY <1>3
    <3> QED
      BY <1>8, <3>1
  <2>3. f < g
    BY <1>6, <2>1, <2>2
  <2>4. m[s_semAdd(a[f])] < m[s_semAdd(a[g])]
    BY <1>3, <2>3
  <2> QED
    BY <1>3, <1>11, <2>1, <2>2, <2>4
<1>19. /\ Range(b) \cap Range(t) = {} /\ Range(b) \cup Range(t) = Descriptors
  <2>1. /\ Range(a) \cap Range(u) = {} /\ Range(a) \cup Range(u) = Descriptors
        /\ Range(b) = Range(a) \ {d} /\ Range(t) = Range(u) \cup {d} /\ d \in Range(a)
    BY <1>2, <1>7, <1>9, <1>10
  <2> QED
    BY ONLY <2>1
<1>20. Len(b) >= 2 /\ b[1] = FirstDummy /\ b[Len(b)] = LastDummy
  <2>1. 1 \in 1 .. k - 1 /\ k - 1 \in 1 .. k - 1 /\ 1 < j /\ ~ (k - 1 < j) /\ (k - 1) + 1 = k
        /\ k - 1 >= 2
    BY <1>3, <1>6
  <2> QED
    BY <1>3, <1>8, <1>13, <2>1
<1>21. Sorted(n, b, t)
  BY <1>7, <1>10, <1>13, <1>14, <1>15, <1>16, <1>17, <1>18, <1>19, <1>20 DEF Sorted
<1> QED
  BY <1>21 DEF b, t

------------------------------------------------------------------------------
(* What does not touch the locations of a part leaves the part alone. *)

LEMMA SortedFrame ==
  ASSUME NEW m, NEW a, NEW u, Sorted(m, a, u), NEW n, Same(m, n, ListLocs)
  PROVE  Sorted(n, a, u)
<1>1. /\ a \in Seq(Descriptors) /\ u \in Seq(Descriptors)
      /\ FirstDummy \in Descriptors /\ LastDummy \in Descriptors
      /\ SemdPool \subseteq Descriptors
  BY DescriptorFacts DEF Sorted
<1>2. /\ \A i \in 1 .. Len(a) : a[i] \in Descriptors
      /\ \A i \in 1 .. Len(u) : u[i] \in Descriptors
  BY <1>1, RangeOf
<1>3. /\ \A d \in Descriptors : n[s_next(d)] = m[s_next(d)] /\ n[s_semAdd(d)] = m[s_semAdd(d)]
      /\ n[SemdActive] = m[SemdActive] /\ n[SemdFree] = m[SemdFree]
  BY AslLocationFacts DEF Same
<1>4. Linked(n, "s_next", SemdActive, a) /\ Linked(n, "s_next", SemdFree, u)
  BY <1>2, <1>3 DEF Sorted, Linked, s_next
<1>5. \A i, j \in 1 .. Len(a) : i < j => n[s_semAdd(a[i])] < n[s_semAdd(a[j])]
  BY <1>2, <1>3 DEF Sorted
<1>6. \A d \in SemdPool :
         n[s_semAdd(d)] \in SemAdd \/ (d \in Range(u) /\ n[s_semAdd(d)] = NULL)
  BY <1>1, <1>3 DEF Sorted
<1>7. n[s_semAdd(FirstDummy)] = 0 /\ n[s_semAdd(LastDummy)] = MAXINT
  BY <1>1, <1>3 DEF Sorted
<1> QED
  BY <1>4, <1>5, <1>6, <1>7 DEF Sorted

LEMMA QueuesFrame ==
  ASSUME NEW m, NEW Q, HoldsQueues(m, Q), NEW n, Same(m, n, RingLocs)
  PROVE  HoldsQueues(n, Q)
<1>1. ASSUME NEW d \in Descriptors PROVE Ring(n, tail(d), Q[d])
  <2>1. Q[d] \in Seq(Pcb) /\ Ring(m, tail(d), Q[d])
    BY DEF HoldsQueues
  <2>2. \A i \in 1 .. Len(Q[d]) : Q[d][i] \in Pcb
    BY <2>1, RangeOf
  <2>3. /\ n[tail(d)] = m[tail(d)]
        /\ \A p \in Pcb : n[next(p)] = m[next(p)] /\ n[prev(p)] = m[prev(p)]
    BY AslLocationFacts DEF Same
  <2> QED
    BY <2>1, <2>2, <2>3 DEF Ring
<1> QED
  BY <1>1 DEF HoldsQueues

(* The queue of one descriptor changes, in the locations of blocks that are *)
(* on no other queue.                                                       *)
LEMMA QueueChanges ==
  ASSUME NEW m, IsAslMemory(m), NEW Q, HoldsQueues(m, Q), NEW d \in Descriptors,
         NEW n, NEW R \in SUBSET Pcb, Changes(m, n, QueueLocs(tail(d), R)),
         NEW s \in Seq(Pcb), IsInjective(s), Ring(n, tail(d), s), Range(s) \subseteq R,
         \A e \in Descriptors \ {d} : R \cap Range(Q[e]) = {}
  PROVE  /\ IsAslMemory(n)
         /\ HoldsQueues(n, [Q EXCEPT ![d] = s])
         /\ Same(m, n, ListLocs)
         /\ \A p \in Pcb : n[p_semAdd(p)] = m[p_semAdd(p)]
         /\ \A S : R \subseteq S => Within(m, n, S)
<1> DEFINE L == QueueLocs(tail(d), R)  P == [Q EXCEPT ![d] = s]
<1>1. IsMemory(m) /\ DOMAIN m = AslLocations
  BY AslMemoryIs
<1>2. /\ n = [l \in AslLocations |-> n[l]]
      /\ \A l \in AslLocations : n[l] = m[l] \/ (l \in L /\ n[l] \in Pcb \cup {NULL})
  BY <1>1 DEF Changes
<1>3. L \subseteq RingLocs
  BY DEF QueueLocs, RingLocs
<1>4. IsAslMemory(n)
  <2>1. \A l \in Locations \ ({"p_semAdd"} \X Pcb) : n[l] \in Pcb \cup {NULL}
    BY <1>2, AslLocationFacts DEF IsAslMemory
  <2> QED
    BY <1>2, <2>1 DEF IsAslMemory
<1>5. \A l \in AslLocations \ RingLocs : n[l] = m[l]
  BY <1>2, <1>3
<1>6. Same(m, n, ListLocs)
  <2>1. ListLocs \subseteq AslLocations \ RingLocs
    BY AslLocationFacts DEF ListLocs, AslLocations
  <2> QED
    BY <1>5, <2>1 DEF Same
<1>7. \A p \in Pcb : n[p_semAdd(p)] = m[p_semAdd(p)]
  BY <1>5, AslLocationFacts
<1>8. /\ P \in [Descriptors -> Seq(Pcb)] /\ P[d] = s
      /\ \A e \in Descriptors \ {d} : P[e] = Q[e]
  BY DEF HoldsQueues
<1> HIDE DEF P
<1>9. ASSUME NEW e \in Descriptors PROVE IsInjective(P[e]) /\ Ring(n, tail(e), P[e])
  <2>1. CASE e = d
    BY <1>8, <2>1
  <2>2. CASE e # d
    <3>1. /\ Q[e] \in Seq(Pcb) /\ IsInjective(Q[e]) /\ Ring(m, tail(e), Q[e])
          /\ P[e] = Q[e] /\ e \in ProcQ
      BY <1>8, <2>2, DescriptorFacts DEF HoldsQueues
    <3>2. R \cap Range(Q[e]) = {}
      BY <2>2
    <3>3. L \cap QueueLocs(tail(e), Range(Q[e])) = {}
      <4> DEFINE T == Range(Q[e])
      <4>1. R \cap T = {}
        BY <3>2
      <4> HIDE DEF T
      <4>2. QueueLocs(tail(d), R) \cap QueueLocs(tail(e), T) = {}
        BY <2>2, <4>1 DEF QueueLocs, tail
      <4> QED
        BY <4>2 DEF T
    <3>4. Ring(n, tail(e), Q[e])
      BY <1>1, <3>1, <3>3, RingFrame
    <3> QED
      BY <3>1, <3>4
  <2> QED
    BY <2>1, <2>2
<1>10. \A e, f \in Descriptors : e # f => Range(P[e]) \cap Range(P[f]) = {}
  <2> SUFFICES ASSUME NEW e \in Descriptors, NEW f \in Descriptors, e # f
               PROVE  Range(P[e]) \cap Range(P[f]) = {}
    OBVIOUS
  <2>1. Range(Q[e]) \cap Range(Q[f]) = {}
    BY DEF HoldsQueues
  <2>2. CASE e = d
    BY <1>8, <2>2
  <2>3. CASE f = d
    BY <1>8, <2>3
  <2>4. CASE e # d /\ f # d
    <3>1. P[e] = Q[e] /\ P[f] = Q[f]
      BY <1>8, <2>4
    <3> QED
      BY <2>1, <3>1
  <2> QED
    BY <2>2, <2>3, <2>4
<1>11. HoldsQueues(n, P)
  BY <1>8, <1>9, <1>10 DEF HoldsQueues
<1>12. ASSUME NEW S, R \subseteq S PROVE Within(m, n, S)
  <2>1. L \subseteq WaitLocs(S)
    BY <1>12 DEF QueueLocs, WaitLocs
  <2> QED
    BY <1>2, <2>1 DEF Within, Same
<1> QED
  BY <1>4, <1>6, <1>7, <1>11, <1>12 DEF P

------------------------------------------------------------------------------
(* What a memory stands for. *)

(* The lists of a memory are the lists it holds. *)
LEMMA ListsAre ==
  ASSUME NEW m, NEW a, NEW u, NEW Q, Good(m, a, u, Q)
  PROVE  /\ ActiveList(m) = a /\ FreeSemd(m) = u
         /\ \A d \in Descriptors : QueueAt(m, s_procQ(d)) = Q[d]
<1>1. /\ a \in Seq(Descriptors) /\ IsInjective(a) /\ Linked(m, "s_next", SemdActive, a)
      /\ u \in Seq(Descriptors) /\ IsInjective(u) /\ Linked(m, "s_next", SemdFree, u)
  BY DEF Good, Sorted
<1>2. Len(a) <= N + 2 /\ Len(u) <= N + 2 /\ NULL \notin Descriptors
  BY <1>1, DescriptorListLen, DescriptorFacts
<1>3. ActiveList(m) = a /\ FreeSemd(m) = u
  BY <1>1, <1>2, LinkedList DEF ActiveList, FreeSemd
<1>4. ASSUME NEW d \in Descriptors PROVE QueueAt(m, s_procQ(d)) = Q[d]
  <2>1. Q[d] \in Seq(Pcb) /\ IsInjective(Q[d]) /\ Ring(m, tail(d), Q[d])
    BY DEF Good, HoldsQueues
  <2> QED
    BY <2>1, RingIsQueue DEF s_procQ
<1> QED
  BY <1>3, <1>4

(* Each active descriptor has an address of its own. *)
LEMMA ActiveAddresses ==
  ASSUME NEW m, NEW a, NEW u, Sorted(m, a, u)
  PROVE  /\ \A d, e \in Range(a) : m[s_semAdd(d)] = m[s_semAdd(e)] => d = e
         /\ \A d \in Range(a) : d \in Descriptors /\ m[s_semAdd(d)] \in 0 .. MAXINT
         /\ \A d \in Range(a) : d \in SemdPool <=> m[s_semAdd(d)] \in SemAdd
<1>1. SortedList(m, a) /\ a \in Seq(Descriptors)
  BY SortedIs
<1>2. Range(a) = {a[i] : i \in 1 .. Len(a)}
  BY <1>1, RangeOf
<1>3. /\ Len(a) \in Nat
      /\ \A i \in 1 .. Len(a) : a[i] \in Descriptors /\ m[s_semAdd(a[i])] \in 0 .. MAXINT
      /\ \A i, j \in 1 .. Len(a) : i < j => m[s_semAdd(a[i])] < m[s_semAdd(a[j])]
  BY <1>1 DEF SortedList
<1>4. ASSUME NEW d \in Range(a), NEW e \in Range(a), m[s_semAdd(d)] = m[s_semAdd(e)]
      PROVE  d = e
  <2>1. PICK i \in 1 .. Len(a) : d = a[i]
    BY <1>2
  <2>2. PICK j \in 1 .. Len(a) : e = a[j]
    BY <1>2
  <2>3. i = j \/ i < j \/ j < i
    OBVIOUS
  <2>4. m[s_semAdd(d)] \in 0 .. MAXINT
    BY <1>3, <2>1
  <2>5. ~ (m[s_semAdd(d)] < m[s_semAdd(e)]) /\ ~ (m[s_semAdd(e)] < m[s_semAdd(d)])
    BY <1>4, <2>4, AddressFacts
  <2> QED
    BY <1>3, <2>1, <2>2, <2>3, <2>5
<1>5. ASSUME NEW d \in Range(a) PROVE d \in SemdPool <=> m[s_semAdd(d)] \in SemAdd
  <2>1. d \in SemdPool => m[s_semAdd(d)] \in SemAdd
    BY DEF Sorted
  <2>2. d \notin SemdPool => d = FirstDummy \/ d = LastDummy
    BY <1>2, <1>3, DescriptorFacts
  <2>3. m[s_semAdd(FirstDummy)] \notin SemAdd /\ m[s_semAdd(LastDummy)] \notin SemAdd
    BY AddressFacts DEF Sorted
  <2> QED
    BY <2>1, <2>2, <2>3
<1> QED
  BY <1>2, <1>3, <1>4, <1>5

(* The queue of a semaphore is that of its active descriptor. *)
LEMMA QueuesAre ==
  ASSUME NEW m, NEW a, NEW u, NEW Q, Good(m, a, u, Q)
  PROVE  /\ QueuesIn(m) \in [SemAdd -> Seq(Pcb)]
         /\ \A d \in Range(a) \cap SemdPool :
               m[s_semAdd(d)] \in SemAdd /\ QueuesIn(m)[m[s_semAdd(d)]] = Q[d]
         /\ \A s \in SemAdd : (\A d \in Range(a) : m[s_semAdd(d)] # s)
               => QueuesIn(m)[s] = <<>>
         /\ \A s \in SemAdd : QueuesIn(m)[s] # <<>> =>
               \E d \in Range(a) \cap SemdPool :
                  m[s_semAdd(d)] = s /\ QueuesIn(m)[s] = Q[d]
<1> DEFINE W == QueuesIn(m)
<1>1. ActiveList(m) = a /\ \A d \in Descriptors : QueueAt(m, s_procQ(d)) = Q[d]
  BY ListsAre
<1>2. Sorted(m, a, u) /\ HoldsQueues(m, Q)
  BY DEF Good
<1>3. /\ \A d, e \in Range(a) : m[s_semAdd(d)] = m[s_semAdd(e)] => d = e
      /\ \A d \in Range(a) : d \in Descriptors
      /\ \A d \in Range(a) : d \in SemdPool <=> m[s_semAdd(d)] \in SemAdd
  BY <1>2, ActiveAddresses
<1>4. W = [s \in SemAdd |->
             IF \E d \in Range(a) : m[s_semAdd(d)] = s
             THEN QueueAt(m, s_procQ(CHOOSE d \in Range(a) : m[s_semAdd(d)] = s))
             ELSE <<>>]
  BY <1>1 DEF QueuesIn
<1> HIDE DEF W
<1>5. ASSUME NEW d \in Range(a), m[s_semAdd(d)] \in SemAdd PROVE W[m[s_semAdd(d)]] = Q[d]
  <2> DEFINE s == m[s_semAdd(d)]
  <2>1. (CHOOSE e \in Range(a) : m[s_semAdd(e)] = s) = d
    BY <1>3
  <2>2. W[s] = QueueAt(m, s_procQ(CHOOSE e \in Range(a) : m[s_semAdd(e)] = s))
    BY <1>4, <1>5
  <2> QED
    BY <1>1, <1>3, <2>1, <2>2
<1>6. \A s \in SemAdd : (\A d \in Range(a) : m[s_semAdd(d)] # s) => W[s] = <<>>
  BY <1>4
<1>7. \A s \in SemAdd : W[s] # <<>> =>
         \E d \in Range(a) \cap SemdPool : m[s_semAdd(d)] = s /\ W[s] = Q[d]
  BY <1>3, <1>5, <1>6
<1>8. ASSUME NEW s \in SemAdd PROVE W[s] \in Seq(Pcb)
  <2>1. CASE W[s] = <<>>
    BY <2>1
  <2>2. CASE W[s] # <<>>
    BY <1>3, <1>7, <2>2, <1>2 DEF HoldsQueues
  <2> QED
    BY <2>1, <2>2
<1>9. W \in [SemAdd -> Seq(Pcb)]
  <2>1. DOMAIN W = SemAdd /\ W = [s \in SemAdd |-> W[s]]
    BY <1>4
  <2> QED
    BY <1>8, <2>1
<1> QED
  BY <1>3, <1>5, <1>6, <1>7, <1>9 DEF W

(* A block is marked with a semaphore exactly when it waits there. *)
LEMMA MarksAre ==
  ASSUME NEW m, NEW a, NEW u, NEW Q, Good(m, a, u, Q), NEW p \in Pcb
  PROVE  /\ \A s \in SemAdd : m[p_semAdd(p)] = s <=> p \in Range(QueuesIn(m)[s])
         /\ (\A s \in SemAdd : p \notin Range(QueuesIn(m)[s])) <=>
               \A d \in Descriptors : p \notin Range(Q[d])
         /\ m[p_semAdd(p)] \in SemAdd \cup {NULL}
         /\ \A d \in Descriptors : p \in Range(Q[d]) =>
               d \in Range(a) \cap SemdPool /\ m[p_semAdd(p)] = m[s_semAdd(d)]
<1> DEFINE W == QueuesIn(m)
<1>1. /\ W \in [SemAdd -> Seq(Pcb)]
      /\ \A d \in Range(a) \cap SemdPool : m[s_semAdd(d)] \in SemAdd /\ W[m[s_semAdd(d)]] = Q[d]
      /\ \A s \in SemAdd : W[s] # <<>> =>
            \E d \in Range(a) \cap SemdPool : m[s_semAdd(d)] = s /\ W[s] = Q[d]
  BY QueuesAre
<1> HIDE DEF W
<1>2. /\ \A d \in Descriptors : \A x \in Range(Q[d]) : m[p_semAdd(x)] = m[s_semAdd(d)]
      /\ \A x \in Pcb : (\A d \in Descriptors : x \notin Range(Q[d])) => m[p_semAdd(x)] = NULL
      /\ \A d \in Descriptors : Q[d] # <<>> <=> d \in Range(a) \cap SemdPool
  BY DEF Good, Marked, WaitedFor
<1>3. ASSUME NEW d \in Descriptors, p \in Range(Q[d])
      PROVE  d \in Range(a) \cap SemdPool /\ m[p_semAdd(p)] = m[s_semAdd(d)]
  <2>1. Q[d] # <<>>
    BY <1>3, EmptyQueue
  <2> QED
    BY <1>2, <1>3, <2>1
<1>4. ASSUME NEW s \in SemAdd, p \in Range(W[s])
      PROVE  \E d \in Descriptors : p \in Range(Q[d]) /\ m[s_semAdd(d)] = s
  <2>1. W[s] # <<>>
    BY <1>4, EmptyQueue
  <2> QED
    BY <1>1, <1>4, <2>1, DescriptorFacts
<1>5. ASSUME NEW d \in Descriptors, p \in Range(Q[d])
      PROVE  m[p_semAdd(p)] \in SemAdd /\ p \in Range(W[m[p_semAdd(p)]])
  BY <1>1, <1>3, <1>5
<1>6. \A s \in SemAdd : m[p_semAdd(p)] = s <=> p \in Range(W[s])
  <2> SUFFICES ASSUME NEW s \in SemAdd
               PROVE  m[p_semAdd(p)] = s <=> p \in Range(W[s])
    OBVIOUS
  <2>1. p \in Range(W[s]) => m[p_semAdd(p)] = s
    BY <1>2, <1>4
  <2>2. ASSUME m[p_semAdd(p)] = s PROVE p \in Range(W[s])
    <3>1. \E d \in Descriptors : p \in Range(Q[d])
      BY <1>2, <2>2, AddressFacts
    <3> QED
      BY <1>5, <2>2, <3>1
  <2> QED
    BY <2>1, <2>2
<1>7. (\A s \in SemAdd : p \notin Range(W[s])) <=> \A d \in Descriptors : p \notin Range(Q[d])
  BY <1>4, <1>5
<1>8. m[p_semAdd(p)] \in SemAdd \cup {NULL}
  BY <1>2, <1>5
<1> QED
  BY <1>3, <1>6, <1>7, <1>8 DEF W

(* When one descriptor, its place in the list or its queue changes, the     *)
(* queue of one semaphore changes.                                          *)
LEMMA OneQueueChanges ==
  ASSUME NEW m, NEW a, NEW u, NEW Q, Good(m, a, u, Q),
         NEW n, NEW b, NEW v, NEW P, Good(n, b, v, P),
         NEW d \in SemdPool, NEW s \in SemAdd, n[s_semAdd(d)] = s,
         d \in Range(a) => m[s_semAdd(d)] = s,
         \A e \in Range(a) : m[s_semAdd(e)] = s => e = d,
         Range(b) \ {d} = Range(a) \ {d},
         \A e \in Descriptors \ {d} : n[s_semAdd(e)] = m[s_semAdd(e)] /\ P[e] = Q[e]
  PROVE  /\ QueuesIn(n) = [QueuesIn(m) EXCEPT ![s] = P[d]]
         /\ QueuesIn(m)[s] = Q[d]
<1> DEFINE W == QueuesIn(m)  X == QueuesIn(n)
<1>1. /\ W \in [SemAdd -> Seq(Pcb)]
      /\ \A e \in Range(a) \cap SemdPool : W[m[s_semAdd(e)]] = Q[e]
      /\ \A r \in SemAdd : (\A e \in Range(a) : m[s_semAdd(e)] # r) => W[r] = <<>>
  BY QueuesAre
<1>2. /\ X \in [SemAdd -> Seq(Pcb)]
      /\ \A e \in Range(b) \cap SemdPool : X[n[s_semAdd(e)]] = P[e]
      /\ \A r \in SemAdd : (\A e \in Range(b) : n[s_semAdd(e)] # r) => X[r] = <<>>
  BY QueuesAre
<1>3. /\ d \in Descriptors
      /\ d \notin Range(a) => Q[d] = <<>>
      /\ d \notin Range(b) => P[d] = <<>>
  BY DescriptorFacts DEF Good, WaitedFor
<1>4. /\ \A e \in Range(a) : e \in Descriptors /\ (e \in SemdPool <=> m[s_semAdd(e)] \in SemAdd)
      /\ \A e \in Range(b) : e \in Descriptors
  BY ActiveAddresses DEF Good
<1> HIDE DEF W, X
<1>5. W[s] = Q[d]
  <2>1. CASE d \in Range(a)
    BY <1>1, <2>1
  <2>2. CASE d \notin Range(a)
    BY <1>1, <1>3, <2>2
  <2> QED
    BY <2>1, <2>2
<1>6. X[s] = P[d]
  <2>1. CASE d \in Range(b)
    BY <1>2, <2>1
  <2>2. CASE d \notin Range(b)
    <3>1. ASSUME NEW e \in Range(b), n[s_semAdd(e)] = s PROVE FALSE
      <4>1. e # d /\ e \in Range(a) /\ e \in Descriptors
        BY <1>4, <2>2
      <4> QED
        BY <3>1, <4>1
    <3> QED
      BY <1>2, <1>3, <2>2, <3>1
  <2> QED
    BY <2>1, <2>2
<1>7. ASSUME NEW r \in SemAdd \ {s} PROVE X[r] = W[r]
  <2>1. CASE \E e \in Range(a) : m[s_semAdd(e)] = r
    <3>1. PICK e \in Range(a) : m[s_semAdd(e)] = r
      BY <2>1
    <3>2. e # d /\ e \in Range(b) /\ e \in SemdPool /\ e \in Descriptors
      BY <1>4, <3>1
    <3>3. n[s_semAdd(e)] = r /\ P[e] = Q[e]
      BY <3>1, <3>2
    <3> QED
      BY <1>1, <1>2, <3>1, <3>2, <3>3
  <2>2. CASE \A e \in Range(a) : m[s_semAdd(e)] # r
    <3>1. ASSUME NEW e \in Range(b), n[s_semAdd(e)] = r PROVE FALSE
      <4>1. e # d
        BY <3>1
      <4>2. e \in Range(a) /\ e \in Descriptors
        BY <1>4, <4>1
      <4> QED
        BY <2>2, <3>1, <4>1, <4>2
    <3> QED
      BY <1>1, <1>2, <2>2, <3>1
  <2> QED
    BY <2>1, <2>2
<1>8. X = [W EXCEPT ![s] = P[d]]
  <2> DEFINE Y == [W EXCEPT ![s] = P[d]]
  <2>1. /\ Y = [r \in SemAdd |-> Y[r]] /\ X = [r \in SemAdd |-> X[r]]
        /\ \A r \in SemAdd : Y[r] = IF r = s THEN P[d] ELSE W[r]
    BY <1>1, <1>2
  <2>2. \A r \in SemAdd : X[r] = Y[r]
    BY <1>6, <1>7, <2>1
  <2> HIDE DEF Y
  <2>3. X = Y
    BY <2>1, <2>2
  <2> QED
    BY <2>3 DEF Y
<1> QED
  BY <1>5, <1>8 DEF W, X

(* There is a free descriptor as long as fewer semaphores are active than   *)
(* there are descriptors.                                                   *)
LEMMA FreeDescriptor ==
  ASSUME NEW m, NEW a, NEW u, NEW Q, Good(m, a, u, Q)
  PROVE  /\ Cardinality({s \in SemAdd : QueuesIn(m)[s] # <<>>}) < Cardinality(SemdPool)
               <=> u # <<>>
         /\ Len(a) + Len(u) = Cardinality(Descriptors)
<1> DEFINE D == Range(a) \cap SemdPool  A == {s \in SemAdd : QueuesIn(m)[s] # <<>>}
           f == [d \in D |-> m[s_semAdd(d)]]
<1>1. /\ \A d \in D : m[s_semAdd(d)] \in SemAdd /\ QueuesIn(m)[m[s_semAdd(d)]] = Q[d]
      /\ \A s \in SemAdd : QueuesIn(m)[s] # <<>> => \E d \in D : m[s_semAdd(d)] = s
  BY QueuesAre
<1>2. /\ \A d \in D : Q[d] # <<>>
      /\ \A d, e \in Range(a) : m[s_semAdd(d)] = m[s_semAdd(e)] => d = e
  BY ActiveAddresses, DescriptorFacts DEF Good, WaitedFor
<1>3. f \in Bijection(D, A)
  <2>1. f \in [D -> A]
    BY <1>1, <1>2
  <2>2. \A d, e \in D : f[d] = f[e] => d = e
    BY <1>2
  <2>3. \A s \in A : \E d \in D : f[d] = s
    BY <1>1
  <2> HIDE DEF D, A, f
  <2> QED
    BY <2>1, <2>2, <2>3 DEF Bijection, Injection, Surjection, IsInjective
<1>4. IsFiniteSet(SemdPool) /\ Cardinality(SemdPool) \in Nat
  BY DescriptorAssumption, DescriptorsCount
<1>5. /\ IsFiniteSet(D) /\ Cardinality(D) <= Cardinality(SemdPool)
      /\ Cardinality(SemdPool) = Cardinality(D) => SemdPool = D
      /\ Cardinality(D) \in Nat
  <2>1. D \in SUBSET SemdPool
    OBVIOUS
  <2> HIDE DEF D
  <2> QED
    BY <1>4, <2>1, FS_Subset, FS_CardinalityType
<1>6. Cardinality(A) = Cardinality(D)
  <2>1. ExistsBijection(D, A)
    BY <1>3 DEF ExistsBijection
  <2> HIDE DEF D, A
  <2> QED
    BY <1>5, <2>1, FS_Bijection
<1>7. /\ a \in Seq(Descriptors) /\ IsInjective(a)
      /\ u \in Seq(Descriptors) /\ IsInjective(u)
      /\ Range(a) \cap Range(u) = {} /\ Range(a) \cup Range(u) = Descriptors
      /\ SortedList(m, a)
  BY SortedIs DEF Good, Sorted
<1>8. FirstDummy \in Range(a) /\ LastDummy \in Range(a)
  <2>1. 1 \in 1 .. Len(a) /\ Len(a) \in 1 .. Len(a) /\ a[1] = FirstDummy /\ a[Len(a)] = LastDummy
    BY <1>7 DEF SortedList
  <2> QED
    BY <1>7, <2>1, RangeOf
<1>9. D = SemdPool <=> u = <<>>
  <2>1. ASSUME u = <<>> PROVE D = SemdPool
    <3>1. Range(u) = {}
      BY <2>1, EmptyQueue
    <3> QED
      BY <1>7, <3>1, DescriptorFacts
  <2>2. ASSUME u # <<>> PROVE D # SemdPool
    <3>1. PICK d \in Range(u) : TRUE
      BY <1>7, <2>2, RangeEmpty
    <3>2. d \in Descriptors /\ d \notin Range(a)
      BY <1>7
    <3>3. d \in SemdPool
      BY <1>8, <3>2, DescriptorFacts
    <3> QED
      BY <3>2, <3>3
  <2> QED
    BY <2>1, <2>2
<1>10. Cardinality(A) < Cardinality(SemdPool) <=> u # <<>>
  <2> HIDE DEF A, D
  <2> QED
    BY <1>4, <1>5, <1>6, <1>9
<1>11. Len(a) + Len(u) = Cardinality(Descriptors)
  <2> DEFINE F == Range(a)  G == Range(u)
  <2>1. /\ IsFiniteSet(F) /\ Cardinality(F) = Len(a)
        /\ IsFiniteSet(G) /\ Cardinality(G) = Len(u)
    BY <1>7, InjectiveLen
  <2>2. F \cap G = {} /\ F \cup G = Descriptors /\ Len(a) \in Nat /\ Len(u) \in Nat
    BY <1>7, RangeOf
  <2> HIDE DEF F, G
  <2>3. Cardinality(F \cup G) = Cardinality(F) + Cardinality(G) - Cardinality(F \cap G)
    BY <2>1, FS_Union
  <2>4. Cardinality(F \cap G) = 0
    BY <2>2, FS_EmptySet
  <2>5. Cardinality(F \cup G) = Cardinality(Descriptors)
    BY <2>2, Zenon
  <2> QED
    BY <2>1, <2>2, <2>3, <2>4, <2>5
<1> QED
  BY <1>10, <1>11

------------------------------------------------------------------------------
(* A block joins the queue of a descriptor. *)

\* In n the mark of p is v.
MarksWith(m, n, p, v) == n = [m EXCEPT ![p_semAdd(p)] = v]

(* The mark of one block is written. *)
LEMMA MarkWritten ==
  ASSUME NEW m, IsAslMemory(m), NEW p \in Pcb, NEW v,
         NEW n, MarksWith(m, n, p, v)
  PROVE  /\ IsAslMemory(n)
         /\ Same(m, n, ListLocs) /\ Same(m, n, RingLocs)
         /\ n[p_semAdd(p)] = v
         /\ \A y \in Pcb \ {p} : n[p_semAdd(y)] = m[p_semAdd(y)]
         /\ \A S : p \in S => Within(m, n, S)
<1>1. DOMAIN m = AslLocations
  BY AslMemoryIs
<1>2. /\ p_semAdd(p) \in AslLocations /\ p_semAdd(p) \notin ListLocs \cup RingLocs
      /\ ListLocs \subseteq AslLocations /\ RingLocs \subseteq AslLocations
  BY AslLocationFacts, DescriptorFacts
       DEF ListLocs, RingLocs, AslLocations, Locations, Fields
<1>3. /\ n = [l \in AslLocations |-> n[l]] /\ n[p_semAdd(p)] = v
      /\ \A l \in AslLocations \ {p_semAdd(p)} : n[l] = m[l]
  BY <1>1, <1>2 DEF MarksWith
<1>4. IsAslMemory(n)
  <2>1. p_semAdd(p) \in {"p_semAdd"} \X Pcb
    BY DEF p_semAdd
  <2>2. \A l \in Locations \ ({"p_semAdd"} \X Pcb) : n[l] \in Pcb \cup {NULL}
    BY <1>3, <2>1, AslLocationFacts DEF IsAslMemory
  <2> QED
    BY <1>3, <2>2 DEF IsAslMemory
<1>5. Same(m, n, ListLocs) /\ Same(m, n, RingLocs)
  BY <1>2, <1>3 DEF Same
<1>6. \A x \in Pcb \ {p} : n[p_semAdd(x)] = m[p_semAdd(x)]
  BY <1>3, AslLocationFacts DEF p_semAdd
<1>7. \A S : p \in S => Within(m, n, S)
  BY <1>3 DEF Within, Same, WaitLocs, p_semAdd
<1> QED
  BY <1>3, <1>4, <1>5, <1>6, <1>7

LEMMA MarkedInsert ==
  ASSUME NEW m, NEW Q \in [Descriptors -> Seq(Pcb)], Marked(m, Q),
         NEW d \in Descriptors, NEW p \in Pcb, \A e \in Descriptors : p \notin Range(Q[e]),
         NEW n, NEW t \in Seq(Pcb), Range(t) = Range(Q[d]) \cup {p},
         n[p_semAdd(p)] = n[s_semAdd(d)],
         \A x \in Pcb \ {p} : n[p_semAdd(x)] = m[p_semAdd(x)],
         \A e \in Descriptors : Q[e] # <<>> => n[s_semAdd(e)] = m[s_semAdd(e)]
  PROVE  Marked(n, [Q EXCEPT ![d] = t])
<1> DEFINE P == [Q EXCEPT ![d] = t]
<1>1. P[d] = t /\ \A e \in Descriptors \ {d} : P[e] = Q[e]
  OBVIOUS
<1> HIDE DEF P
<1>2. \A e \in Descriptors : Range(Q[e]) \subseteq Pcb
  BY RangeOf
<1>3. ASSUME NEW e \in Descriptors, NEW x \in Range(Q[e])
      PROVE  n[p_semAdd(x)] = n[s_semAdd(e)]
  <2>1. x \in Pcb \ {p} /\ Q[e] # <<>>
    BY <1>2, EmptyQueue
  <2> QED
    BY <2>1 DEF Marked
<1>4. ASSUME NEW e \in Descriptors, NEW x \in Range(P[e])
      PROVE  n[p_semAdd(x)] = n[s_semAdd(e)]
  <2>1. CASE e = d
    BY <1>1, <1>3, <2>1
  <2>2. CASE e # d
    BY <1>1, <1>3, <2>2
  <2> QED
    BY <2>1, <2>2
<1>5. ASSUME NEW x \in Pcb, \A e \in Descriptors : x \notin Range(P[e])
      PROVE  n[p_semAdd(x)] = NULL
  <2>1. x # p
    BY <1>1, <1>5
  <2>2. \A e \in Descriptors : x \notin Range(Q[e])
    BY <1>1, <1>5
  <2> QED
    BY <2>1, <2>2 DEF Marked
<1> QED
  BY <1>4, <1>5 DEF Marked, P

LEMMA MarkedRemove ==
  ASSUME NEW m, NEW Q, HoldsQueues(m, Q), NEW k, Marked(k, Q),
         NEW d \in Descriptors, NEW p \in Range(Q[d]),
         NEW n, NEW t \in Seq(Pcb), Range(t) = Range(Q[d]) \ {p},
         n[p_semAdd(p)] = NULL,
         \A x \in Pcb \ {p} : n[p_semAdd(x)] = k[p_semAdd(x)],
         \A e \in Descriptors : n[s_semAdd(e)] = k[s_semAdd(e)]
  PROVE  Marked(n, [Q EXCEPT ![d] = t])
<1> DEFINE P == [Q EXCEPT ![d] = t]
<1>1. /\ Q \in [Descriptors -> Seq(Pcb)] /\ P[d] = t
      /\ \A e \in Descriptors \ {d} : P[e] = Q[e]
      /\ \A e \in Descriptors \ {d} : p \notin Range(Q[e])
  BY DEF HoldsQueues
<1> HIDE DEF P
<1>2. \A e \in Descriptors : Range(Q[e]) \subseteq Pcb
  BY <1>1, RangeOf
<1>3. \A e \in Descriptors : Range(P[e]) = Range(Q[e]) \ {p}
  BY <1>1
<1>4. ASSUME NEW e \in Descriptors, NEW x \in Range(P[e])
      PROVE  n[p_semAdd(x)] = n[s_semAdd(e)]
  <2>1. x \in Range(Q[e]) /\ x \in Pcb \ {p}
    BY <1>2, <1>3
  <2> QED
    BY <2>1 DEF Marked
<1>5. ASSUME NEW x \in Pcb, \A e \in Descriptors : x \notin Range(P[e])
      PROVE  n[p_semAdd(x)] = NULL
  <2>1. CASE x = p
    BY <2>1
  <2>2. CASE x # p
    <3>1. \A e \in Descriptors : x \notin Range(Q[e])
      BY <1>3, <1>5, <2>2
    <3> QED
      BY <2>2, <3>1 DEF Marked
  <2> QED
    BY <2>1, <2>2
<1> QED
  BY <1>4, <1>5 DEF Marked, P

\* The blocks of the queue q with p.
Joined(q, p) == Range(q) \cup {p}

\* The block p waits on s in the descriptor d, which others wait in.
WithOld(m, s, p, d) == insertProcQ([m EXCEPT ![p_semAdd(p)] = s], tail(d), p)

(* The semaphore is active. *)
LEMMA InsertActive ==
  ASSUME NEW m, NEW a, NEW u, NEW Q, Good(m, a, u, Q),
         NEW d \in Range(a) \cap SemdPool, NEW s \in SemAdd, m[s_semAdd(d)] = s,
         NEW p \in Pcb, \A e \in Descriptors : p \notin Range(Q[e])
  PROVE  LET n == WithOld(m, s, p, d) IN
         /\ Good(n, a, u, [Q EXCEPT ![d] = Append(Q[d], p)])
         /\ QueuesIn(n) = [QueuesIn(m) EXCEPT ![s] = Append(QueuesIn(m)[s], p)]
         /\ QueuesIn(m)[s] # <<>>
         /\ Within(m, n, Joined(Q[d], p))
<1> DEFINE k == [m EXCEPT ![p_semAdd(p)] = s]  n == insertProcQ(k, tail(d), p)
           t == Append(Q[d], p)  P == [Q EXCEPT ![d] = t]  R == Range(Q[d]) \cup {p}
<1>1. /\ IsAslMemory(m) /\ Sorted(m, a, u) /\ HoldsQueues(m, Q) /\ Marked(m, Q)
      /\ WaitedFor(a, Q)
  BY DEF Good
<1>2. /\ IsAslMemory(k) /\ Same(m, k, ListLocs) /\ Same(m, k, RingLocs)
      /\ k[p_semAdd(p)] = s /\ \A x \in Pcb \ {p} : k[p_semAdd(x)] = m[p_semAdd(x)]
      /\ \A S : p \in S => Within(m, k, S)
  <2>1. MarksWith(m, k, p, s)
    BY DEF MarksWith
  <2> HIDE DEF k
  <2> QED
    BY <1>1, <2>1, MarkWritten
<1> HIDE DEF k
<1>3. HoldsQueues(k, Q) /\ IsMemory(k)
  BY <1>1, <1>2, QueuesFrame, AslMemoryIs
<1>4. /\ d \in Descriptors /\ d \in ProcQ
      /\ Q \in [Descriptors -> Seq(Pcb)]
      /\ Q[d] \in Seq(Pcb) /\ IsInjective(Q[d]) /\ Ring(k, tail(d), Q[d])
      /\ p \notin Range(Q[d]) /\ Q[d] # <<>>
  BY <1>1, <1>3, DescriptorFacts DEF HoldsQueues, WaitedFor
<1>5. Ring(n, tail(d), t) /\ Changes(k, n, QueueLocs(tail(d), R))
  BY <1>3, <1>4, InsertRing
<1>6. t \in Seq(Pcb) /\ t # <<>> /\ Range(t) = R /\ IsInjective(t)
  BY <1>4, RangeAppend
<1>7. R \in SUBSET Pcb /\ \A e \in Descriptors \ {d} : R \cap Range(Q[e]) = {}
  BY <1>1, <1>4, RangeOf DEF HoldsQueues
<1> HIDE DEF n, R, t
<1>8. /\ IsAslMemory(n) /\ HoldsQueues(n, P) /\ Same(k, n, ListLocs)
      /\ \A x \in Pcb : n[p_semAdd(x)] = k[p_semAdd(x)]
      /\ \A S : R \subseteq S => Within(k, n, S)
  <2>1. /\ IsAslMemory(k) /\ HoldsQueues(k, Q) /\ d \in Descriptors /\ R \in SUBSET Pcb
        /\ Changes(k, n, QueueLocs(tail(d), R)) /\ Ring(n, tail(d), t)
        /\ t \in Seq(Pcb) /\ IsInjective(t)
    BY <1>2, <1>3, <1>4, <1>5, <1>6, <1>7
  <2>2. Range(t) \subseteq R /\ \A e \in Descriptors \ {d} : R \cap Range(Q[e]) = {}
    BY <1>6, <1>7
  <2> QED
    BY <2>1, <2>2, QueueChanges
<1>9. Same(m, n, ListLocs)
  BY <1>2, <1>8 DEF Same
<1>10. Sorted(n, a, u)
  BY <1>1, <1>9, SortedFrame
<1>11. \A e \in Descriptors : n[s_semAdd(e)] = m[s_semAdd(e)]
  BY <1>9, AslLocationFacts DEF Same
<1>12. Marked(n, P)
  <2>1. n[p_semAdd(p)] = n[s_semAdd(d)]
    BY <1>2, <1>4, <1>8, <1>11
  <2>2. \A x \in Pcb \ {p} : n[p_semAdd(x)] = m[p_semAdd(x)]
    BY <1>2, <1>8
  <2>3. Range(t) = Range(Q[d]) \cup {p}
    BY <1>6 DEF R
  <2> QED
    BY <1>1, <1>4, <1>6, <1>11, <2>1, <2>2, <2>3, MarkedInsert
<1>13. P[d] = t /\ \A e \in Descriptors \ {d} : P[e] = Q[e]
  BY <1>4
<1> HIDE DEF P
<1>14. WaitedFor(a, P)
  BY <1>1, <1>4, <1>6, <1>13 DEF WaitedFor
<1>15. Good(n, a, u, P)
  BY <1>8, <1>10, <1>12, <1>14 DEF Good
<1>16. QueuesIn(n) = [QueuesIn(m) EXCEPT ![s] = P[d]] /\ QueuesIn(m)[s] = Q[d]
  <2>1. \A e \in Range(a) : m[s_semAdd(e)] = s => e = d
    BY <1>1, ActiveAddresses
  <2> QED
    BY <1>4, <1>11, <1>13, <1>15, <2>1, OneQueueChanges
<1>17. Within(m, n, Joined(Q[d], p))
  <2>1. p \in R /\ Joined(Q[d], p) = R
    BY DEF R, Joined
  <2>2. Within(m, k, R) /\ Within(k, n, R)
    BY <1>2, <1>8, <2>1
  <2>3. Within(m, n, R)
    BY <2>2, WithinBoth
  <2> QED
    BY <2>1, <2>3
<1> QED
  BY <1>4, <1>13, <1>15, <1>16, <1>17 DEF n, k, t, P, WithOld

(* The first free descriptor gets the address s and its place behind x. *)
LEMMA NewDescriptor ==
  ASSUME NEW m, IsAslMemory(m), NEW d \in SemdPool, NEW x \in Descriptors \ {d},
         m[SemdFree] = d, m[tail(d)] = NULL, NEW s \in SemAdd
  PROVE  LET n == [allocSemd(m).mem EXCEPT ![s_next(d)] = m[s_next(x)],
                                           ![s_next(x)] = d, ![s_semAdd(d)] = s]
         IN  /\ IsAslMemory(n) /\ LinkedBehind(m, n, x, d, s) /\ Same(m, n, RingLocs)
             /\ \A p \in Pcb : n[p_semAdd(p)] = m[p_semAdd(p)]
             /\ allocSemd(m).ptr = d /\ \A S : Within(m, n, S)
<1> DEFINE k == allocSemd(m).mem
           n == [k EXCEPT ![s_next(d)] = m[s_next(x)], ![s_next(x)] = d, ![s_semAdd(d)] = s]
<1>1. DOMAIN m = AslLocations
  BY AslMemoryIs
<1>2. d \in Descriptors /\ d # NULL
  BY DescriptorFacts
<1>3. allocSemd(m) = Returns([m EXCEPT ![SemdFree] = m[s_next(d)], ![s_next(d)] = NULL,
                                       ![s_semAdd(d)] = NULL, ![tail(d)] = NULL], d)
  BY <1>2 DEF allocSemd, s_procQ
<1>4. /\ k = [m EXCEPT ![SemdFree] = m[s_next(d)], ![s_next(d)] = NULL,
                       ![s_semAdd(d)] = NULL, ![tail(d)] = NULL]
      /\ allocSemd(m).ptr = d
  BY <1>3 DEF Returns
<1>5. /\ {SemdFree, s_next(d), s_semAdd(d), tail(d), s_next(x)} \subseteq AslLocations
      /\ \A e \in Descriptors : {s_next(e), s_semAdd(e)} \subseteq AslLocations \cap ListLocs
      /\ SemdActive \in AslLocations /\ tail(d) \in RingLocs
      /\ ListLocs \cap RingLocs = {}
      /\ \A p : p_semAdd(p) \notin ListLocs \cup RingLocs
      /\ {SemdFree, SemdActive} \subseteq ListLocs
      /\ \A p \in Pcb : p_semAdd(p) \in AslLocations
  BY <1>2, AslLocationFacts
<1> DEFINE L == {SemdFree, s_next(d), s_semAdd(d), s_next(x)}
<1>6. /\ \A e, f : s_next(e) = s_next(f) => e = f
      /\ \A e, f : s_semAdd(e) = s_semAdd(f) => e = f
      /\ \A e, f : s_next(e) # s_semAdd(f)
      /\ \A e : {s_next(e), s_semAdd(e)} \cap {SemdFree, SemdActive, tail(d)} = {}
      /\ SemdFree # SemdActive /\ tail(d) # SemdFree /\ tail(d) # SemdActive
  BY DEF s_next, s_semAdd, SemdFree, SemdActive, tail
<1> HIDE DEF k
<1>7. /\ DOMAIN k = AslLocations /\ k[SemdFree] = m[s_next(d)] /\ k[tail(d)] = NULL
      /\ \A l \in AslLocations \ {SemdFree, s_next(d), s_semAdd(d), tail(d)} : k[l] = m[l]
  BY <1>1, <1>4, <1>5, <1>6
<1>8. /\ n = [l \in AslLocations |-> n[l]]
      /\ n[SemdFree] = m[s_next(d)] /\ n[s_next(d)] = m[s_next(x)]
      /\ n[s_next(x)] = d /\ n[s_semAdd(d)] = s
      /\ \A l \in AslLocations \ L : n[l] = m[l]
  <2>1. s_next(x) # s_next(d)
    BY <1>6
  <2>2. n = [l \in AslLocations |-> n[l]]
    BY <1>7
  <2>3. /\ n[SemdFree] = k[SemdFree] /\ n[s_next(d)] = m[s_next(x)]
        /\ n[s_next(x)] = d /\ n[s_semAdd(d)] = s
        /\ \A l \in AslLocations \ {s_next(d), s_semAdd(d), s_next(x)} : n[l] = k[l]
    BY <1>5, <1>6, <1>7, <2>1
  <2> HIDE DEF n
  <2>4. ASSUME NEW l \in AslLocations \ L PROVE n[l] = m[l]
    <3>1. n[l] = k[l]
      BY <2>3
    <3>2. CASE l = tail(d)
      BY <1>7, <3>1, <3>2
    <3>3. CASE l # tail(d)
      BY <1>7, <3>1, <3>3
    <3> QED
      BY <3>2, <3>3
  <2> QED
    BY <1>7, <2>2, <2>3, <2>4
<1> HIDE DEF n
<1>9. L \subseteq ListLocs
  BY <1>2, <1>5
<1>10. \A l \in AslLocations \ ListLocs : n[l] = m[l]
  BY <1>8, <1>9
<1>11. Locations \cap ListLocs = {} /\ RingLocs \subseteq AslLocations \ ListLocs
  <2>1. Locations \cap ListLocs = {}
    BY DEF Locations, Fields, ListLocs, SemdFree, SemdActive, FreeHead, tail
  <2>2. RingLocs \subseteq AslLocations
    BY DescriptorFacts DEF RingLocs, AslLocations, Locations, Fields
  <2> QED
    BY <1>5, <2>1, <2>2
<1>12. IsAslMemory(n)
  <2>1. \A l \in Locations \ ({"p_semAdd"} \X Pcb) : n[l] \in Pcb \cup {NULL}
    BY <1>10, <1>11, AslLocationFacts DEF IsAslMemory
  <2> QED
    BY <1>8, <2>1 DEF IsAslMemory
<1>13. Same(m, n, RingLocs)
  BY <1>10, <1>11 DEF Same
<1>14. \A p \in Pcb : n[p_semAdd(p)] = m[p_semAdd(p)]
  BY <1>5, <1>10
<1>15. LinkedBehind(m, n, x, d, s)
  <2>1. n[SemdActive] = m[SemdActive]
    BY <1>5, <1>6, <1>8
  <2>2. ASSUME NEW e \in Descriptors \ {d, x} PROVE n[s_next(e)] = m[s_next(e)]
    BY <1>5, <1>6, <1>8
  <2>3. ASSUME NEW e \in Descriptors \ {d} PROVE n[s_semAdd(e)] = m[s_semAdd(e)]
    BY <1>5, <1>6, <1>8
  <2> QED
    BY <1>8, <2>1, <2>2, <2>3 DEF LinkedBehind
<1>16. \A S : Within(m, n, S)
  BY <1>10 DEF Within, Same, WaitLocs
<1> QED
  BY <1>4, <1>12, <1>13, <1>14, <1>15, <1>16 DEF n, k

\* The block p waits on s in the new descriptor d behind x.
WithNew(m, s, p, x, d) ==
    LET k == [allocSemd(m).mem EXCEPT ![s_next(d)] = m[s_next(x)], ![s_next(x)] = d,
                                      ![s_semAdd(d)] = s]
    IN  [insertProcQ(k, tail(d), p) EXCEPT ![p_semAdd(p)] = s]

\* The semaphore s is not active, and the descriptor that is free, d, would be
\* put behind x, at the position j.
NewPlace(m, a, u, s, j, x, d) ==
    /\ Found(m, a, s, j) /\ m[s_semAdd(a[j])] # s
    /\ Before(a, j, x)
    /\ u # <<>> /\ d = Head(u)

(* The semaphore is not active and a descriptor is free. *)
LEMMA InsertInactive ==
  ASSUME NEW m, NEW a, NEW u, NEW Q, Good(m, a, u, Q), NEW s \in SemAdd,
         NEW j, NEW x, NEW d, NewPlace(m, a, u, s, j, x, d),
         NEW p \in Pcb, \A e \in Descriptors : p \notin Range(Q[e])
  PROVE  LET n == WithNew(m, s, p, x, d) IN
         /\ Good(n, Inserted(a, j, d), Tail(u), [Q EXCEPT ![d] = Append(Q[d], p)])
         /\ QueuesIn(n) = [QueuesIn(m) EXCEPT ![s] = Append(QueuesIn(m)[s], p)]
         /\ QueuesIn(m)[s] = <<>>
         /\ allocSemd(m).ptr = d /\ d # NULL
         /\ \A S : p \in S => Within(m, n, S)
<1> DEFINE k == [allocSemd(m).mem EXCEPT ![s_next(d)] = m[s_next(x)], ![s_next(x)] = d,
                                         ![s_semAdd(d)] = s]
           h == insertProcQ(k, tail(d), p)  n == [h EXCEPT ![p_semAdd(p)] = s]
           t == Append(Q[d], p)  P == [Q EXCEPT ![d] = t]  R == Range(Q[d]) \cup {p}
           b == Inserted(a, j, d)  v == Tail(u)
<1>0. /\ Found(m, a, s, j) /\ m[s_semAdd(a[j])] # s /\ Before(a, j, x)
      /\ u # <<>> /\ d = Head(u) /\ x = a[j - 1]
  BY DEF NewPlace, Before
<1>1. /\ IsAslMemory(m) /\ Sorted(m, a, u) /\ HoldsQueues(m, Q) /\ Marked(m, Q)
      /\ WaitedFor(a, Q)
  BY DEF Good
<1>2. /\ u \in Seq(Descriptors) /\ IsInjective(u) /\ Linked(m, "s_next", SemdFree, u)
      /\ Range(a) \cap Range(u) = {} /\ a \in Seq(Descriptors) /\ SortedList(m, a)
  BY <1>1, SortedIs DEF Sorted
<1>3. d \in Range(u) /\ d \in Descriptors /\ m[SemdFree] = d /\ d # NULL
  BY <1>0, <1>2, RangeTail, DescriptorFacts DEF Linked
<1>4. /\ FirstDummy \in Range(a) /\ LastDummy \in Range(a) /\ x \in Range(a)
      /\ x \in Descriptors
  <2>1. 1 \in 1 .. Len(a) /\ Len(a) \in 1 .. Len(a) /\ j - 1 \in 1 .. Len(a)
    BY <1>0, <1>2 DEF Found, SortedList
  <2> QED
    BY <1>0, <1>2, <2>1, RangeOf DEF SortedList
<1>5. d \in SemdPool /\ d \notin Range(a) /\ x # d /\ d \in ProcQ
  BY <1>2, <1>3, <1>4, DescriptorFacts
<1>6. Q[d] = <<>> /\ Q \in [Descriptors -> Seq(Pcb)] /\ m[tail(d)] = NULL
  BY <1>1, <1>3, <1>5 DEF HoldsQueues, WaitedFor, Ring
<1>7. /\ IsAslMemory(k) /\ LinkedBehind(m, k, x, d, s) /\ Same(m, k, RingLocs)
      /\ \A y \in Pcb : k[p_semAdd(y)] = m[p_semAdd(y)]
      /\ allocSemd(m).ptr = d /\ \A S : Within(m, k, S)
  <2>1. /\ IsAslMemory(m) /\ d \in SemdPool /\ x \in Descriptors \ {d}
        /\ m[SemdFree] = d /\ m[tail(d)] = NULL
    BY <1>1, <1>3, <1>4, <1>5, <1>6
  <2> QED
    BY <2>1, NewDescriptor
<1> HIDE DEF k
<1>8. Sorted(k, b, v) /\ Range(b) = Range(a) \cup {d}
  <2>2. Sorted(k, b, v)
    BY <1>0, <1>1, <1>7, SortedInsert
  <2>3. j \in 1 .. Len(a) /\ IsInjective(a) /\ d \in Descriptors \ Range(a)
    BY <1>0, <1>1, <1>3, <1>5 DEF Found, Sorted
  <2>4. Range(b) = Range(a) \cup {d}
    BY <1>2, <2>3, InsertedMembers
  <2> QED
    BY <2>2, <2>4
<1>9. HoldsQueues(k, Q) /\ IsMemory(k)
  BY <1>1, <1>7, QueuesFrame, AslMemoryIs
<1>10. Ring(k, tail(d), Q[d]) /\ IsInjective(Q[d]) /\ Q[d] \in Seq(Pcb) /\ p \notin Range(Q[d])
  BY <1>3, <1>6, <1>9 DEF HoldsQueues
<1>11. Ring(h, tail(d), t) /\ Changes(k, h, QueueLocs(tail(d), R))
  BY <1>5, <1>9, <1>10, InsertRing
<1>12. t \in Seq(Pcb) /\ t # <<>> /\ Range(t) = R /\ IsInjective(t)
  BY <1>10, RangeAppend
<1>13. R \in SUBSET Pcb /\ \A e \in Descriptors \ {d} : R \cap Range(Q[e]) = {}
  BY <1>1, <1>3, <1>10, RangeOf DEF HoldsQueues
<1> HIDE DEF h, R, t
<1>14. /\ IsAslMemory(h) /\ HoldsQueues(h, P) /\ Same(k, h, ListLocs)
       /\ \A y \in Pcb : h[p_semAdd(y)] = k[p_semAdd(y)]
       /\ \A S : R \subseteq S => Within(k, h, S)
  <2>1. /\ IsAslMemory(k) /\ HoldsQueues(k, Q) /\ d \in Descriptors /\ R \in SUBSET Pcb
        /\ Changes(k, h, QueueLocs(tail(d), R)) /\ Ring(h, tail(d), t)
        /\ t \in Seq(Pcb) /\ IsInjective(t)
    BY <1>3, <1>7, <1>9, <1>11, <1>12, <1>13
  <2>2. Range(t) \subseteq R /\ \A e \in Descriptors \ {d} : R \cap Range(Q[e]) = {}
    BY <1>12, <1>13
  <2> QED
    BY <2>1, <2>2, QueueChanges
<1>15. /\ IsAslMemory(n) /\ Same(h, n, ListLocs) /\ Same(h, n, RingLocs)
       /\ n[p_semAdd(p)] = s
       /\ \A y \in Pcb \ {p} : n[p_semAdd(y)] = h[p_semAdd(y)]
       /\ \A S : p \in S => Within(h, n, S)
  <2>1. IsAslMemory(h) /\ MarksWith(h, n, p, s)
    BY <1>14 DEF MarksWith
  <2> HIDE DEF n
  <2> QED
    BY <2>1, MarkWritten
<1> HIDE DEF n
<1>16. P[d] = t /\ \A e \in Descriptors \ {d} : P[e] = Q[e]
  BY <1>3, <1>6
<1>17. Same(k, n, ListLocs)
  BY <1>14, <1>15 DEF Same
<1>18. Sorted(n, b, v)
  BY <1>8, <1>17, SortedFrame
<1>19. HoldsQueues(n, P)
  BY <1>14, <1>15, QueuesFrame
<1>20. /\ n[s_semAdd(d)] = s
       /\ \A e \in Descriptors \ {d} : n[s_semAdd(e)] = m[s_semAdd(e)]
  <2>1. \A e \in Descriptors : n[s_semAdd(e)] = k[s_semAdd(e)]
    BY <1>17, AslLocationFacts DEF Same
  <2> QED
    BY <1>3, <1>7, <2>1 DEF LinkedBehind
<1>21. Marked(n, P)
  <2>1. n[p_semAdd(p)] = n[s_semAdd(d)]
    BY <1>15, <1>20
  <2>2. \A y \in Pcb \ {p} : n[p_semAdd(y)] = m[p_semAdd(y)]
    BY <1>7, <1>14, <1>15
  <2>3. Range(t) = Range(Q[d]) \cup {p}
    BY <1>12 DEF R
  <2>4. \A e \in Descriptors : Q[e] # <<>> => n[s_semAdd(e)] = m[s_semAdd(e)]
    BY <1>6, <1>20
  <2> QED
    BY <1>1, <1>3, <1>6, <1>12, <2>1, <2>2, <2>3, <2>4, MarkedInsert
<1> HIDE DEF P
<1>22. WaitedFor(b, P)
  <2>1. ASSUME NEW e \in Descriptors PROVE P[e] # <<>> <=> e \in Range(b) \cap SemdPool
    <3>1. CASE e = d
      BY <1>5, <1>8, <1>12, <1>16, <3>1
    <3>2. CASE e # d
      BY <1>1, <1>8, <1>16, <3>2 DEF WaitedFor
    <3> QED
      BY <3>1, <3>2
  <2> QED
    BY <2>1 DEF WaitedFor
<1>23. Good(n, b, v, P)
  BY <1>15, <1>18, <1>19, <1>21, <1>22 DEF Good
<1>24. QueuesIn(n) = [QueuesIn(m) EXCEPT ![s] = P[d]] /\ QueuesIn(m)[s] = Q[d]
  <2>1. \A e \in Range(a) : m[s_semAdd(e)] # s
    BY <1>0, <1>1, FoundIs
  <2>2. Range(b) \ {d} = Range(a) \ {d}
    BY <1>8
  <2> QED
    BY <1>5, <1>16, <1>20, <1>23, <2>1, <2>2, OneQueueChanges
<1>25. ASSUME NEW S, p \in S PROVE Within(m, n, S)
  <2>1. R \subseteq S
    BY <1>6, <1>25, EmptyQueue DEF R
  <2>2. Within(m, k, S) /\ Within(k, h, S) /\ Within(h, n, S)
    BY <1>7, <1>14, <1>15, <1>25, <2>1
  <2> QED
    BY <2>2, WithinBoth
<1> QED
  BY <1>3, <1>6, <1>7, <1>16, <1>23, <1>24, <1>25 DEF n, h, k, t, P, b, v, WithNew

------------------------------------------------------------------------------
(* A block leaves the queue of a descriptor. *)

(* A descriptor is freed. *)
LEMMA OldDescriptor ==
  ASSUME NEW m, IsAslMemory(m), NEW d \in Descriptors, NEW x \in Descriptors \ {d}
  PROVE  LET n == freeSemd([m EXCEPT ![s_next(x)] = m[s_next(d)]], d)
         IN  /\ IsAslMemory(n) /\ UnlinkedBehind(m, n, x, d) /\ Same(m, n, RingLocs)
             /\ \A p \in Pcb : n[p_semAdd(p)] = m[p_semAdd(p)]
             /\ \A S : Within(m, n, S)
<1> DEFINE k == [m EXCEPT ![s_next(x)] = m[s_next(d)]]  n == freeSemd(k, d)
           L == {SemdFree, s_next(d), s_next(x)}
<1>1. DOMAIN m = AslLocations
  BY AslMemoryIs
<1>2. /\ {SemdFree, s_next(d), s_next(x)} \subseteq AslLocations
      /\ \A e \in Descriptors : {s_next(e), s_semAdd(e)} \subseteq AslLocations \cap ListLocs
      /\ SemdActive \in AslLocations
      /\ ListLocs \cap RingLocs = {}
      /\ \A p : p_semAdd(p) \notin ListLocs \cup RingLocs
      /\ {SemdFree, SemdActive} \subseteq ListLocs
      /\ \A p \in Pcb : p_semAdd(p) \in AslLocations
  BY AslLocationFacts
<1>3. /\ \A e, f : s_next(e) = s_next(f) => e = f
      /\ \A e, f : s_next(e) # s_semAdd(f)
      /\ \A e : {s_next(e), s_semAdd(e)} \cap {SemdFree, SemdActive} = {}
      /\ SemdFree # SemdActive
  BY DEF s_next, s_semAdd, SemdFree, SemdActive
<1>4. /\ DOMAIN k = AslLocations /\ k[s_next(x)] = m[s_next(d)] /\ k[SemdFree] = m[SemdFree]
      /\ \A l \in AslLocations \ {s_next(x)} : k[l] = m[l]
  BY <1>1, <1>2, <1>3
<1> HIDE DEF k
<1>5. n = [k EXCEPT ![s_next(d)] = k[SemdFree], ![SemdFree] = d]
  BY DEF freeSemd
<1>6. s_next(x) # s_next(d)
  BY <1>3
<1>7. /\ n = [l \in AslLocations |-> n[l]]
      /\ n[SemdFree] = d /\ n[s_next(d)] = m[SemdFree] /\ n[s_next(x)] = m[s_next(d)]
      /\ \A l \in AslLocations \ L : n[l] = m[l]
  <2>1. n = [l \in AslLocations |-> n[l]]
    BY <1>4, <1>5
  <2> HIDE DEF n
  <2>2. /\ n[SemdFree] = d /\ n[s_next(d)] = k[SemdFree]
        /\ \A l \in AslLocations \ {SemdFree, s_next(d)} : n[l] = k[l]
    BY <1>2, <1>3, <1>4, <1>5
  <2>3. n[s_next(x)] = k[s_next(x)]
    BY <1>2, <1>3, <1>6, <2>2
  <2> QED
    BY <1>4, <2>1, <2>2, <2>3
<1> HIDE DEF n
<1>8. \A l \in AslLocations \ ListLocs : n[l] = m[l]
  BY <1>2, <1>7
<1>9. Locations \cap ListLocs = {} /\ RingLocs \subseteq AslLocations \ ListLocs
  <2>1. Locations \cap ListLocs = {}
    BY DEF Locations, Fields, ListLocs, SemdFree, SemdActive, FreeHead, tail
  <2>2. RingLocs \subseteq AslLocations
    BY DescriptorFacts DEF RingLocs, AslLocations, Locations, Fields
  <2> QED
    BY <1>2, <2>1, <2>2
<1>10. IsAslMemory(n)
  <2>1. \A l \in Locations \ ({"p_semAdd"} \X Pcb) : n[l] \in Pcb \cup {NULL}
    BY <1>8, <1>9, AslLocationFacts DEF IsAslMemory
  <2> QED
    BY <1>7, <2>1 DEF IsAslMemory
<1>11. Same(m, n, RingLocs)
  BY <1>8, <1>9 DEF Same
<1>12. \A p \in Pcb : n[p_semAdd(p)] = m[p_semAdd(p)]
  BY <1>2, <1>8
<1>13. UnlinkedBehind(m, n, x, d)
  <2>1. n[SemdActive] = m[SemdActive]
    BY <1>2, <1>3, <1>7
  <2>2. \A e \in Descriptors \ {d, x} : n[s_next(e)] = m[s_next(e)]
    BY <1>2, <1>3, <1>7
  <2>3. \A e \in Descriptors : n[s_semAdd(e)] = m[s_semAdd(e)]
    BY <1>2, <1>3, <1>7
  <2> QED
    BY <1>7, <2>1, <2>2, <2>3 DEF UnlinkedBehind
<1>14. \A S : Within(m, n, S)
  BY <1>8 DEF Within, Same, WaitLocs
<1> QED
  BY <1>10, <1>11, <1>12, <1>13, <1>14 DEF n, k

\* A function of pcb.c has taken p from the queue of d, which leaves t.
TakenFrom(m, r, d, q, p, t) ==
    /\ r.ptr = p
    /\ Changes(m, r.mem, QueueLocs(tail(d), Range(q)))
    /\ Ring(r.mem, tail(d), t)
    /\ t \in Seq(Pcb) /\ IsInjective(t) /\ Range(t) = Range(q) \ {p}

\* The descriptor d of s is at the position j, behind x.
Place(m, a, s, j, x, d) ==
    /\ j \in 2 .. Len(a) - 1 /\ d = a[j] /\ Before(a, j, x)
    /\ m[s_next(x)] = d /\ m[s_semAdd(d)] = s

(* What follows a call of removeProcQ or outProcQ. *)
LEMMA TakenIs ==
  ASSUME NEW m, NEW a, NEW u, NEW Q, Good(m, a, u, Q),
         NEW s \in SemAdd, NEW j, NEW d, NEW x, Place(m, a, s, j, x, d),
         NEW p, p \in Range(Q[d]), NEW t, NEW r, TakenFrom(m, r, d, Q[d], p, t)
  PROVE  /\ \E b, v : Good(Taken(r, x).mem, b, v, [Q EXCEPT ![d] = t])
         /\ Taken(r, x).ptr = p
         /\ QueuesIn(Taken(r, x).mem) = [QueuesIn(m) EXCEPT ![s] = t]
         /\ QueuesIn(m)[s] = Q[d]
         /\ \A S : Range(Q[d]) \subseteq S => Within(m, Taken(r, x).mem, S)
<1> DEFINE k == r.mem  h == UnlinkedIfEmpty(k, x)  n == Taken(r, x).mem
           P == [Q EXCEPT ![d] = t]
<1>0. /\ j \in 2 .. Len(a) - 1 /\ d = a[j] /\ Before(a, j, x)
      /\ m[s_next(x)] = d /\ m[s_semAdd(d)] = s
  BY DEF Place
<1>1. /\ IsAslMemory(m) /\ Sorted(m, a, u) /\ HoldsQueues(m, Q) /\ Marked(m, Q)
      /\ WaitedFor(a, Q)
  BY DEF Good
<1>2. /\ SortedList(m, a) /\ a \in Seq(Descriptors) /\ IsInjective(a)
  BY <1>1, SortedIs DEF Sorted
<1>3. /\ j \in 1 .. Len(a) /\ j - 1 \in 1 .. Len(a) /\ j - 1 # j /\ Len(a) \in Nat
  <2>1. Len(a) \in Nat
    BY <1>2 DEF SortedList
  <2> QED
    BY <1>0, <2>1
<1>4. /\ d \in Range(a) /\ d \in SemdPool /\ d \in Descriptors /\ x \in Descriptors \ {d}
  <2>1. x = a[j - 1]
    BY <1>0 DEF Before
  <2> QED
    BY <1>0, <1>2, <1>3, <2>1, RangeOf DEF SortedList
<1>5. /\ Q \in [Descriptors -> Seq(Pcb)] /\ Q[d] \in Seq(Pcb) /\ Range(Q[d]) \subseteq Pcb
      /\ p \in Pcb
      /\ \A e \in Descriptors \ {d} : Range(Q[d]) \cap Range(Q[e]) = {}
  BY <1>1, <1>4, RangeOf DEF HoldsQueues
<1>6. /\ r.ptr = p /\ Changes(m, k, QueueLocs(tail(d), Range(Q[d])))
      /\ Ring(k, tail(d), t) /\ t \in Seq(Pcb) /\ IsInjective(t)
      /\ Range(t) = Range(Q[d]) \ {p}
  BY DEF TakenFrom
<1> HIDE DEF k
<1>7. /\ IsAslMemory(k) /\ HoldsQueues(k, P) /\ Same(m, k, ListLocs)
      /\ \A y \in Pcb : k[p_semAdd(y)] = m[p_semAdd(y)]
      /\ \A S : Range(Q[d]) \subseteq S => Within(m, k, S)
  <2> DEFINE R == Range(Q[d])
  <2>1. /\ IsAslMemory(m) /\ HoldsQueues(m, Q) /\ d \in Descriptors /\ R \in SUBSET Pcb
        /\ Changes(m, k, QueueLocs(tail(d), R)) /\ Ring(k, tail(d), t)
        /\ t \in Seq(Pcb) /\ IsInjective(t)
    BY <1>1, <1>4, <1>5, <1>6
  <2>2. Range(t) \subseteq R /\ \A e \in Descriptors \ {d} : R \cap Range(Q[e]) = {}
    BY <1>5, <1>6
  <2> HIDE DEF R
  <2>3. /\ IsAslMemory(k) /\ HoldsQueues(k, P) /\ Same(m, k, ListLocs)
        /\ \A y \in Pcb : k[p_semAdd(y)] = m[p_semAdd(y)]
        /\ \A S : R \subseteq S => Within(m, k, S)
    BY <2>1, <2>2, QueueChanges
  <2> QED
    BY <2>3 DEF R
<1>8. P[d] = t /\ \A e \in Descriptors \ {d} : P[e] = Q[e]
  BY <1>4, <1>5
<1>9. Sorted(k, a, u)
  BY <1>1, <1>7, SortedFrame
<1>10. \A e \in Descriptors : k[s_next(e)] = m[s_next(e)] /\ k[s_semAdd(e)] = m[s_semAdd(e)]
  BY <1>7, AslLocationFacts DEF Same
<1>11. k[s_next(x)] = d
  BY <1>0, <1>4, <1>10
<1>12. k[tail(d)] = NULL <=> t = <<>>
  <2>1. t # <<>> => Len(t) \in 1 .. Len(t) /\ t[Len(t)] \in Pcb
    BY <1>6
  <2> QED
    BY <1>6, <2>1, BlockAssumption DEF Ring
<1>13. n = [h EXCEPT ![p_semAdd(p)] = NULL] /\ Taken(r, x).ptr = p
  BY <1>6 DEF Taken, Returns, k
<1> HIDE DEF n, h, P
<1>14. PICK b, v : /\ Sorted(h, b, v) /\ IsAslMemory(h) /\ Same(k, h, RingLocs)
                   /\ \A y \in Pcb : h[p_semAdd(y)] = k[p_semAdd(y)]
                   /\ \A e \in Descriptors : h[s_semAdd(e)] = k[s_semAdd(e)]
                   /\ Range(b) \ {d} = Range(a) \ {d}
                   /\ d \in Range(b) <=> t # <<>>
                   /\ \A S : Within(k, h, S)
  <2>1. CASE t # <<>>
    <3>1. h = k
      BY <1>11, <1>12, <2>1 DEF h, UnlinkedIfEmpty, s_procQ
    <3>2. Same(k, h, RingLocs) /\ \A S : Within(k, h, S)
      BY <3>1 DEF Same, Within
    <3> QED
      BY <1>4, <1>7, <1>9, <2>1, <3>1, <3>2
  <2>2. CASE t = <<>>
    <3>1. h = freeSemd([k EXCEPT ![s_next(x)] = k[s_next(d)]], d)
      BY <1>11, <1>12, <2>2 DEF h, UnlinkedIfEmpty, s_procQ
    <3>2. /\ IsAslMemory(h) /\ UnlinkedBehind(k, h, x, d) /\ Same(k, h, RingLocs)
          /\ \A y \in Pcb : h[p_semAdd(y)] = k[p_semAdd(y)]
          /\ \A S : Within(k, h, S)
      BY <1>4, <1>7, <3>1, OldDescriptor
    <3>3. Sorted(h, Omit(a, j), <<d>> \o u)
      BY <1>0, <1>9, <3>2, SortedRemove
    <3>4. Range(Omit(a, j)) = Range(a) \ {d}
      <4>1. Omit(a, j) = Without(a, {d})
        BY <1>0, <1>2, <1>3, WithoutMember
      <4> QED
        BY <1>2, <4>1, WithoutMembers
    <3>5. \A e \in Descriptors : h[s_semAdd(e)] = k[s_semAdd(e)]
      BY <3>2 DEF UnlinkedBehind
    <3>6. Range(Omit(a, j)) \ {d} = Range(a) \ {d} /\ d \notin Range(Omit(a, j))
      BY <3>4
    <3> QED
      BY <2>2, <3>2, <3>3, <3>5, <3>6
  <2> QED
    BY <2>1, <2>2
<1>15. /\ IsAslMemory(n) /\ Same(h, n, ListLocs) /\ Same(h, n, RingLocs)
       /\ n[p_semAdd(p)] = NULL
       /\ \A y \in Pcb \ {p} : n[p_semAdd(y)] = h[p_semAdd(y)]
       /\ \A S : p \in S => Within(h, n, S)
  <2>1. IsAslMemory(h) /\ MarksWith(h, n, p, NULL)
    BY <1>13, <1>14 DEF MarksWith
  <2> QED
    BY <1>5, <2>1, MarkWritten
<1>16. Sorted(n, b, v)
  BY <1>14, <1>15, SortedFrame
<1>17. HoldsQueues(n, P)
  <2>1. HoldsQueues(h, P)
    BY <1>7, <1>14, QueuesFrame
  <2> QED
    BY <1>15, <2>1, QueuesFrame
<1>18. \A e \in Descriptors : n[s_semAdd(e)] = m[s_semAdd(e)]
  <2>1. \A e \in Descriptors : n[s_semAdd(e)] = h[s_semAdd(e)]
    BY <1>15, AslLocationFacts DEF Same
  <2> QED
    BY <1>10, <1>14, <2>1
<1>19. Marked(n, P)
  <2>1. \A y \in Pcb \ {p} : n[p_semAdd(y)] = m[p_semAdd(y)]
    BY <1>7, <1>14, <1>15
  <2> QED
    BY <1>1, <1>4, <1>6, <1>15, <1>18, <2>1, MarkedRemove DEF P
<1>20. WaitedFor(b, P)
  <2>1. ASSUME NEW e \in Descriptors PROVE P[e] # <<>> <=> e \in Range(b) \cap SemdPool
    <3>1. CASE e = d
      BY <1>4, <1>8, <1>14, <3>1
    <3>2. CASE e # d
      BY <1>1, <1>8, <1>14, <3>2 DEF WaitedFor
    <3> QED
      BY <3>1, <3>2
  <2> QED
    BY <2>1 DEF WaitedFor
<1>21. Good(n, b, v, P)
  BY <1>15, <1>16, <1>17, <1>19, <1>20 DEF Good
<1>22. QueuesIn(n) = [QueuesIn(m) EXCEPT ![s] = P[d]] /\ QueuesIn(m)[s] = Q[d]
  <2>1. \A e \in Range(a) : m[s_semAdd(e)] = s => e = d
    BY <1>0, <1>1, <1>4, ActiveAddresses
  <2>2. n[s_semAdd(d)] = s
    BY <1>0, <1>4, <1>18
  <2> QED
    BY <1>4, <1>8, <1>14, <1>18, <1>21, <2>1, <2>2, OneQueueChanges
<1>23. ASSUME NEW S, Range(Q[d]) \subseteq S PROVE Within(m, n, S)
  <2>1. Within(m, k, S) /\ Within(k, h, S) /\ Within(h, n, S)
    BY <1>7, <1>14, <1>15, <1>23
  <2> QED
    BY <2>1, WithinBoth
<1> QED
  BY <1>8, <1>13, <1>21, <1>22, <1>23 DEF n, P

------------------------------------------------------------------------------
(* What the functions of asl.c do. *)

\* The memory n is as it should be, whatever its lists are.
Kept(n) == \E b, v, P : Good(n, b, v, P)

LEMMA KeptIs ==
  ASSUME NEW n, Kept(n)
  PROVE  Good(n, ActiveList(n), FreeSemd(n), QueuesOf(n))
<1>1. PICK b, v, P : Good(n, b, v, P)
  BY DEF Kept
<1>2. /\ ActiveList(n) = b /\ FreeSemd(n) = v
      /\ \A d \in Descriptors : QueueAt(n, s_procQ(d)) = P[d]
  BY <1>1, ListsAre
<1>3. P \in [Descriptors -> Seq(Pcb)]
  BY <1>1 DEF Good, HoldsQueues
<1>4. QueuesOf(n) = P
  <2>1. QueuesOf(n) = [d \in Descriptors |-> P[d]]
    BY <1>2 DEF QueuesOf
  <2> QED
    BY <1>3, <2>1
<1> QED
  BY <1>1, <1>2, <1>4

(* insertBlocked puts the block behind the queue of the semaphore, unless the *)
(* semaphore needs a descriptor and none is free.                             *)
LEMMA InsertIs ==
  ASSUME NEW m, NEW a, NEW u, NEW Q, Good(m, a, u, Q),
         NEW s \in SemAdd, NEW p \in Pcb,
         \A z \in SemAdd : p \notin Range(QueuesIn(m)[z])
  PROVE  LET r == insertBlocked(m, s, p)
             active == {z \in SemAdd : QueuesIn(m)[z] # <<>>}
         IN  /\ Kept(r.mem)
             /\ IF s \in active \/ Cardinality(active) < Cardinality(SemdPool)
                THEN /\ QueuesIn(r.mem) = [QueuesIn(m) EXCEPT ![s] = Append(QueuesIn(m)[s], p)]
                     /\ r.ptr = 0
                ELSE QueuesIn(r.mem) = QueuesIn(m) /\ r.ptr = 1
             /\ \A S : p \in S /\ Waiters(m) \subseteq S => Within(m, r.mem, S)
<1> DEFINE r == insertBlocked(m, s, p)  active == {z \in SemAdd : QueuesIn(m)[z] # <<>>}
<1>1. Sorted(m, a, u)
  BY DEF Good
<1>2. s # NULL /\ s \in SemAdd \cup {NULL}
  BY AddressFacts
<1>3. PICK j \in 2 .. Len(a) : /\ Found(m, a, s, j)
                               /\ search(m, s) = a[j - 1]
                               /\ m[s_next(search(m, s))] = a[j]
  BY <1>1, <1>2, SearchFinds
<1>4. \A e \in Descriptors : p \notin Range(Q[e])
  BY MarksAre
<1>5. Cardinality(active) < Cardinality(SemdPool) <=> u # <<>>
  BY FreeDescriptor
<1>6. CASE m[s_semAdd(a[j])] = s
  <2> DEFINE d == a[j]  n == WithOld(m, s, p, d)
  <2>1. d \in Range(a) \cap SemdPool /\ m[s_semAdd(d)] = s
    BY <1>1, <1>3, <1>6, FoundIs
  <2>2. r = Returns(n, 0)
    BY <1>3, <1>6 DEF insertBlocked, s_procQ, WithOld
  <2> HIDE DEF d
  <2>3. /\ Good(n, a, u, [Q EXCEPT ![d] = Append(Q[d], p)])
        /\ QueuesIn(n) = [QueuesIn(m) EXCEPT ![s] = Append(QueuesIn(m)[s], p)]
        /\ QueuesIn(m)[s] # <<>>
        /\ Within(m, n, Joined(Q[d], p))
    BY <1>4, <2>1, InsertActive
  <2>4. r.mem = n /\ r.ptr = 0 /\ Kept(n)
    BY <2>2, <2>3 DEF Returns, Kept
  <2>5. QueuesIn(m)[s] = Q[d]
    BY <2>1, QueuesAre
  <2>6. \A S : p \in S /\ Waiters(m) \subseteq S => Within(m, n, S)
    <3>1. Range(Q[d]) \subseteq Waiters(m)
      BY <2>5 DEF Waiters
    <3>2. \A S : p \in S /\ Waiters(m) \subseteq S => Joined(Q[d], p) \subseteq S
      BY <3>1 DEF Joined
    <3> QED
      BY <2>3, <3>2, WithinMore
  <2> QED
    BY <2>3, <2>4, <2>6
<1>7. CASE m[s_semAdd(a[j])] # s
  <2>1. QueuesIn(m)[s] = <<>>
    <3>1. \A e \in Range(a) : m[s_semAdd(e)] # s
      BY <1>1, <1>3, <1>7, FoundIs
    <3> QED
      BY <3>1, QueuesAre
  <2>2. CASE u = <<>>
    <3>1. m[SemdFree] = NULL
      BY <1>1, <2>2 DEF Sorted, Linked
    <3>2. allocSemd(m).ptr = NULL
      BY <3>1 DEF allocSemd, Returns
    <3>3. r = Returns(m, 1)
      BY <1>3, <1>7, <3>2 DEF insertBlocked
    <3>4. r.mem = m /\ r.ptr = 1 /\ Kept(m) /\ \A S : Within(m, m, S)
      BY <3>3 DEF Returns, Kept, Within, Same
    <3> QED
      BY <1>5, <2>1, <2>2, <3>4
  <2>3. CASE u # <<>>
    <3> DEFINE d == Head(u)  x == a[j - 1]  n == WithNew(m, s, p, x, d)
    <3>0. NewPlace(m, a, u, s, j, x, d)
      BY <1>3, <1>7, <2>3 DEF NewPlace, Before
    <3> HIDE DEF d, x
    <3>1. /\ Good(n, Inserted(a, j, d), Tail(u), [Q EXCEPT ![d] = Append(Q[d], p)])
          /\ QueuesIn(n) = [QueuesIn(m) EXCEPT ![s] = Append(QueuesIn(m)[s], p)]
          /\ allocSemd(m).ptr = d /\ d # NULL
          /\ \A S : p \in S => Within(m, n, S)
      BY <1>4, <3>0, InsertInactive
    <3>2. r = Returns(n, 0)
      BY <1>3, <1>7, <3>1 DEF insertBlocked, s_procQ, WithNew, x
    <3>3. r.mem = n /\ r.ptr = 0 /\ Kept(n)
      BY <3>1, <3>2 DEF Returns, Kept
    <3> QED
      BY <1>5, <2>3, <3>1, <3>3
  <2> QED
    BY <2>2, <2>3
<1> QED
  BY <1>6, <1>7

(* The descriptor of an active semaphore is between the dummies. *)
LEMMA PlaceIs ==
  ASSUME NEW m, NEW a, NEW u, Sorted(m, a, u), NEW s \in SemAdd,
         NEW j, Found(m, a, s, j), m[s_semAdd(a[j])] = s
  PROVE  Place(m, a, s, j, a[j - 1], a[j])
<1>1. j \in 2 .. Len(a) - 1
  BY FoundIs
<1>2. m[s_next(a[j - 1])] = a[j]
  <2>1. SortedList(m, a)
    BY SortedIs
  <2>2. Len(a) \in Nat /\ \A i \in 1 .. Len(a) - 1 : m[s_next(a[i])] = a[i + 1]
    BY <2>1 DEF SortedList
  <2>3. j - 1 \in 1 .. Len(a) - 1 /\ (j - 1) + 1 = j
    BY <1>1, <2>2
  <2> QED
    BY <2>2, <2>3
<1> QED
  BY <1>1, <1>2 DEF Place, Before

(* What is known of the queues a memory stands for. *)
LEMMA QueueFacts ==
  ASSUME NEW m, NEW a, NEW u, NEW Q, Good(m, a, u, Q), NEW s \in SemAdd
  PROVE  QueuesIn(m)[s] \in Seq(Pcb) /\ IsInjective(QueuesIn(m)[s])
<1>1. QueuesIn(m)[s] \in Seq(Pcb)
  BY QueuesAre
<1>2. CASE QueuesIn(m)[s] = <<>>
  BY <1>1, <1>2, RangeEmpty
<1>3. CASE QueuesIn(m)[s] # <<>>
  <2>1. PICK d \in Range(a) \cap SemdPool : m[s_semAdd(d)] = s /\ QueuesIn(m)[s] = Q[d]
    BY <1>3, QueuesAre
  <2>2. HoldsQueues(m, Q) /\ d \in Descriptors
    BY DescriptorFacts DEF Good
  <2> QED
    BY <1>1, <2>1, <2>2 DEF HoldsQueues
<1> QED
  BY <1>2, <1>3

(* What the search for a semaphore finds: its descriptor if the semaphore is *)
(* active, and one with another address if it is not.                        *)
LEMMA SearchIs ==
  ASSUME NEW m, NEW a, NEW u, NEW Q, Good(m, a, u, Q), NEW s \in SemAdd
  PROVE  \E j \in 2 .. Len(a) :
            /\ Found(m, a, s, j) /\ search(m, s) = a[j - 1]
            /\ m[s_next(search(m, s))] = a[j]
            /\ m[s_semAdd(a[j])] = s <=> QueuesIn(m)[s] # <<>>
            /\ m[s_semAdd(a[j])] = s =>
                  /\ a[j] \in ProcQ /\ Q[a[j]] = QueuesIn(m)[s]
                  /\ Ring(m, tail(a[j]), Q[a[j]])
<1>1. Sorted(m, a, u) /\ HoldsQueues(m, Q) /\ WaitedFor(a, Q)
  BY DEF Good
<1>2. s # NULL /\ s \in SemAdd \cup {NULL}
  BY AddressFacts
<1>3. PICK j \in 2 .. Len(a) : /\ Found(m, a, s, j)
                               /\ search(m, s) = a[j - 1]
                               /\ m[s_next(search(m, s))] = a[j]
  BY <1>1, <1>2, SearchFinds
<1>4. CASE m[s_semAdd(a[j])] = s
  <2> DEFINE d == a[j]
  <2>1. d \in Range(a) \cap SemdPool /\ m[s_semAdd(d)] = s
    BY <1>1, <1>3, <1>4, FoundIs
  <2>2. QueuesIn(m)[s] = Q[d]
    BY <2>1, QueuesAre
  <2>3. d \in Descriptors /\ d \in ProcQ
    BY <2>1, DescriptorFacts
  <2>4. Q[d] # <<>> /\ Ring(m, tail(d), Q[d])
    BY <1>1, <2>1, <2>3 DEF WaitedFor, HoldsQueues
  <2> QED
    BY <1>3, <1>4, <2>2, <2>3, <2>4
<1>5. CASE m[s_semAdd(a[j])] # s
  <2>1. \A e \in Range(a) : m[s_semAdd(e)] # s
    BY <1>1, <1>3, <1>5, FoundIs
  <2>2. QueuesIn(m)[s] = <<>>
    BY <2>1, QueuesAre
  <2> QED
    BY <1>3, <1>5, <2>2
<1> QED
  BY <1>4, <1>5

(* headBlocked *)
LEMMA HeadIs ==
  ASSUME NEW m, NEW a, NEW u, NEW Q, Good(m, a, u, Q), NEW s \in SemAdd
  PROVE  headBlocked(m, s) = IF QueuesIn(m)[s] = <<>> THEN NULL ELSE Head(QueuesIn(m)[s])
<1>1. PICK j \in 2 .. Len(a) :
            /\ Found(m, a, s, j) /\ search(m, s) = a[j - 1]
            /\ m[s_next(search(m, s))] = a[j]
            /\ m[s_semAdd(a[j])] = s <=> QueuesIn(m)[s] # <<>>
            /\ m[s_semAdd(a[j])] = s =>
                  /\ a[j] \in ProcQ /\ Q[a[j]] = QueuesIn(m)[s]
                  /\ Ring(m, tail(a[j]), Q[a[j]])
  BY SearchIs
<1> DEFINE d == a[j]
<1>2. headBlocked(m, s) = IF m[s_semAdd(d)] = s THEN headProcQ(m, tail(d)) ELSE NULL
  BY <1>1 DEF headBlocked, s_procQ
<1>3. CASE m[s_semAdd(d)] = s
  <2>1. Q[d] \in Seq(Pcb) /\ Ring(m, tail(d), Q[d]) /\ Q[d] = QueuesIn(m)[s]
    BY <1>1, <1>3, QueueFacts
  <2> HIDE DEF d
  <2>2. headProcQ(m, tail(d)) = IF Q[d] = <<>> THEN NULL ELSE Head(Q[d])
    BY <2>1, HeadRing
  <2> QED
    BY <1>2, <1>3, <2>1, <2>2
<1>4. CASE m[s_semAdd(d)] # s
  BY <1>1, <1>2, <1>4
<1> QED
  BY <1>3, <1>4

(* removeBlocked takes the head of the queue. *)
LEMMA RemoveIs ==
  ASSUME NEW m, NEW a, NEW u, NEW Q, Good(m, a, u, Q), NEW s \in SemAdd
  PROVE  LET r == removeBlocked(m, s)  q == QueuesIn(m)[s] IN
         /\ Kept(r.mem)
         /\ q = <<>> => r.ptr = NULL /\ QueuesIn(r.mem) = QueuesIn(m)
         /\ q # <<>> => /\ r.ptr = Head(q) /\ r.ptr \in Pcb
                        /\ QueuesIn(r.mem) = [QueuesIn(m) EXCEPT ![s] = Tail(q)]
         /\ \A S : Waiters(m) \subseteq S => Within(m, r.mem, S)
<1> DEFINE r == removeBlocked(m, s)  q == QueuesIn(m)[s]
<1>1. PICK j \in 2 .. Len(a) :
            /\ Found(m, a, s, j) /\ search(m, s) = a[j - 1]
            /\ m[s_next(search(m, s))] = a[j]
            /\ m[s_semAdd(a[j])] = s <=> QueuesIn(m)[s] # <<>>
            /\ m[s_semAdd(a[j])] = s =>
                  /\ a[j] \in ProcQ /\ Q[a[j]] = QueuesIn(m)[s]
                  /\ Ring(m, tail(a[j]), Q[a[j]])
  BY SearchIs
<1> DEFINE d == a[j]  x == a[j - 1]  k == removeProcQ(m, tail(d))
<1>2. r = IF m[s_semAdd(d)] = s THEN Taken(k, x) ELSE Returns(m, NULL)
  BY <1>1 DEF removeBlocked, s_procQ
<1>3. CASE m[s_semAdd(d)] = s
  <2>1. /\ q \in Seq(Pcb) /\ IsInjective(q) /\ q # <<>> /\ Ring(m, tail(d), q)
        /\ q = Q[d] /\ d \in ProcQ
    BY <1>1, <1>3, QueueFacts
  <2>2. IsMemory(m)
    BY AslMemoryIs DEF Good
  <2>3. /\ Tail(q) \in Seq(Pcb) /\ IsInjective(Tail(q)) /\ Head(q) \in Range(q)
        /\ Range(Tail(q)) = Range(q) \ {Head(q)} /\ Head(q) \in Pcb
    BY <2>1, RangeTail
  <2> HIDE DEF d, x, q
  <2>4. /\ k.ptr = Head(q) /\ Ring(k.mem, tail(d), Tail(q))
        /\ Changes(m, k.mem, QueueLocs(tail(d), Range(q)))
    BY <2>1, <2>2, RemoveRing
  <2> HIDE DEF k
  <2>5. TakenFrom(m, k, d, q, Head(q), Tail(q))
    BY <2>3, <2>4 DEF TakenFrom
  <2> DEFINE p == Head(q)  t == Tail(q)
  <2>6. p \in Range(Q[d]) /\ TakenFrom(m, k, d, Q[d], p, t)
    BY <2>1, <2>3, <2>5
  <2>7. Place(m, a, s, j, x, d)
    <3>1. Sorted(m, a, u)
      BY DEF Good
    <3> QED
      BY <1>1, <1>3, <3>1, PlaceIs DEF d, x
  <2> HIDE DEF p, t
  <2>8. /\ \E b, v : Good(Taken(k, x).mem, b, v, [Q EXCEPT ![d] = t])
        /\ Taken(k, x).ptr = p
        /\ QueuesIn(Taken(k, x).mem) = [QueuesIn(m) EXCEPT ![s] = t]
    BY <2>6, <2>7, TakenIs
  <2>12. \A S : Range(Q[d]) \subseteq S => Within(m, Taken(k, x).mem, S)
    BY <2>6, <2>7, TakenIs
  <2> HIDE DEF r
  <2>9. r = Taken(k, x)
    BY <1>2, <1>3
  <2>10. /\ Kept(r.mem) /\ r.ptr = Head(q) /\ r.ptr \in Pcb
         /\ QueuesIn(r.mem) = [QueuesIn(m) EXCEPT ![s] = Tail(q)]
    BY <2>3, <2>8, <2>9 DEF Kept, p, t
  <2>11. \A S : Waiters(m) \subseteq S => Within(m, r.mem, S)
    <3>1. Range(Q[d]) \subseteq Waiters(m)
      BY <2>1 DEF Waiters, q
    <3> QED
      BY <2>9, <2>12, <3>1
  <2> QED
    BY <2>1, <2>10, <2>11 DEF r, q
<1>4. CASE m[s_semAdd(d)] # s
  <2>1. q = <<>> /\ r = Returns(m, NULL)
    BY <1>1, <1>2, <1>4
  <2>2. r.mem = m /\ r.ptr = NULL /\ Kept(m) /\ \A S : Within(m, m, S)
    BY <2>1 DEF Returns, Kept, Within, Same
  <2> QED
    BY <2>1, <2>2
<1> QED
  BY <1>3, <1>4

\* The block p waits on s in m, and is not the first.
WaitsBehind(m, s, p) ==
    /\ p \in Range(QueuesIn(m)[s])
    /\ QueuesIn(m)[s] # <<>> => Head(QueuesIn(m)[s]) # p

(* outBlocked takes a block out of the queue it waits in behind the head. *)
LEMMA OutTakes ==
  ASSUME NEW m, NEW a, NEW u, NEW Q, Good(m, a, u, Q), NEW p \in Pcb,
         NEW s \in SemAdd, WaitsBehind(m, s, p)
  PROVE  LET r == outBlocked(m, p)  q == QueuesIn(m)[s] IN
         /\ Kept(r.mem) /\ r.ptr = p
         /\ QueuesIn(r.mem) = [QueuesIn(m) EXCEPT ![s] = Without(q, {p})]
         /\ \A S : Waiters(m) \subseteq S => Within(m, r.mem, S)
<1> DEFINE r == outBlocked(m, p)  q == QueuesIn(m)[s]
<1>1. PICK j \in 2 .. Len(a) :
            /\ Found(m, a, s, j) /\ search(m, s) = a[j - 1]
            /\ m[s_next(search(m, s))] = a[j]
            /\ m[s_semAdd(a[j])] = s <=> QueuesIn(m)[s] # <<>>
            /\ m[s_semAdd(a[j])] = s =>
                  /\ a[j] \in ProcQ /\ Q[a[j]] = QueuesIn(m)[s]
                  /\ Ring(m, tail(a[j]), Q[a[j]])
  BY SearchIs
<1> DEFINE d == a[j]  x == a[j - 1]  k == outProcQ(m, tail(d), p)  t == Without(q, {p})
<1>2. m[p_semAdd(p)] = s
  BY MarksAre DEF WaitsBehind
<1>3. q \in Seq(Pcb) /\ IsInjective(q) /\ p \in Range(q) /\ Head(q) # p /\ q # <<>>
  <2>1. q \in Seq(Pcb) /\ IsInjective(q) /\ p \in Range(q)
    BY QueueFacts DEF WaitsBehind
  <2>2. q # <<>>
    BY <2>1, RangeEmpty
  <2> QED
    BY <2>1, <2>2 DEF WaitsBehind
<1>4. m[s_semAdd(d)] = s /\ q = Q[d] /\ d \in ProcQ /\ Ring(m, tail(d), q)
  BY <1>1, <1>3
<1>5. r = Taken(k, x)
  BY <1>1, <1>2, <1>4 DEF outBlocked, s_procQ
<1>6. IsMemory(m)
  BY AslMemoryIs DEF Good
<1>7. Place(m, a, s, j, x, d)
  <2>1. Sorted(m, a, u)
    BY DEF Good
  <2> QED
    BY <1>1, <1>4, <2>1, PlaceIs
<1> HIDE DEF d, x, q
<1>8. t \in Seq(Pcb) /\ IsInjective(t) /\ Range(t) = Range(q) \ {p}
  BY <1>3, WithoutMembers
<1>9. /\ k.ptr = p /\ Ring(k.mem, tail(d), t)
      /\ Changes(m, k.mem, QueueLocs(tail(d), Range(q)))
  BY <1>3, <1>4, <1>6, OutRing
<1> HIDE DEF k, t
<1>10. p \in Range(Q[d]) /\ TakenFrom(m, k, d, Q[d], p, t)
  BY <1>3, <1>4, <1>8, <1>9 DEF TakenFrom
<1>11. /\ \E b, v : Good(Taken(k, x).mem, b, v, [Q EXCEPT ![d] = t])
       /\ Taken(k, x).ptr = p
       /\ QueuesIn(Taken(k, x).mem) = [QueuesIn(m) EXCEPT ![s] = t]
  BY <1>7, <1>10, TakenIs
<1>13. \A S : Range(Q[d]) \subseteq S => Within(m, Taken(k, x).mem, S)
  BY <1>7, <1>10, TakenIs
<1>12. \A S : Waiters(m) \subseteq S => Within(m, Taken(k, x).mem, S)
  <2>1. Range(Q[d]) \subseteq Waiters(m)
    BY <1>4 DEF Waiters, q
  <2> QED
    BY <1>13, <2>1
<1> HIDE DEF r
<1> QED
  BY <1>5, <1>11, <1>12 DEF Kept, r, t, q

(* A block that waits nowhere has no mark, and is not found. *)
LEMMA OutNothing ==
  ASSUME NEW m, NEW a, NEW u, NEW Q, Good(m, a, u, Q), NEW p \in Pcb,
         \A s \in SemAdd : p \notin Range(QueuesIn(m)[s])
  PROVE  outBlocked(m, p) = Returns(m, NULL)
<1>1. Sorted(m, a, u) /\ Marked(m, Q)
  BY DEF Good
<1>2. m[p_semAdd(p)] = NULL
  <2>1. \A d \in Descriptors : p \notin Range(Q[d])
    BY MarksAre
  <2> QED
    BY <1>1, <2>1 DEF Marked
<1>3. PICK j \in 2 .. Len(a) : m[s_next(search(m, NULL))] = a[j]
  BY <1>1, SearchFinds
<1>4. m[s_semAdd(a[j])] \in 0 .. MAXINT
  <2>1. SortedList(m, a)
    BY <1>1, SortedIs
  <2> QED
    BY <2>1 DEF SortedList
<1>5. m[s_semAdd(a[j])] # NULL
  BY <1>4, AddressAssumption
<1> QED
  BY <1>2, <1>3, <1>5 DEF outBlocked

(* outBlocked takes a block out of the queue it waits in, if it waits. *)
LEMMA OutIs ==
  ASSUME NEW m, NEW a, NEW u, NEW Q, Good(m, a, u, Q), NEW p \in Pcb,
         \A s \in SemAdd : QueuesIn(m)[s] # <<>> => Head(QueuesIn(m)[s]) # p
  PROVE  LET r == outBlocked(m, p) IN
         /\ Kept(r.mem)
         /\ r.ptr = IF p \in UNION {Range(QueuesIn(m)[s]) : s \in SemAdd} THEN p ELSE NULL
         /\ QueuesIn(r.mem) = [s \in SemAdd |-> Without(QueuesIn(m)[s], {p})]
<1> DEFINE r == outBlocked(m, p)  w == QueuesIn(m)
<1>1. w \in [SemAdd -> Seq(Pcb)]
  BY QueuesAre
<1>2. ASSUME NEW s \in SemAdd, p \notin Range(w[s]) PROVE Without(w[s], {p}) = w[s]
  <2>1. w[s] \in Seq(Pcb) /\ IsInjective(w[s]) /\ Range(w[s]) \cap {p} = {}
    BY <1>2, QueueFacts
  <2> HIDE DEF w
  <2> QED
    BY <2>1, WithoutNone
<1>3. CASE \A s \in SemAdd : p \notin Range(w[s])
  <2>1. r = Returns(m, NULL)
    BY <1>3, OutNothing
  <2>2. r.mem = m /\ r.ptr = NULL /\ Kept(m)
    BY <2>1 DEF Returns, Kept
  <2>3. p \notin UNION {Range(w[s]) : s \in SemAdd}
    BY <1>3
  <2>4. w = [s \in SemAdd |-> Without(w[s], {p})]
    <3> HIDE DEF w
    <3> QED
      BY <1>1, <1>2, <1>3
  <2> QED
    BY <2>2, <2>3, <2>4
<1>4. ASSUME NEW z \in SemAdd, p \in Range(w[z])
      PROVE  /\ Kept(r.mem) /\ r.ptr = p
             /\ QueuesIn(r.mem) = [s \in SemAdd |-> Without(w[s], {p})]
             /\ p \in UNION {Range(w[s]) : s \in SemAdd}
  <2>1. WaitsBehind(m, z, p)
    BY <1>4 DEF WaitsBehind
  <2>2. /\ Kept(r.mem) /\ r.ptr = p
        /\ QueuesIn(r.mem) = [w EXCEPT ![z] = Without(w[z], {p})]
    BY <2>1, OutTakes
  <2>3. ASSUME NEW s \in SemAdd \ {z} PROVE Without(w[s], {p}) = w[s]
    <3>1. m[p_semAdd(p)] = z
      BY <1>4, MarksAre
    <3>2. p \notin Range(w[s])
      BY <3>1, MarksAre
    <3> QED
      BY <1>2, <3>2
  <2>4. [w EXCEPT ![z] = Without(w[z], {p})] = [s \in SemAdd |-> Without(w[s], {p})]
    <3> HIDE DEF w
    <3> QED
      BY <1>1, <2>3
  <2>5. p \in UNION {Range(w[s]) : s \in SemAdd}
    BY <1>4
  <2> QED
    BY <2>2, <2>4, <2>5
<1> QED
  BY <1>3, <1>4

------------------------------------------------------------------------------
(* The initial memory. *)

(* What initASL() writes. *)
LEMMA InitASLWrites ==
  ASSUME NEW order \in Orders(SemdPool)
  PROVE  LET m == InitASL([l \in AslLocations |-> NULL], order) IN
         /\ order \in Seq(SemdPool) /\ IsInjective(order) /\ Range(order) = SemdPool
         /\ m = [l \in AslLocations |-> m[l]]
         /\ Linked(m, "s_next", SemdFree, order)
         /\ m[SemdActive] = FirstDummy
         /\ m[s_next(FirstDummy)] = LastDummy /\ m[s_next(LastDummy)] = NULL
         /\ m[s_semAdd(FirstDummy)] = 0 /\ m[s_semAdd(LastDummy)] = MAXINT
         /\ \A d \in SemdPool : m[s_semAdd(d)] = NULL
         /\ \A l \in Locations : m[l] = NULL
<1> DEFINE z == [l \in AslLocations |-> NULL]  n == Stacked(z, SemdFree, "s_next", order)
           m == InitASL(z, order)
<1>1. /\ order \in Seq(SemdPool) /\ IsInjective(order) /\ Range(order) = SemdPool
      /\ Len(order) = Cardinality(SemdPool)
  BY DescriptorAssumption, OrderFacts
<1>2. order # <<>>
  <2>1. SemdPool # {}
    BY DescriptorAssumption
  <2> QED
    BY <1>1, <2>1, RangeEmpty
<1>3. /\ SemdPool \subseteq Descriptors /\ FirstDummy \in Descriptors /\ LastDummy \in Descriptors
      /\ FirstDummy \notin SemdPool /\ LastDummy \notin SemdPool /\ FirstDummy # LastDummy
  BY DescriptorFacts
<1>4. /\ \A e, f : s_next(e) = s_next(f) => e = f
      /\ \A e, f : s_semAdd(e) = s_semAdd(f) => e = f
      /\ \A e, f : s_next(e) # s_semAdd(f)
      /\ \A e : {s_next(e), s_semAdd(e)} \cap {SemdFree, SemdActive} = {}
      /\ SemdFree # SemdActive
  BY DEF s_next, s_semAdd, SemdFree, SemdActive
<1>5. /\ \A d \in Descriptors : {s_next(d), s_semAdd(d)} \subseteq AslLocations
      /\ {SemdFree, SemdActive} \subseteq AslLocations
      /\ Locations \subseteq AslLocations
  BY AslLocationFacts
<1>6. /\ \A x : <<"s_next", x>> = s_next(x)
      /\ {"s_next"} \X SemdPool = {s_next(x) : x \in SemdPool}
  BY DEF s_next
<1>7. DOMAIN z = AslLocations /\ \A l \in AslLocations : z[l] = NULL
  OBVIOUS
<1> HIDE DEF z
<1>8. Blank(z, SemdFree, "s_next", SemdPool)
  BY <1>3, <1>4, <1>5, <1>6, <1>7 DEF Blank
<1>9. /\ Linked(n, "s_next", SemdFree, order)
      /\ n = [l \in DOMAIN z |-> n[l]]
      /\ \A l \in DOMAIN z \ ({SemdFree} \cup ({"s_next"} \X SemdPool)) : n[l] = z[l]
  BY <1>1, <1>2, <1>8, StackedLinked
<1>10. m = [n EXCEPT ![SemdActive] = FirstDummy, ![s_next(FirstDummy)] = LastDummy,
                     ![s_semAdd(FirstDummy)] = 0, ![s_semAdd(LastDummy)] = MAXINT]
  BY DEF InitASL
<1> HIDE DEF n
<1>11. DOMAIN n = AslLocations
  BY <1>7, <1>9
<1>12. m = [l \in AslLocations |-> m[l]]
  BY <1>10, <1>11
<1> HIDE DEF m
<1>13. /\ m[SemdActive] = FirstDummy /\ m[s_next(FirstDummy)] = LastDummy
       /\ m[s_semAdd(FirstDummy)] = 0 /\ m[s_semAdd(LastDummy)] = MAXINT
       /\ \A l \in AslLocations \ {SemdActive, s_next(FirstDummy), s_semAdd(FirstDummy),
                                   s_semAdd(LastDummy)} : m[l] = n[l]
  BY <1>3, <1>4, <1>5, <1>10, <1>11
<1>14. Linked(m, "s_next", SemdFree, order)
  <2>1. m[SemdFree] = n[SemdFree]
    BY <1>4, <1>5, <1>13
  <2>2. \A x \in SemdPool : m[s_next(x)] = n[s_next(x)]
    BY <1>3, <1>4, <1>5, <1>13
  <2>3. \A i \in 1 .. Len(order) : m[<<"s_next", order[i]>>] = n[<<"s_next", order[i]>>]
    BY <1>1, <1>6, <2>2
  <2> QED
    BY <1>9, <2>1, <2>3 DEF Linked
<1>15. m[s_next(LastDummy)] = NULL
  <2>1. s_next(LastDummy) \in AslLocations /\ s_next(LastDummy) # SemdFree
    BY <1>3, <1>4, <1>5
  <2>2. s_next(LastDummy) \notin {s_next(x) : x \in SemdPool}
    BY <1>3, <1>4
  <2>3. n[s_next(LastDummy)] = NULL
    BY <1>6, <1>7, <1>9, <2>1, <2>2
  <2>4. s_next(LastDummy) \notin {SemdActive, s_next(FirstDummy), s_semAdd(FirstDummy),
                                  s_semAdd(LastDummy)}
    BY <1>3, <1>4
  <2> QED
    BY <1>13, <2>1, <2>3, <2>4
<1>16. ASSUME NEW d \in SemdPool PROVE m[s_semAdd(d)] = NULL
  <2>1. s_semAdd(d) \in AslLocations /\ s_semAdd(d) # SemdFree
    BY <1>3, <1>4, <1>5
  <2>2. s_semAdd(d) \notin {s_next(x) : x \in SemdPool}
    BY <1>4
  <2>3. n[s_semAdd(d)] = NULL
    BY <1>6, <1>7, <1>9, <2>1, <2>2
  <2>4. s_semAdd(d) \notin {SemdActive, s_next(FirstDummy), s_semAdd(FirstDummy),
                            s_semAdd(LastDummy)}
    BY <1>3, <1>4
  <2> QED
    BY <1>13, <2>1, <2>3, <2>4
<1>17. \A l \in Locations : m[l] = NULL
  <2>1. Locations \cap ListLocs = {}
    BY DEF Locations, Fields, ListLocs, SemdFree, SemdActive, FreeHead, tail
  <2>2. /\ {SemdFree, SemdActive} \subseteq ListLocs
        /\ \A d \in Descriptors : {s_next(d), s_semAdd(d)} \subseteq ListLocs
    BY AslLocationFacts
  <2> QED
    BY <1>3, <1>5, <1>6, <1>7, <1>9, <1>13, <2>1, <2>2
<1> QED
  BY <1>1, <1>12, <1>13, <1>14, <1>15, <1>16, <1>17 DEF m, z

(* The list holds the dummies, and nobody waits. *)
LEMMA InitGood ==
  ASSUME NEW order \in Orders(SemdPool)
  PROVE  LET m == InitASL([l \in AslLocations |-> NULL], order) IN
         Kept(m) /\ QueuesIn(m) = [s \in SemAdd |-> <<>>]
<1> DEFINE m == InitASL([l \in AslLocations |-> NULL], order)
           a == <<FirstDummy, LastDummy>>  Q == [d \in Descriptors |-> <<>>]
<1>1. /\ order \in Seq(SemdPool) /\ IsInjective(order) /\ Range(order) = SemdPool
      /\ m = [l \in AslLocations |-> m[l]]
      /\ Linked(m, "s_next", SemdFree, order)
      /\ m[SemdActive] = FirstDummy
      /\ m[s_next(FirstDummy)] = LastDummy /\ m[s_next(LastDummy)] = NULL
      /\ m[s_semAdd(FirstDummy)] = 0 /\ m[s_semAdd(LastDummy)] = MAXINT
      /\ \A d \in SemdPool : m[s_semAdd(d)] = NULL
      /\ \A l \in Locations : m[l] = NULL
  BY InitASLWrites
<1> HIDE DEF m
<1>2. /\ SemdPool \subseteq Descriptors /\ FirstDummy \in Descriptors /\ LastDummy \in Descriptors
      /\ FirstDummy \notin SemdPool /\ LastDummy \notin SemdPool /\ FirstDummy # LastDummy
      /\ Descriptors = SemdPool \cup {FirstDummy, LastDummy}
  BY DescriptorFacts DEF Descriptors
<1>3. /\ a \in Seq(Descriptors) /\ Len(a) = 2 /\ a[1] = FirstDummy /\ a[2] = LastDummy
  BY <1>2
<1> HIDE DEF a
<1>4. /\ Range(a) = {FirstDummy, LastDummy} /\ IsInjective(a)
  <2>1. Range(a) = {a[i] : i \in 1 .. 2}
    BY <1>3, RangeOf
  <2>2. \A i \in 1 .. 2 : i = 1 \/ i = 2
    OBVIOUS
  <2>3. DOMAIN a = 1 .. 2
    BY <1>3
  <2>4. IsInjective(a)
    BY <1>2, <1>3, <2>2, <2>3 DEF IsInjective
  <2>5. 1 \in 1 .. 2 /\ 2 \in 1 .. 2
    OBVIOUS
  <2> QED
    BY <1>3, <2>1, <2>2, <2>4, <2>5
<1>5. Linked(m, "s_next", SemdActive, a)
  <2>1. a # <<>>
    BY <1>3
  <2>2. \A i \in 1 .. 2 : m[<<"s_next", a[i]>>] = IF i = 2 THEN NULL ELSE a[i + 1]
    <3>1. \A i \in 1 .. 2 : i = 1 \/ i = 2
      OBVIOUS
    <3>2. m[<<"s_next", a[1]>>] = a[2] /\ m[<<"s_next", a[2]>>] = NULL
      BY <1>1, <1>3 DEF s_next
    <3>3. 1 + 1 = 2 /\ 1 # 2
      OBVIOUS
    <3> QED
      BY <3>1, <3>2, <3>3
  <2> QED
    BY <1>1, <1>3, <2>1, <2>2 DEF Linked
<1>6. Sorted(m, a, order)
  <2>1. order \in Seq(Descriptors)
    BY <1>1, <1>2
  <2>2. 0 < MAXINT
    BY AddressAssumption
  <2>3. \A i, j \in 1 .. 2 : i < j => i = 1 /\ j = 2
    OBVIOUS
  <2>4. \A i, j \in 1 .. Len(a) : i < j => m[s_semAdd(a[i])] < m[s_semAdd(a[j])]
    BY <1>1, <1>3, <2>2, <2>3
  <2>5. /\ Range(a) \cap Range(order) = {} /\ Range(a) \cup Range(order) = Descriptors
        /\ \A d \in SemdPool : d \in Range(order) /\ m[s_semAdd(d)] = NULL
    BY <1>1, <1>2, <1>4
  <2>6. Len(a) >= 2 /\ a[1] = FirstDummy /\ a[Len(a)] = LastDummy
    BY <1>3
  <2>7. m[s_semAdd(FirstDummy)] = 0 /\ m[s_semAdd(LastDummy)] = MAXINT
    BY <1>1
  <2>8. a \in Seq(Descriptors) /\ IsInjective(a) /\ IsInjective(order)
    BY <1>1, <1>3, <1>4
  <2>9. Linked(m, "s_next", SemdFree, order)
    BY <1>1
  <2> QED
    BY <1>5, <2>1, <2>4, <2>5, <2>6, <2>7, <2>8, <2>9 DEF Sorted
<1>7. HoldsQueues(m, Q)
  <2>1. \A d \in Descriptors : tail(d) \in Locations
    BY DescriptorFacts, LocationFacts
  <2>2. \A d \in Descriptors : Q[d] = <<>>
    OBVIOUS
  <2>3. Q \in [Descriptors -> Seq(Pcb)]
    OBVIOUS
  <2> HIDE DEF Q
  <2>4. ASSUME NEW d \in Descriptors PROVE Ring(m, tail(d), Q[d])
    <3>1. Q[d] = <<>> /\ Len(<<>>) = 0 /\ m[tail(d)] = NULL
      BY <1>1, <2>1, <2>2
    <3>2. Ring(m, tail(d), <<>>)
      BY <3>1 DEF Ring
    <3> QED
      BY <3>1, <3>2
  <2> QED
    BY <2>2, <2>3, <2>4, EmptyQueue DEF HoldsQueues
<1>8. Marked(m, Q)
  <2>1. \A d \in Descriptors : Range(Q[d]) = {}
    BY EmptyQueue
  <2>2. \A p \in Pcb : p_semAdd(p) \in Locations
    BY DEF p_semAdd, Locations, Fields
  <2> HIDE DEF Q
  <2> QED
    BY <1>1, <2>1, <2>2 DEF Marked
<1>9. WaitedFor(a, Q)
  BY <1>2, <1>4 DEF WaitedFor
<1>10. IsAslMemory(m)
  BY <1>1 DEF IsAslMemory
<1>11. Good(m, a, order, Q)
  BY <1>6, <1>7, <1>8, <1>9, <1>10 DEF Good
<1>12. QueuesIn(m) = [s \in SemAdd |-> <<>>]
  <2>1. \A s \in SemAdd : QueuesIn(m)[s] = <<>>
    <3>1. \A s \in SemAdd : s # 0 /\ s # MAXINT
      BY AddressFacts
    <3>2. \A s \in SemAdd : \A d \in Range(a) : m[s_semAdd(d)] # s
      BY <1>1, <1>4, <3>1
    <3> QED
      BY <1>11, <3>2, QueuesAre
  <2>2. QueuesIn(m) \in [SemAdd -> Seq(Pcb)]
    BY <1>11, QueuesAre
  <2> QED
    BY <2>1, <2>2
<1> QED
  BY <1>11, <1>12 DEF Kept, m
===============================================================================
