------------------------------ MODULE PcbLemmas ------------------------------
(***************************************************************************)
(* What the functions of src/phase1/pcb.c do to the lists their links      *)
(* stand for, one function after the other, for every memory that holds    *)
(* these lists.                                                            *)
(***************************************************************************)
EXTENDS PcbMemory, QueueLemmas

N == Cardinality(Pcb)

(* Counting up: what holds at 0 and is passed on holds up to n. *)
LEMMA CountUp ==
  ASSUME NEW n \in Nat, NEW G, 0 \in G, \A i \in 1 .. n : i - 1 \in G => i \in G
  PROVE  \A i \in 0 .. n : i \in G
<1> DEFINE B == {i \in 0 .. n : i \notin G}
<1> SUFFICES ASSUME B # {} PROVE FALSE
  OBVIOUS
<1>1. B \in SUBSET Nat
  OBVIOUS
<1>2. PICK i \in B : \A j \in B : i <= j
  BY <1>1, LeastNat
<1>3. i \in 1 .. n
  BY <1>2
<1>4. i - 1 \in G
  BY <1>2, <1>3
<1> QED
  BY <1>2, <1>3, <1>4

LEMMA BlocksCount == N \in Nat
BY BlockAssumption, FS_CardinalityType DEF N

------------------------------------------------------------------------------
(* Following links. *)

(* f follows the links of one field from p on, up to k times. *)
FollowsTo(f, k, m, field, p) ==
    f = [i \in 0 .. k |-> IF i = 0 THEN p
                          ELSE IF f[i - 1] = NULL THEN NULL ELSE m[<<field, f[i - 1]>>]]

LEMMA FollowsExists ==
  ASSUME NEW m, NEW field, NEW p, NEW n \in Nat
  PROVE  \E f : FollowsTo(f, n, m, field, p)
<1> DEFINE G == {k \in Nat : \E f : FollowsTo(f, k, m, field, p)}
<1>1. 0 \in G
  <2> DEFINE f == [i \in 0 .. 0 |-> p]
  <2>1. FollowsTo(f, 0, m, field, p)
    BY DEF FollowsTo
  <2> QED
    BY <2>1
<1>2. ASSUME NEW k \in 1 .. n, k - 1 \in G PROVE k \in G
  <2>1. PICK f : FollowsTo(f, k - 1, m, field, p)
    BY <1>2
  <2> DEFINE last == f[k - 1]
             g == [i \in 0 .. k |-> IF i < k THEN f[i]
                                    ELSE IF last = NULL THEN NULL ELSE m[<<field, last>>]]
             h == [i \in 0 .. k |-> IF i = 0 THEN p
                          ELSE IF g[i - 1] = NULL THEN NULL ELSE m[<<field, g[i - 1]>>]]
  <2>2. \A i \in 0 .. k - 1 : f[i] = IF i = 0 THEN p
                          ELSE IF f[i - 1] = NULL THEN NULL ELSE m[<<field, f[i - 1]>>]
    BY <2>1, Zenon DEF FollowsTo
  <2>3. \A i \in 0 .. k - 1 : g[i] = f[i]
    OBVIOUS
  <2>4. g[k] = IF last = NULL THEN NULL ELSE m[<<field, last>>]
    OBVIOUS
  <2>5. ASSUME NEW i \in 0 .. k PROVE g[i] = h[i]
    <3> HIDE DEF g
    <3>1. CASE i = 0
      <4>1. 0 \in 0 .. k - 1
        OBVIOUS
      <4>2. f[0] = p
        BY <2>2, <4>1, Zenon
      <4> QED
        BY <2>3, <3>1, <4>1, <4>2
    <3>2. CASE i \in 1 .. k - 1
      <4>1. i - 1 \in 0 .. k - 1 /\ i \in 0 .. k - 1 /\ i # 0
        BY <3>2
      <4> QED
        BY <2>2, <2>3, <4>1
    <3>3. CASE i = k
      <4>1. k - 1 \in 0 .. k - 1 /\ k # 0
        OBVIOUS
      <4>2. g[k - 1] = last
        BY <2>3, <4>1
      <4> QED
        BY <2>4, <3>3, <4>1, <4>2
    <3> QED
      BY <3>1, <3>2, <3>3
  <2>6. g = h
    BY <2>5
  <2> HIDE DEF g
  <2>7. FollowsTo(g, k, m, field, p)
    BY <2>6 DEF FollowsTo
  <2> QED
    BY <2>7
<1> HIDE DEF G
<1>3. \A i \in 0 .. n : i \in G
  BY <1>1, <1>2, CountUp
<1>4. n \in G
  BY <1>3
<1> QED
  BY <1>4 DEF G

(* What Chase meets. *)
LEMMA ChaseRec ==
  ASSUME NEW m, NEW field, NEW p
  PROVE  /\ DOMAIN Chase(m, field, p) = 0 .. N + 2
         /\ Chase(m, field, p)[0] = p
         /\ \A i \in 1 .. N + 2 : Chase(m, field, p)[i] =
               IF Chase(m, field, p)[i - 1] = NULL THEN NULL
               ELSE m[<<field, Chase(m, field, p)[i - 1]>>]
<1> DEFINE met == Chase(m, field, p)
<1>1. met = CHOOSE f : FollowsTo(f, N + 2, m, field, p)
  BY DEF Chase, FollowsTo, N
<1>2. FollowsTo(met, N + 2, m, field, p)
  <2>1. N + 2 \in Nat
    BY BlocksCount
  <2> QED
    BY <1>1, <2>1, FollowsExists
<1> HIDE DEF met
<1>3. /\ DOMAIN met = 0 .. N + 2
      /\ \A i \in 0 .. N + 2 : met[i] =
            IF i = 0 THEN p
            ELSE IF met[i - 1] = NULL THEN NULL ELSE m[<<field, met[i - 1]>>]
  BY <1>2, Zenon DEF FollowsTo
<1>4. met[0] = p
  <2>1. 0 \in 0 .. N + 2
    BY BlocksCount
  <2> QED
    BY <1>3, <2>1, Zenon
<1>5. \A i \in 1 .. N + 2 : met[i] =
         IF met[i - 1] = NULL THEN NULL ELSE m[<<field, met[i - 1]>>]
  BY <1>3, BlocksCount
<1> QED
  BY <1>3, <1>4, <1>5 DEF met

\* The links of one field lead from each member of s to the next one.
Along(m, field, s) == \A i \in 1 .. Len(s) - 1 : m[<<field, s[i]>>] = s[i + 1]

(* Chase meets the members of a list, in order. *)
LEMMA ChaseMeets ==
  ASSUME NEW m, NEW field, NEW S, NULL \notin S, NEW s \in Seq(S),
         s # <<>>, Len(s) <= N + 2, Along(m, field, s)
  PROVE  \A i \in 0 .. Len(s) - 1 : Chase(m, field, s[1])[i] = s[i + 1]
<1> DEFINE met == Chase(m, field, s[1])  n == Len(s) - 1
           G == {i \in 0 .. n : met[i] = s[i + 1]}
<1>1. n \in Nat /\ n <= N + 2 /\ N \in Nat
  BY BlocksCount
<1>2. met[0] = s[1] /\ \A i \in 1 .. N + 2 :
         met[i] = IF met[i - 1] = NULL THEN NULL ELSE m[<<field, met[i - 1]>>]
  BY ChaseRec
<1>a. \A i \in 1 .. n : m[<<field, s[i]>>] = s[i + 1] /\ s[i] \in S
  BY DEF Along
<1> HIDE DEF met, n
<1>3. 0 \in G
  BY <1>1, <1>2
<1>4. ASSUME NEW i \in 1 .. n, i - 1 \in G PROVE i \in G
  <2>1. met[i - 1] = s[i]
    BY <1>4
  <2>2. i \in 1 .. N + 2 /\ i \in 0 .. n
    BY <1>1
  <2>3. met[i] = s[i + 1]
    BY <1>2, <1>a, <2>1, <2>2
  <2> QED
    BY <2>2, <2>3
<1> HIDE DEF G
<1>5. \A i \in 0 .. n : i \in G
  BY <1>1, <1>3, <1>4, CountUp
<1> QED
  BY <1>5 DEF G, met, n

(* UpTo counts the links to the first occurrence. *)
LEMMA UpToIs ==
  ASSUME NEW met, NEW k \in Nat, DOMAIN met = 0 .. k, NEW stop, NEW n \in 1 .. k,
         met[n] = stop, \A i \in 1 .. n - 1 : met[i] # stop
  PROVE  UpTo(met, stop) = n
<1>1. n \in DOMAIN met \ {0}
  OBVIOUS
<1>2. \A j \in DOMAIN met \ {0} :
         met[j] = stop /\ (\A i \in 1 .. j - 1 : met[i] # stop) => j = n
  <2> SUFFICES ASSUME NEW j \in 1 .. k, met[j] = stop, \A i \in 1 .. j - 1 : met[i] # stop
               PROVE  j = n
    OBVIOUS
  <2>1. ~ (j < n) /\ ~ (n < j)
    OBVIOUS
  <2> QED
    BY <2>1
<1> QED
  BY <1>1, <1>2 DEF UpTo

(* A list of distinct blocks is not longer than their number. *)
LEMMA ListLen ==
  ASSUME NEW s \in Seq(Pcb), IsInjective(s)
  PROVE  Len(s) \in Nat /\ Len(s) <= N
<1>1. IsFiniteSet(Range(s)) /\ Cardinality(Range(s)) = Len(s) /\ Range(s) \subseteq Pcb
  BY InjectiveLen, RangeOf
<1>2. Cardinality(Range(s)) <= Cardinality(Pcb)
  BY <1>1, BlockAssumption, FS_Subset
<1> QED
  BY <1>1, <1>2 DEF N

------------------------------------------------------------------------------
(* What the links of a memory say when it holds lists. *)

\* The location head starts the list s of the links of one field.
Linked(m, field, head, s) ==
    /\ m[head] = IF s = <<>> THEN NULL ELSE s[1]
    /\ \A i \in 1 .. Len(s) : m[<<field, s[i]>>] = IF i = Len(s) THEN NULL ELSE s[i + 1]

\* The location tp holds the tail of the queue s.
Ring(m, tp, s) ==
    /\ m[tp] = IF s = <<>> THEN NULL ELSE s[Len(s)]
    /\ \A i \in 1 .. Len(s) :
          /\ m[next(s[i])] = IF i = Len(s) THEN s[1] ELSE s[i + 1]
          /\ m[prev(s[i])] = IF i = 1 THEN s[Len(s)] ELSE s[i - 1]

\* The children of par are the list s.
Family(m, par, s) ==
    /\ Linked(m, "p_nextSib", child(par), s)
    /\ \A i \in 1 .. Len(s) :
          /\ m[prevSib(s[i])] = IF i = 1 THEN NULL ELSE s[i - 1]
          /\ m[parent(s[i])] = par

LEMMA LinkedList ==
  ASSUME NEW m, NEW field, NEW head, NEW S, NULL \notin S, NEW s \in Seq(S),
         Len(s) <= N + 2, Linked(m, field, head, s)
  PROVE  ListFrom(m, field, m[head]) = s
<1>1. CASE s = <<>>
  BY <1>1 DEF ListFrom, Linked
<1>2. CASE s # <<>>
  <2> DEFINE met == Chase(m, field, s[1])  n == Len(s)
  <2>1. n \in Nat /\ n > 0 /\ N \in Nat /\ m[head] = s[1] /\ s[1] \in S /\ s[1] # NULL
    BY <1>2, BlocksCount DEF Linked
  <2>2. \A i \in 0 .. n - 1 : met[i] = s[i + 1]
    <3>1. Along(m, field, s)
      BY <2>1 DEF Linked, Along
    <3> HIDE DEF n
    <3>2. \A i \in 0 .. Len(s) - 1 : Chase(m, field, s[1])[i] = s[i + 1]
      BY <1>2, <3>1, ChaseMeets DEF n
    <3> QED
      BY <3>2 DEF n
  <2>3. DOMAIN met = 0 .. N + 2
    BY ChaseRec
  <2>4. met[n] = NULL
    <3>1. met[n - 1] = s[n] /\ s[n] # NULL
      BY <2>1, <2>2
    <3>2. m[<<field, s[n]>>] = NULL
      BY <2>1 DEF Linked
    <3>3. n \in 1 .. N + 2
      BY <2>1
    <3> QED
      BY <3>1, <3>2, <3>3, ChaseRec
  <2> HIDE DEF met
  <2>5. \A i \in 1 .. n - 1 : met[i] # NULL
    BY <2>1, <2>2
  <2>6. UpTo(met, NULL) = n
    <3>1. N + 2 \in Nat /\ n \in 1 .. N + 2
      BY <2>1
    <3> QED
      BY <2>3, <2>4, <2>5, <3>1, UpToIs
  <2>7. ListFrom(m, field, m[head]) = [i \in 1 .. n |-> met[i - 1]]
    BY <2>1, <2>6 DEF ListFrom, met
  <2>8. \A i \in 1 .. n : met[i - 1] = s[i]
    BY <2>1, <2>2
  <2>9. s = [i \in 1 .. n |-> s[i]]
    OBVIOUS
  <2> QED
    BY <2>7, <2>8, <2>9
<1> QED
  BY <1>1, <1>2

(* The links of a queue, followed from its tail on. *)
LEMMA RingMeets ==
  ASSUME NEW m, NEW tp, NEW s \in Seq(Pcb), IsInjective(s), s # <<>>, Ring(m, tp, s)
  PROVE  /\ Chase(m, "p_next", m[tp])[0] = s[Len(s)]
         /\ \A i \in 1 .. Len(s) : Chase(m, "p_next", m[tp])[i] = s[i]
<1> DEFINE t == <<s[Len(s)]>> \o s
<1>1. Len(s) \in Nat /\ Len(s) > 0 /\ Len(s) <= N
  BY ListLen
<1>2. /\ t \in Seq(Pcb) /\ Len(t) = Len(s) + 1 /\ t[1] = s[Len(s)] /\ t # <<>>
      /\ \A i \in 1 .. Len(s) : t[i + 1] = s[i]
  <2>1. s[Len(s)] \in Pcb
    BY <1>1
  <2>2. <<s[Len(s)]>> \in Seq(Pcb) /\ Len(<<s[Len(s)]>>) = 1 /\ <<s[Len(s)]>>[1] = s[Len(s)]
    BY <2>1
  <2>3. /\ t \in Seq(Pcb) /\ Len(t) = 1 + Len(s)
        /\ \A i \in 1 .. Len(t) : t[i] = IF i <= 1 THEN <<s[Len(s)]>>[i] ELSE s[i - 1]
    BY <2>2, ConcatProperties
  <2> QED
    BY <1>1, <2>2, <2>3
<1> HIDE DEF t
<1>3. Along(m, "p_next", t)
  <2> SUFFICES ASSUME NEW i \in 1 .. Len(s) PROVE m[<<"p_next", t[i]>>] = s[i]
    BY <1>1, <1>2 DEF Along
  <2>1. CASE i = 1
    BY <1>1, <1>2, <2>1 DEF Ring, next
  <2>2. CASE i # 1
    <3>1. i - 1 \in 1 .. Len(s) /\ i - 1 # Len(s) /\ (i - 1) + 1 = i
      BY <1>1, <2>2
    <3>2. t[i] = s[i - 1]
      BY <1>2, <3>1
    <3>3. m[next(s[i - 1])] = s[i]
      BY <3>1 DEF Ring
    <3> QED
      BY <3>2, <3>3 DEF next
  <2> QED
    BY <2>1, <2>2
<1>4. m[tp] = t[1]
  BY <1>2 DEF Ring
<1>5. \A i \in 0 .. Len(t) - 1 : Chase(m, "p_next", m[tp])[i] = t[i + 1]
  <2>1. Len(t) <= N + 2 /\ NULL \notin Pcb /\ t \in Seq(Pcb) /\ t # <<>>
    BY <1>1, <1>2, BlockAssumption, BlocksCount
  <2>2. \A i \in 0 .. Len(t) - 1 : Chase(m, "p_next", t[1])[i] = t[i + 1]
    BY <1>3, <2>1, ChaseMeets
  <2> QED
    BY <1>4, <2>2
<1> QED
  BY <1>1, <1>2, <1>5

LEMMA RingIsQueue ==
  ASSUME NEW m, NEW tp, NEW s \in Seq(Pcb), IsInjective(s), Ring(m, tp, s)
  PROVE  QueueAt(m, tp) = s
<1>1. CASE s = <<>>
  BY <1>1 DEF QueueAt, Ring
<1>2. CASE s # <<>>
  <2> DEFINE met == Chase(m, "p_next", m[tp])  n == Len(s)
  <2>1. n \in Nat /\ n > 0 /\ n <= N /\ N + 2 \in Nat /\ n \in 1 .. N + 2
    BY <1>2, ListLen, BlocksCount
  <2>2. m[tp] = s[n] /\ s[n] \in Pcb
    BY <1>2, <2>1 DEF Ring
  <2>3. DOMAIN met = 0 .. N + 2
    BY ChaseRec
  <2>4. \A i \in 1 .. n : met[i] = s[i]
    BY <1>2, RingMeets
  <2> HIDE DEF met
  <2>5. \A i \in 1 .. n - 1 : s[i] # s[n]
    BY <2>1, RangeOf DEF IsInjective
  <2>6. UpTo(met, m[tp]) = n
    <3>1. met[n] = m[tp] /\ \A i \in 1 .. n - 1 : met[i] # m[tp]
      BY <2>1, <2>2, <2>4, <2>5
    <3> QED
      BY <2>1, <2>3, <3>1, UpToIs
  <2>7. m[tp] # NULL
    BY <2>2, BlockAssumption
  <2>8. QueueAt(m, tp) = [i \in 1 .. n |-> met[i]]
    BY <2>1, <2>6, <2>7 DEF QueueAt, met
  <2>9. s = [i \in 1 .. n |-> s[i]]
    OBVIOUS
  <2> QED
    BY <2>4, <2>8, <2>9
<1> QED
  BY <1>1, <1>2

------------------------------------------------------------------------------
(* Which locations a function changes. *)

\* n is the memory m but for the locations in L, which may hold other pointers.
Changes(m, n, L) ==
    /\ n = [l \in DOMAIN m |-> n[l]]
    /\ \A l \in DOMAIN m : n[l] = m[l] \/ (l \in L /\ n[l] \in Pcb \cup {NULL})

\* The locations that make a queue of the blocks S.
QueueLocs(tp, S) == {tp} \cup ({"p_next", "p_prev"} \X S)

\* The locations that make a list of children of the blocks S.
FamilyLocs(par, S) == {child(par)} \cup ({"p_nextSib", "p_prevSib", "p_parent"} \X S)

IsMemory(m) == Locations \subseteq DOMAIN m /\ m = [l \in DOMAIN m |-> m[l]]

LEMMA LocationFacts ==
  /\ \A p \in Pcb : {next(p), prev(p), parent(p), child(p), nextSib(p), prevSib(p)}
                       \subseteq Locations
  /\ \A q \in ProcQ : tail(q) \in Locations
  /\ FreeHead \in Locations
  /\ \A m : IsMemory(m) => Locations \subseteq DOMAIN m
BY DEF IsMemory, Locations, Fields, next, prev, parent, child, nextSib, prevSib

(* A queue none of whose locations changes stays. *)
LEMMA RingFrame ==
  ASSUME NEW m, NEW n, NEW L, IsMemory(m), Changes(m, n, L),
         NEW q \in ProcQ, NEW s \in Seq(Pcb), Ring(m, tail(q), s),
         L \cap QueueLocs(tail(q), Range(s)) = {}
  PROVE  Ring(n, tail(q), s)
<1>1. n[tail(q)] = m[tail(q)]
  BY LocationFacts DEF Changes, QueueLocs
<1>2. ASSUME NEW i \in 1 .. Len(s)
      PROVE  n[next(s[i])] = m[next(s[i])] /\ n[prev(s[i])] = m[prev(s[i])]
  <2>1. s[i] \in Pcb /\ s[i] \in Range(s)
    BY RangeOf
  <2>2. next(s[i]) \in QueueLocs(tail(q), Range(s)) /\ prev(s[i]) \in QueueLocs(tail(q), Range(s))
    BY <2>1 DEF QueueLocs, next, prev
  <2> QED
    BY <2>1, <2>2, LocationFacts DEF Changes
<1> QED
  BY <1>1, <1>2 DEF Ring

LEMMA LinkedFrame ==
  ASSUME NEW m, NEW n, NEW L, Changes(m, n, L), NEW field, NEW head, NEW S,
         NEW s \in Seq(S), Linked(m, field, head, s),
         head \in DOMAIN m, {field} \X Range(s) \subseteq DOMAIN m,
         head \notin L, L \cap ({field} \X Range(s)) = {}
  PROVE  Linked(n, field, head, s)
<1>1. n[head] = m[head]
  BY DEF Changes
<1>2. ASSUME NEW i \in 1 .. Len(s) PROVE n[<<field, s[i]>>] = m[<<field, s[i]>>]
  <2>1. <<field, s[i]>> \in {field} \X Range(s)
    BY RangeOf
  <2> QED
    BY <2>1 DEF Changes
<1> QED
  BY <1>1, <1>2 DEF Linked

LEMMA FamilyFrame ==
  ASSUME NEW m, NEW n, NEW L, IsMemory(m), Changes(m, n, L),
         NEW par \in Pcb, NEW s \in Seq(Pcb), Family(m, par, s),
         L \cap FamilyLocs(par, Range(s)) = {}
  PROVE  Family(n, par, s)
<1>1. n[child(par)] = m[child(par)]
  BY LocationFacts DEF Changes, FamilyLocs
<1>2. ASSUME NEW i \in 1 .. Len(s)
      PROVE  /\ n[nextSib(s[i])] = m[nextSib(s[i])]
             /\ n[prevSib(s[i])] = m[prevSib(s[i])]
             /\ n[parent(s[i])] = m[parent(s[i])]
  <2>1. s[i] \in Pcb /\ s[i] \in Range(s)
    BY RangeOf
  <2>2. {nextSib(s[i]), prevSib(s[i]), parent(s[i])} \subseteq FamilyLocs(par, Range(s))
    BY <2>1 DEF FamilyLocs, nextSib, prevSib, parent
  <2> QED
    BY <2>1, <2>2, LocationFacts DEF Changes
<1> QED
  BY <1>1, <1>2 DEF Family, Linked, nextSib

------------------------------------------------------------------------------
(* Process queues. *)

(* insertProcQ puts the block behind the tail. *)
LEMMA InsertRing ==
  ASSUME NEW m, IsMemory(m), NEW q \in ProcQ,
         NEW s \in Seq(Pcb), IsInjective(s), Ring(m, tail(q), s),
         NEW p \in Pcb, p \notin Range(s)
  PROVE  LET n == insertProcQ(m, tail(q), p) IN
         /\ Ring(n, tail(q), Append(s, p))
         /\ Changes(m, n, QueueLocs(tail(q), Range(s) \cup {p}))
<1> DEFINE n == insertProcQ(m, tail(q), p)  tp == tail(q)  r == Append(s, p)  k == Len(s)
<1>1. /\ r \in Seq(Pcb) /\ Len(r) = k + 1 /\ r # <<>> /\ k \in Nat
      /\ \A i \in 1 .. k : r[i] = s[i] /\ s[i] \in Pcb /\ s[i] # p /\ s[i] \in Range(s)
      /\ r[k + 1] = p
  BY AppendProperties, RangeOf
<1>2. {next(p), prev(p), tp} \subseteq DOMAIN m
  BY LocationFacts
<1>3. CASE s = <<>>
  <2>1. n = [m EXCEPT ![next(p)] = p, ![prev(p)] = p, ![tp] = p]
    BY <1>3 DEF insertProcQ, Ring
  <2>2. n[tp] = p /\ n[next(p)] = p /\ n[prev(p)] = p
    BY <1>2, <2>1 DEF next, prev, tail
  <2>3. Ring(n, tp, r)
    BY <1>1, <1>3, <2>2 DEF Ring
  <2>4. Changes(m, n, QueueLocs(tp, Range(s) \cup {p}))
    <3> DEFINE L == QueueLocs(tp, Range(s) \cup {p})
    <3>1. n = [l \in DOMAIN m |-> n[l]]
      BY <2>1
    <3>2. {next(p), prev(p), tp} \subseteq L
      BY DEF QueueLocs, next, prev
    <3> HIDE DEF n, L
    <3>3. \A l \in DOMAIN m : n[l] = m[l] \/ (l \in L /\ n[l] \in Pcb \cup {NULL})
      BY <2>1, <3>2
    <3> QED
      BY <3>1, <3>3 DEF Changes, L
  <2> QED
    BY <2>3, <2>4
<1>4. CASE s # <<>>
  <2> DEFINE last == s[k]  head == s[1]
  <2>1. /\ k > 0 /\ m[tp] = last /\ last # NULL /\ m[next(last)] = head
        /\ {last, head} \subseteq Pcb \ {p} /\ {last, head} \subseteq Range(s)
    BY <1>1, <1>4, BlockAssumption DEF Ring
  <2>2. n = [m EXCEPT ![next(p)] = head, ![next(last)] = p, ![prev(p)] = last,
                      ![prev(head)] = p, ![tp] = p]
    BY <2>1 DEF insertProcQ
  <2>3. {next(last), prev(head)} \subseteq DOMAIN m
    BY <2>1, LocationFacts
  <2> HIDE DEF n, last, head
  <2>4. /\ n[tp] = p /\ n[next(p)] = head /\ n[prev(p)] = last
        /\ n[next(last)] = p /\ n[prev(head)] = p
    BY <1>2, <2>1, <2>2, <2>3 DEF next, prev, tail
  <2>5. /\ \A x \in Range(s) \ {last} : n[next(x)] = m[next(x)]
        /\ \A x \in Range(s) \ {head} : n[prev(x)] = m[prev(x)]
    <3>1. \A x \in Range(s) : x # p /\ next(x) \in DOMAIN m /\ prev(x) \in DOMAIN m
      BY RangeOf, LocationFacts
    <3> QED
      BY <2>2, <3>1 DEF next, prev, tail
  <2>6. Changes(m, n, QueueLocs(tp, Range(s) \cup {p}))
    <3> DEFINE L == QueueLocs(tp, Range(s) \cup {p})
    <3>1. n = [l \in DOMAIN m |-> n[l]]
      BY <2>2
    <3>2. {next(p), prev(p), next(last), prev(head), tp} \subseteq L
      BY <2>1 DEF QueueLocs, next, prev
    <3> HIDE DEF L
    <3>3. \A l \in DOMAIN m : n[l] = m[l] \/ (l \in L /\ n[l] \in Pcb \cup {NULL})
      BY <2>1, <2>2, <3>2
    <3> QED
      BY <3>1, <3>3 DEF Changes, L
  <2>7. ASSUME NEW i \in 1 .. k
        PROVE  /\ n[next(s[i])] = IF i = k THEN p ELSE s[i + 1]
               /\ n[prev(s[i])] = IF i = 1 THEN p ELSE s[i - 1]
    <3>1. /\ i # k => s[i] # last /\ m[next(s[i])] = s[i + 1]
          /\ i # 1 => s[i] # head /\ m[prev(s[i])] = s[i - 1]
      BY <2>1, RangeOf DEF IsInjective, last, head, Ring
    <3> QED
      BY <1>1, <2>4, <2>5, <3>1 DEF last, head
  <2>8. Ring(n, tp, r)
    <3>1. n[tp] = r[Len(r)]
      BY <1>1, <2>4
    <3>2. ASSUME NEW i \in 1 .. k + 1
          PROVE  /\ n[next(r[i])] = IF i = k + 1 THEN r[1] ELSE r[i + 1]
                 /\ n[prev(r[i])] = IF i = 1 THEN r[k + 1] ELSE r[i - 1]
      <4>1. CASE i = k + 1
        BY <1>1, <2>1, <2>4, <4>1 DEF head, last
      <4>2. CASE i \in 1 .. k
        BY <1>1, <2>1, <2>7, <4>2
      <4> QED
        BY <1>1, <4>1, <4>2
    <3> QED
      BY <1>1, <3>1, <3>2 DEF Ring
  <2> QED
    BY <2>6, <2>8 DEF n
<1> QED
  BY <1>3, <1>4

(* removeProcQ takes the head. *)
LEMMA RemoveRing ==
  ASSUME NEW m, IsMemory(m), NEW q \in ProcQ,
         NEW s \in Seq(Pcb), IsInjective(s), s # <<>>, Ring(m, tail(q), s)
  PROVE  LET r == removeProcQ(m, tail(q)) IN
         /\ r.ptr = Head(s)
         /\ Ring(r.mem, tail(q), Tail(s))
         /\ Changes(m, r.mem, QueueLocs(tail(q), Range(s)))
<1> DEFINE r == removeProcQ(m, tail(q))  n == r.mem  tp == tail(q)  k == Len(s)
           last == s[k]  head == s[1]  L == QueueLocs(tp, Range(s))
<1>1. /\ k \in Nat /\ k > 0 /\ Head(s) = head
      /\ \A i \in 1 .. k : s[i] \in Pcb /\ s[i] \in Range(s)
      /\ \A i, j \in 1 .. k : s[i] = s[j] => i = j
  BY RangeOf DEF IsInjective
<1>2. /\ Tail(s) \in Seq(Pcb) /\ Len(Tail(s)) = k - 1
      /\ \A i \in 1 .. k - 1 : Tail(s)[i] = s[i + 1]
  BY HeadTailProperties
<1>3. /\ m[tp] = last /\ last # NULL /\ m[next(last)] = head
      /\ {last, head} \subseteq Pcb /\ {last, head} \subseteq Range(s)
  BY <1>1, BlockAssumption DEF Ring
<1>4. tp \in DOMAIN m /\ tp \in L
  BY LocationFacts DEF QueueLocs
<1> HIDE DEF last, head, L
<1>7. k = 1 \/ k > 1
  <2>1. k \in Nat /\ k > 0
    BY <1>1
  <2> HIDE DEF k
  <2> QED
    BY <2>1
<1>5. CASE k = 1
  <2>a. head = last
    BY <1>5 DEF last, head
  <2>b. r = Returns([m EXCEPT ![tp] = NULL], head)
    BY <1>3, <2>a DEF removeProcQ
  <2>c. Len(Tail(s)) = 0
    BY <1>2, <1>5
  <2>d. Tail(s) = <<>>
    BY <1>2, <2>c, EmptySeq
  <2>1. r = Returns([m EXCEPT ![tp] = NULL], head) /\ Tail(s) = <<>>
    BY <2>b, <2>d
  <2>2. n = [m EXCEPT ![tp] = NULL] /\ r.ptr = head
    BY <2>1 DEF Returns
  <2> HIDE DEF n, r
  <2>3. n[tp] = NULL
    BY <1>4, <2>2
  <2>4. Ring(n, tp, Tail(s))
    BY <2>1, <2>3 DEF Ring
  <2>5. Changes(m, n, L)
    BY <1>4, <2>2 DEF Changes
  <2> QED
    BY <1>1, <2>2, <2>4, <2>5 DEF n, r, L
<1>6. CASE k > 1
  <2> DEFINE second == s[2]
  <2>1. /\ head # last /\ second # head /\ m[next(head)] = second
        /\ second \in Pcb /\ second \in Range(s)
    BY <1>1, <1>6 DEF Ring, last, head
  <2> HIDE DEF second
  <2>2. r = Returns([m EXCEPT ![prev(second)] = last, ![next(last)] = second], head)
    BY <1>3, <2>1 DEF removeProcQ
  <2>3. n = [m EXCEPT ![prev(second)] = last, ![next(last)] = second] /\ r.ptr = head
    BY <2>2 DEF Returns
  <2>4. /\ {prev(second), next(last)} \subseteq DOMAIN m
        /\ {prev(second), next(last)} \subseteq L
    <3>1. {prev(second), next(last)} \subseteq L
      BY <1>3, <2>1 DEF L, QueueLocs, prev, next
    <3> QED
      BY <1>3, <2>1, <3>1, LocationFacts
  <2> HIDE DEF n, r
  <2>5. /\ n[tp] = last /\ n[prev(second)] = last /\ n[next(last)] = second
        /\ \A x \in Pcb \ {last} : n[next(x)] = m[next(x)]
        /\ \A x \in Pcb \ {second} : n[prev(x)] = m[prev(x)]
    <3>1. \A x \in Pcb : next(x) \in DOMAIN m /\ prev(x) \in DOMAIN m
      BY LocationFacts
    <3> QED
      BY <1>3, <1>4, <2>3, <2>4, <3>1 DEF next, prev, tail
  <2>6. ASSUME NEW i \in 1 .. k - 1
        PROVE  /\ n[next(s[i + 1])] = IF i = k - 1 THEN s[2] ELSE s[i + 2]
               /\ n[prev(s[i + 1])] = IF i = 1 THEN s[k] ELSE s[i]
    <3>1. i + 1 \in 1 .. k /\ s[i + 1] \in Pcb
      BY <1>1
    <3>2. n[next(s[i + 1])] = IF i = k - 1 THEN s[2] ELSE s[i + 2]
      <4>1. CASE i = k - 1
        BY <1>1, <2>5, <4>1 DEF last, second
      <4>2. CASE i # k - 1
        <5>1. i + 1 # k /\ s[i + 1] # last
          BY <1>1, <3>1, <4>2 DEF last
        <5>2. m[next(s[i + 1])] = s[(i + 1) + 1]
          BY <3>1, <5>1 DEF Ring
        <5> QED
          BY <2>5, <3>1, <4>2, <5>1, <5>2
      <4> QED
        BY <4>1, <4>2
    <3>3. n[prev(s[i + 1])] = IF i = 1 THEN s[k] ELSE s[i]
      <4>1. CASE i = 1
        BY <2>5, <4>1 DEF last, second
      <4>2. CASE i # 1
        <5>1. i + 1 # 1 /\ s[i + 1] # second
          BY <1>1, <1>6, <3>1, <4>2 DEF second
        <5>2. m[prev(s[i + 1])] = s[(i + 1) - 1]
          BY <3>1, <5>1 DEF Ring
        <5> QED
          BY <2>5, <3>1, <4>2, <5>1, <5>2
      <4> QED
        BY <4>1, <4>2
    <3> QED
      BY <3>2, <3>3
  <2>7. Ring(n, tp, Tail(s))
    <3> DEFINE t == Tail(s)
    <3>b. Len(t) = k - 1 /\ \A i \in 1 .. k - 1 : t[i] = s[i + 1]
      BY <1>2
    <3>c. k \in Nat
      BY <1>1
    <3> HIDE DEF t, k
    <3>d. k - 1 >= 1
      BY <1>6, <3>c
    <3>a. /\ t # <<>> /\ Len(t) = k - 1 /\ k - 1 >= 1 /\ k \in Nat
          /\ \A i \in 1 .. k - 1 : t[i] = s[i + 1]
      BY <3>b, <3>c, <3>d
    <3>1. t # <<>> /\ n[tp] = t[k - 1] /\ t[1] = s[2]
      BY <2>5, <3>a DEF last
    <3>2. ASSUME NEW i \in 1 .. k - 1
          PROVE  /\ n[next(t[i])] = IF i = k - 1 THEN t[1] ELSE t[i + 1]
                 /\ n[prev(t[i])] = IF i = 1 THEN t[k - 1] ELSE t[i - 1]
      BY <2>6, <3>1, <3>a
    <3>3. Ring(n, tp, t)
      BY <3>1, <3>2, <3>a DEF Ring
    <3> QED
      BY <3>3 DEF t
  <2>8. Changes(m, n, L)
    <3>1. n = [l \in DOMAIN m |-> n[l]]
      BY <2>3
    <3>2. \A l \in DOMAIN m : n[l] = m[l] \/ (l \in L /\ n[l] \in Pcb \cup {NULL})
      BY <1>3, <2>1, <2>3, <2>4
    <3> QED
      BY <3>1, <3>2 DEF Changes
  <2> QED
    BY <1>1, <2>3, <2>7, <2>8 DEF n, r, L
<1> QED
  BY <1>5, <1>6, <1>7 DEF L

(* headProcQ *)
LEMMA HeadRing ==
  ASSUME NEW m, NEW tp, NEW s \in Seq(Pcb), Ring(m, tp, s)
  PROVE  headProcQ(m, tp) = IF s = <<>> THEN NULL ELSE Head(s)
<1>1. s # <<>> => Len(s) \in 1 .. Len(s) /\ s[Len(s)] # NULL /\ Head(s) = s[1]
  BY BlockAssumption
<1> QED
  BY <1>1 DEF headProcQ, Ring

(* The search of outProcQ finds what is between the head and the tail, and *)
(* nothing that is not in the queue.                                       *)
LEMMA RingMiddle ==
  ASSUME NEW m, NEW tp, NEW s \in Seq(Pcb), IsInjective(s), s # <<>>, Ring(m, tp, s)
  PROVE  /\ \A i \in 2 .. Len(s) - 1 : InTheMiddle(m, tp, s[i])
         /\ \A p \in Pcb \ Range(s) : ~ InTheMiddle(m, tp, p)
<1> DEFINE met == Chase(m, "p_next", m[tp])  k == Len(s)
<1>1. /\ k \in Nat /\ k > 0 /\ k <= N /\ N \in Nat /\ k \in 1 .. k
      /\ \A i \in 1 .. k : s[i] \in Pcb /\ s[i] \in Range(s)
      /\ \A i, j \in 1 .. k : s[i] = s[j] => i = j
  BY RangeOf, ListLen, BlocksCount DEF IsInjective
<1>2. \A i \in 1 .. k : met[i] = s[i]
  BY RingMeets
<1>3. /\ m[tp] = s[k] /\ s[k] # NULL /\ s[1] # NULL
      /\ k = 1 => m[<<"p_next", s[1]>>] = s[1]
  BY <1>1, BlockAssumption DEF Ring, next
<1>4. \A i \in 1 .. N + 2 : met[i - 1] # NULL => met[i] = m[<<"p_next", met[i - 1]>>]
  BY ChaseRec
<1>5. \A p : InTheMiddle(m, tp, p) <=>
               \E i \in 2 .. N : met[i] = p /\ \A j \in 2 .. i : met[j] # s[k]
  BY <1>3 DEF InTheMiddle, N
<1> HIDE DEF met, k
<1>6. ASSUME NEW i \in 2 .. k - 1 PROVE InTheMiddle(m, tp, s[i])
  <2>1. i \in 2 .. N /\ i \in 1 .. k /\ met[i] = s[i]
    BY <1>1, <1>2
  <2>2. \A j \in 2 .. i : met[j] # s[k]
    BY <1>1, <1>2
  <2> QED
    BY <1>5, <2>1, <2>2
<1>7. ASSUME NEW p \in Pcb \ Range(s), InTheMiddle(m, tp, p) PROVE FALSE
  <2>1. PICK i \in 2 .. N : met[i] = p /\ \A j \in 2 .. i : met[j] # s[k]
    BY <1>5, <1>7
  <2>2. i > k
    BY <1>1, <1>2, <2>1
  <2>3. CASE k >= 2
    <3>1. k \in 2 .. i /\ met[k] = s[k]
      BY <1>1, <1>2, <2>2, <2>3
    <3> QED
      BY <2>1, <3>1
  <2>4. CASE k = 1
    <3>1. 2 \in 1 .. N + 2 /\ 2 \in 2 .. i /\ 2 - 1 = 1
      BY <1>1, <2>1
    <3>2. met[1] = s[1]
      BY <1>2, <2>4
    <3>3. met[2] = s[1]
      BY <1>3, <1>4, <2>4, <3>1, <3>2
    <3> QED
      BY <2>1, <2>4, <3>1, <3>3
  <2> QED
    BY <1>1, <2>3, <2>4
<1> QED
  BY <1>6, <1>7 DEF k

(* A memory where the neighbours of s[i] are linked to each other. *)
LEMMA OmitRing ==
  ASSUME NEW m, NEW tp, NEW s \in Seq(Pcb), IsInjective(s), Ring(m, tp, s),
         NEW i \in 2 .. Len(s), NEW n, NEW after,
         after = IF i = Len(s) THEN s[1] ELSE s[i + 1],
         n[tp] = IF i = Len(s) THEN s[i - 1] ELSE s[Len(s)],
         n[next(s[i - 1])] = after,
         n[prev(after)] = s[i - 1],
         \A x \in Range(s) \ {s[i - 1]} : n[next(x)] = m[next(x)],
         \A x \in Range(s) \ {after} : n[prev(x)] = m[prev(x)]
  PROVE  Ring(n, tp, Omit(s, i))
<1> DEFINE k == Len(s)  t == Omit(s, i)
<1>1. /\ k \in Nat /\ k >= 2 /\ i \in 2 .. k
      /\ \A j \in 1 .. k : s[j] \in Range(s)
      /\ \A j, h \in 1 .. k : s[j] = s[h] => j = h
  BY RangeOf DEF IsInjective
<1>2. \A j \in 1 .. k : /\ m[next(s[j])] = IF j = k THEN s[1] ELSE s[j + 1]
                        /\ m[prev(s[j])] = IF j = 1 THEN s[k] ELSE s[j - 1]
  BY DEF Ring
<1>3. /\ Len(t) = k - 1 /\ t \in Seq(Pcb)
      /\ \A j \in 1 .. k - 1 : t[j] = IF j < i THEN s[j] ELSE s[j + 1]
  <2>1. \A j \in 1 .. k - 1 : t[j] = IF j < i THEN s[j] ELSE s[j + 1]
    BY DEF Omit
  <2>2. t \in Seq(Pcb)
    <3>1. i \in 1 .. Len(s)
      OBVIOUS
    <3> QED
      BY <3>1, WithoutMember
  <2>3. DOMAIN t = 1 .. k - 1
    BY DEF Omit
  <2>4. Len(t) \in Nat /\ 1 .. Len(t) = 1 .. k - 1
    BY <2>2, <2>3
  <2> HIDE DEF t, k
  <2>5. Len(t) = k - 1
    BY <1>1, <2>4
  <2> QED
    BY <2>1, <2>2, <2>5
<1>4. /\ after = IF i = k THEN s[1] ELSE s[i + 1]
      /\ n[tp] = IF i = k THEN s[i - 1] ELSE s[k]
  OBVIOUS
<1> HIDE DEF k, t
<1>5. t[1] = s[1] /\ t[k - 1] = IF i = k THEN s[k - 1] ELSE s[k]
  BY <1>1, <1>3
<1>6. ASSUME NEW j \in 1 .. k - 1
      PROVE  n[next(t[j])] = IF j = k - 1 THEN t[1] ELSE t[j + 1]
  <2>1. CASE j < i - 1
    <3>1. j \in 1 .. k /\ t[j] = s[j] /\ t[j + 1] = s[j + 1] /\ j # k - 1 /\ s[j] # s[i - 1]
      BY <1>1, <1>3, <2>1
    <3> QED
      BY <1>1, <1>2, <3>1
  <2>2. CASE j = i - 1
    <3>1. t[j] = s[i - 1]
      BY <1>1, <1>3, <2>2
    <3>2. i # k => t[j + 1] = s[i + 1] /\ j # k - 1
      BY <1>1, <1>3, <2>2
    <3> QED
      BY <1>1, <1>4, <1>5, <2>2, <3>1, <3>2
  <2>3. CASE j >= i
    <3>1. j + 1 \in 1 .. k /\ t[j] = s[j + 1] /\ s[j + 1] # s[i - 1]
      BY <1>1, <1>3, <2>3
    <3>2. j # k - 1 => t[j + 1] = s[j + 2]
      BY <1>1, <1>3, <2>3
    <3>3. n[next(s[j + 1])] = IF j + 1 = k THEN s[1] ELSE s[j + 2]
      BY <1>1, <1>2, <3>1
    <3> QED
      BY <1>1, <1>5, <3>1, <3>2, <3>3
  <2> QED
    BY <1>1, <2>1, <2>2, <2>3
<1>7. ASSUME NEW j \in 1 .. k - 1
      PROVE  n[prev(t[j])] = IF j = 1 THEN t[k - 1] ELSE t[j - 1]
  <2>1. CASE j < i
    <3>1. j \in 1 .. k /\ t[j] = s[j] /\ (j # 1 => t[j - 1] = s[j - 1])
      BY <1>1, <1>3, <2>1
    <3>2. CASE i = k /\ j = 1
      BY <1>1, <1>4, <1>5, <3>1, <3>2
    <3>3. CASE ~ (i = k /\ j = 1)
      <4>1. s[j] # after
        BY <1>1, <1>4, <2>1, <3>1, <3>3
      <4>2. n[prev(s[j])] = IF j = 1 THEN s[k] ELSE s[j - 1]
        BY <1>1, <1>2, <3>1, <4>1
      <4> QED
        BY <1>5, <3>1, <3>3, <4>2
    <3> QED
      BY <3>2, <3>3
  <2>2. CASE j = i
    <3>1. t[j] = after /\ t[j - 1] = s[i - 1] /\ j # 1
      BY <1>1, <1>3, <1>4, <2>2
    <3> QED
      BY <3>1
  <2>3. CASE j > i
    <3>1. j + 1 \in 1 .. k /\ t[j] = s[j + 1] /\ t[j - 1] = s[j] /\ j # 1
      BY <1>1, <1>3, <2>3
    <3>2. s[j + 1] # after
      <4>1. i # k /\ i + 1 \in 1 .. k /\ i + 1 # j + 1
        BY <1>1, <2>3
      <4>2. after = s[i + 1]
        BY <1>4, <4>1
      <4> QED
        BY <1>1, <3>1, <4>1, <4>2
    <3>3. n[prev(s[j + 1])] = s[j]
      <4>1. n[prev(s[j + 1])] = m[prev(s[j + 1])]
        BY <1>1, <3>1, <3>2
      <4>2. m[prev(s[j + 1])] = IF j + 1 = 1 THEN s[k] ELSE s[(j + 1) - 1]
        BY <1>2, <3>1
      <4>3. j + 1 # 1 /\ (j + 1) - 1 = j
        BY <1>1, <2>3
      <4> QED
        BY <4>1, <4>2, <4>3
    <3> QED
      BY <3>1, <3>3
  <2> QED
    BY <1>1, <2>1, <2>2, <2>3
<1>8. n[tp] = t[k - 1] /\ t # <<>>
  BY <1>1, <1>3, <1>4, <1>5
<1> QED
  BY <1>1, <1>3, <1>6, <1>7, <1>8 DEF Ring, t

(* outProcQ takes a block out of the queue, wherever it is but at the head. *)
LEMMA OutRing ==
  ASSUME NEW m, IsMemory(m), NEW q \in ProcQ,
         NEW s \in Seq(Pcb), IsInjective(s), Ring(m, tail(q), s),
         NEW p \in Pcb, s # <<>> => Head(s) # p
  PROVE  LET r == outProcQ(m, tail(q), p) IN
         /\ r.ptr = IF p \in Range(s) THEN p ELSE NULL
         /\ Ring(r.mem, tail(q), Without(s, {p}))
         /\ Changes(m, r.mem, QueueLocs(tail(q), Range(s)))
<1> DEFINE tp == tail(q)  r == outProcQ(m, tp, p)  k == Len(s)  L == QueueLocs(tp, Range(s))
<1>1. CASE s = <<>>
  <2>1. r = Returns(m, NULL) /\ Range(s) = {}
    BY <1>1, RangeEmpty DEF outProcQ, Ring
  <2>2. Without(s, {p}) = s
    BY <2>1, WithoutNone
  <2>3. Changes(m, m, L)
    BY DEF Changes, IsMemory
  <2> QED
    BY <2>1, <2>2, <2>3 DEF Returns
<1>2. CASE s # <<>>
  <2>1. /\ k \in Nat /\ k > 0 /\ k \in 1 .. k /\ Head(s) = s[1]
        /\ \A j \in 1 .. k : s[j] \in Pcb /\ s[j] \in Range(s)
        /\ \A j, h \in 1 .. k : s[j] = s[h] => j = h
        /\ Range(s) = {s[j] : j \in 1 .. k}
    BY <1>2, RangeOf DEF IsInjective
  <2>2. m[tp] = s[k] /\ s[k] # NULL /\ m[next(s[k])] = s[1] /\ s[1] # p
    BY <1>2, <2>1, BlockAssumption DEF Ring
  <2>3. CASE p \notin Range(s)
    <3>1. ~ InTheMiddle(m, tp, p) /\ s[k] # p
      BY <1>2, <2>1, <2>3, RingMiddle
    <3>2. r = Returns(m, NULL)
      BY <2>2, <3>1 DEF outProcQ
    <3>3. Without(s, {p}) = s
      BY <2>3, WithoutNone
    <3>4. Changes(m, m, L)
      BY DEF Changes, IsMemory
    <3> QED
      BY <2>3, <3>2, <3>3, <3>4 DEF Returns
  <2>4. CASE p \in Range(s)
    <3>1. PICK i \in 1 .. k : p = s[i]
      BY <2>1, <2>4
    <3>2. i \in 2 .. k /\ i - 1 \in 1 .. k
      BY <2>1, <2>2, <3>1
    <3> DEFINE after == IF i = k THEN s[1] ELSE s[i + 1]  before == s[i - 1]
    <3>3. /\ m[next(p)] = after /\ m[prev(p)] = before /\ after \in Pcb /\ before \in Pcb
          /\ after \in Range(s) /\ before \in Range(s)
      BY <2>1, <3>1, <3>2 DEF Ring
    <3> HIDE DEF after, before
    <3>4. Unlinked(m, p) = [m EXCEPT ![next(before)] = after, ![prev(after)] = before]
      BY <3>3 DEF Unlinked
    <3>5. /\ r.ptr = p
          /\ r.mem = IF i = k THEN [m EXCEPT ![next(before)] = after, ![prev(after)] = before,
                                             ![tp] = before]
                     ELSE [m EXCEPT ![next(before)] = after, ![prev(after)] = before]
      <4>1. CASE i = k
        <5>1. r = Returns([Unlinked(m, p) EXCEPT ![tp] = before], p)
          BY <2>2, <3>1, <3>3, <4>1 DEF outProcQ
        <5> QED
          BY <3>4, <4>1, <5>1 DEF Returns
      <4>2. CASE i # k
        <5>1. i \in 2 .. k - 1 /\ s[k] # p
          BY <2>1, <3>1, <3>2, <4>2
        <5>2. InTheMiddle(m, tp, p)
          BY <1>2, <3>1, <5>1, RingMiddle
        <5>3. r = Returns(Unlinked(m, p), p)
          BY <2>2, <5>1, <5>2 DEF outProcQ
        <5> QED
          BY <3>4, <4>2, <5>3 DEF Returns
      <4> QED
        BY <4>1, <4>2
    <3> DEFINE n == r.mem
    <3>6. /\ \A x \in Pcb : next(x) \in DOMAIN m /\ prev(x) \in DOMAIN m
          /\ tp \in DOMAIN m
      BY LocationFacts
    <3>7. {tp, next(before), prev(after)} \subseteq L
      BY <3>3 DEF QueueLocs, next, prev
    <3> HIDE DEF n, L, r
    <3>8. /\ n[tp] = IF i = k THEN before ELSE s[k]
          /\ n[next(before)] = after /\ n[prev(after)] = before
          /\ \A x \in Range(s) \ {before} : n[next(x)] = m[next(x)]
          /\ \A x \in Range(s) \ {after} : n[prev(x)] = m[prev(x)]
      <4>1. Range(s) \subseteq Pcb
        BY RangeOf
      <4>2. CASE i = k
        <5>1. n = [m EXCEPT ![next(before)] = after, ![prev(after)] = before, ![tp] = before]
          BY <3>5, <4>2 DEF n
        <5> QED
          BY <3>3, <3>6, <4>1, <4>2, <5>1 DEF next, prev, tail
      <4>3. CASE i # k
        <5>1. n = [m EXCEPT ![next(before)] = after, ![prev(after)] = before]
          BY <3>5, <4>3 DEF n
        <5> QED
          BY <2>2, <3>3, <3>6, <4>1, <4>3, <5>1 DEF next, prev, tail
      <4> QED
        BY <4>2, <4>3
    <3>9. Changes(m, n, L)
      <4>1. n = [l \in DOMAIN m |-> n[l]]
        BY <3>5 DEF n
      <4>2. \A l \in DOMAIN m : n[l] = m[l] \/ (l \in L /\ n[l] \in Pcb \cup {NULL})
        BY <3>3, <3>5, <3>7 DEF n
      <4> QED
        BY <4>1, <4>2 DEF Changes
    <3>10. Without(s, {p}) = Omit(s, i)
      BY <3>1, WithoutMember
    <3>11. Ring(n, tp, Omit(s, i))
      BY <3>2, <3>8, OmitRing DEF after, before
    <3> QED
      BY <2>4, <3>5, <3>9, <3>10, <3>11 DEF n, r, L
  <2> QED
    BY <2>3, <2>4
<1> QED
  BY <1>1, <1>2

(* outProcQ of the head calls removeProcQ with the wrong location: the links  *)
(* of the queue change, and lead from the tail to the head still, or nowhere. *)
LEMMA OutHeadLinks ==
  ASSUME NEW m, IsMemory(m), NEW q \in ProcQ,
         NEW s \in Seq(Pcb), IsInjective(s), s # <<>>, Ring(m, tail(q), s)
  PROVE  LET r == outProcQ(m, tail(q), Head(s)) IN
         /\ r.mem[tail(q)] = s[Len(s)] /\ s[Len(s)] \in Pcb
         /\ r.mem[next(s[Len(s)])] \in {NULL, Head(s)}
         /\ r.ptr \in Range(s)
         /\ Changes(m, r.mem, {"p_next", "p_prev"} \X Range(s))
<1> DEFINE tp == tail(q)  k == Len(s)  last == s[k]  head == s[1]
           r == outProcQ(m, tp, head)  n == r.mem  L == {"p_next", "p_prev"} \X Range(s)
<1>1. /\ k \in Nat /\ k > 0 /\ Head(s) = head
      /\ \A i \in 1 .. k : s[i] \in Pcb /\ s[i] \in Range(s)
      /\ \A i, j \in 1 .. k : s[i] = s[j] => i = j
  BY RangeOf DEF IsInjective
<1>2. /\ m[tp] = last /\ last # NULL /\ m[next(last)] = head /\ head # NULL
      /\ {last, head} \subseteq Pcb /\ {last, head} \subseteq Range(s)
  BY <1>1, BlockAssumption DEF Ring
<1>3. /\ \A x \in Pcb : {next(x), prev(x)} \subseteq DOMAIN m
      /\ \A x \in Range(s) : {next(x), prev(x)} \subseteq L
      /\ tp \in DOMAIN m /\ \A x : tp # next(x) /\ tp # prev(x)
      /\ \A x, y : next(x) # prev(y) /\ (next(x) = next(y) => x = y)
  BY LocationFacts DEF next, prev, tail
<1>4. r = removeProcQ(m, next(last))
  BY <1>2 DEF outProcQ
<1>5. CASE k = 1
  <2>1. head = last
    BY <1>5
  <2> HIDE DEF last, head, L
  <2>2. r = Returns([m EXCEPT ![next(last)] = NULL], last)
    BY <1>2, <1>4, <2>1 DEF removeProcQ
  <2>3. n = [m EXCEPT ![next(last)] = NULL] /\ r.ptr = last
    BY <2>2 DEF Returns
  <2> HIDE DEF n, r, tp
  <2>4. n[tp] = last /\ n[next(last)] = NULL
    BY <1>2, <1>3, <2>3
  <2>5. Changes(m, n, L)
    BY <1>2, <1>3, <2>3 DEF Changes
  <2> QED
    BY <1>1, <1>2, <2>3, <2>4, <2>5 DEF n, r, tp, last, L
<1>6. CASE k > 1
  <2> DEFINE second == s[2]  third == m[next(second)]
  <2>1. /\ head # last /\ second # head /\ m[next(head)] = second
        /\ second \in Pcb /\ second \in Range(s) /\ second # NULL
        /\ third \in Pcb /\ third \in Range(s)
    <3>1. 1 \in 1 .. k /\ 2 \in 1 .. k /\ k \in 1 .. k /\ 1 # k
      BY <1>1, <1>6
    <3>2. m[next(s[1])] = s[2]
      BY <3>1 DEF Ring
    <3>3. m[next(s[2])] = IF 2 = k THEN s[1] ELSE s[3]
      <4>1. m[next(s[2])] = IF 2 = k THEN s[1] ELSE s[2 + 1]
        BY <3>1 DEF Ring
      <4>2. 2 + 1 = 3
        OBVIOUS
      <4> HIDE DEF k
      <4> QED
        BY <4>1, <4>2
    <3>4. 2 # k => 3 \in 1 .. k
      <4>1. k \in Nat /\ k > 1
        BY <1>1, <1>6
      <4> HIDE DEF k
      <4> QED
        BY <4>1
    <3> QED
      BY <1>1, <3>1, <3>2, <3>3, <3>4, BlockAssumption
  <2> HIDE DEF second, third, last, head, L
  <2>2. r = IF second = head
            THEN Returns([m EXCEPT ![next(last)] = NULL], head)
            ELSE Returns([m EXCEPT ![prev(third)] = head, ![next(head)] = third], second)
    BY <1>2, <1>4, <2>1 DEF removeProcQ, third
  <2>3. n = [m EXCEPT ![prev(third)] = head, ![next(head)] = third] /\ r.ptr = second
    BY <2>1, <2>2 DEF Returns
  <2>4. {prev(third), next(head)} \subseteq DOMAIN m /\ {prev(third), next(head)} \subseteq L
    BY <1>2, <1>3, <2>1
  <2> HIDE DEF n, r, tp
  <2>5. n[tp] = last /\ n[next(last)] = head
    BY <1>2, <1>3, <2>1, <2>3
  <2>6. Changes(m, n, L)
    <3>1. n = [l \in DOMAIN m |-> n[l]]
      BY <2>3
    <3>2. \A l \in DOMAIN m : n[l] = m[l] \/ (l \in L /\ n[l] \in Pcb \cup {NULL})
      BY <1>2, <2>1, <2>3, <2>4
    <3> QED
      BY <3>1, <3>2 DEF Changes
  <2> QED
    BY <1>1, <1>2, <2>1, <2>3, <2>5, <2>6 DEF n, r, tp, last, L
<1>7. k = 1 \/ k > 1
  <2>1. k \in Nat /\ k > 0
    BY <1>1
  <2> HIDE DEF k
  <2> QED
    BY <2>1
<1> QED
  BY <1>5, <1>6, <1>7

(* Whatever is behind a tail pointer starts with what the tail links to. *)
LEMMA FirstOfQueue ==
  ASSUME NEW m, NEW tp, m[tp] # NULL
  PROVE  LET q == QueueAt(m, tp) IN 1 \in DOMAIN q /\ q[1] \in {NULL, m[next(m[tp])]}
<1> DEFINE q == QueueAt(m, tp)  met == Chase(m, "p_next", m[tp])  length == UpTo(met, m[tp])
<1>1. /\ DOMAIN met = 0 .. N + 2 /\ met[0] = m[tp]
      /\ \A i \in 1 .. N + 2 : met[i] = IF met[i - 1] = NULL THEN NULL
                                       ELSE m[<<"p_next", met[i - 1]>>]
  BY ChaseRec
<1> HIDE DEF met
<1>2. N + 2 \in Nat /\ N + 2 >= 1
  BY BlocksCount
<1>3. met[1] = m[next(m[tp])]
  BY <1>1, <1>2 DEF next
<1>4. length = 0 \/ length \in 1 .. N + 2
  <2>1. DOMAIN met \ {0} = 1 .. N + 2
    BY <1>1, <1>2
  <2>2. CASE \E n \in DOMAIN met \ {0} : met[n] = m[tp]
    <3> DEFINE M == {n \in Nat : n \in 1 .. N + 2 /\ met[n] = m[tp]}
    <3>1. M \in SUBSET Nat /\ M # {}
      BY <1>2, <2>1, <2>2
    <3> HIDE DEF M
    <3>2. PICK n \in M : \A j \in M : n <= j
      BY <3>1, LeastNat
    <3>3. /\ n \in DOMAIN met \ {0} /\ met[n] = m[tp]
          /\ \A i \in 1 .. n - 1 : met[i] # m[tp]
      <4>1. n \in 1 .. N + 2 /\ met[n] = m[tp] /\ n \in Nat
        BY <3>2 DEF M
      <4>2. ASSUME NEW i \in 1 .. n - 1, met[i] = m[tp] PROVE FALSE
        <5>1. i \in Nat /\ i \in 1 .. N + 2
          BY <1>2, <4>1
        <5>2. i \in M
          BY <4>2, <5>1 DEF M
        <5> QED
          BY <3>2, <4>1, <5>1, <5>2
      <4> QED
        BY <2>1, <4>1, <4>2
    <3>4. length = CHOOSE n_1 \in DOMAIN met \ {0} :
                      met[n_1] = m[tp] /\ \A i \in 1 .. n_1 - 1 : met[i] # m[tp]
      BY <2>2 DEF UpTo
    <3>5. length \in DOMAIN met \ {0}
      BY <3>3, <3>4
    <3> QED
      BY <2>1, <3>5
  <2>3. CASE ~ \E n \in DOMAIN met \ {0} : met[n] = m[tp]
    BY <2>3 DEF UpTo
  <2> QED
    BY <2>2, <2>3
<1> HIDE DEF length
<1>5. q = IF length = 0 THEN <<NULL>> ELSE [i \in 1 .. length |-> met[i]]
  BY DEF QueueAt, NoQueue, met, length
<1> HIDE DEF q
<1>6. CASE length = 0
  <2>1. q = <<NULL>>
    BY <1>5, <1>6
  <2> QED
    BY <2>1 DEF q
<1>7. CASE length \in 1 .. N + 2
  <2>1. length \in Nat /\ length # 0 /\ 1 \in 1 .. length
    BY <1>2, <1>7
  <2>2. q = [i \in 1 .. length |-> met[i]]
    BY <1>5, <2>1
  <2>3. 1 \in DOMAIN q /\ q[1] = met[1]
    BY <2>1, <2>2
  <2> QED
    BY <1>3, <2>3 DEF q
<1> QED
  BY <1>4, <1>6, <1>7 DEF q

(* A memory with the links outProcQ of the head p leaves does not hold the   *)
(* queue without p.                                                         *)
LEMMA HeadStays ==
  ASSUME NEW s \in Seq(Pcb), IsInjective(s), NEW p, NEW n, NEW tp,
         n[tp] # NULL, n[next(n[tp])] \in {NULL, p}
  PROVE  QueueAt(n, tp) # Without(s, {p})
<1> DEFINE q == QueueAt(n, tp)  t == Without(s, {p})
<1>1. 1 \in DOMAIN q /\ q[1] \in {NULL, p}
  BY FirstOfQueue
<1>2. t \in Seq(Pcb) /\ Range(t) = Range(s) \ {p}
  BY WithoutMembers
<1> HIDE DEF q, t
<1>3. 1 \in DOMAIN t => t[1] \in Range(t) /\ t[1] \in Pcb
  BY <1>2, RangeOf
<1> QED
  BY <1>1, <1>2, <1>3, BlockAssumption DEF q, t

------------------------------------------------------------------------------
(* The free list. *)

(* freePcb puts the block in front. *)
LEMMA FreeLinked ==
  ASSUME NEW m, IsMemory(m), NEW s \in Seq(Pcb), Linked(m, "p_next", FreeHead, s),
         NEW p \in Pcb, p \notin Range(s)
  PROVE  LET n == freePcb(m, p) IN
         /\ Linked(n, "p_next", FreeHead, <<p>> \o s)
         /\ Changes(m, n, {FreeHead, next(p)})
<1> DEFINE n == freePcb(m, p)  r == <<p>> \o s  k == Len(s)
<1>1. /\ r \in Seq(Pcb) /\ Len(r) = k + 1 /\ r[1] = p /\ k \in Nat
      /\ \A i \in 1 .. k : r[i + 1] = s[i] /\ s[i] \in Pcb /\ s[i] # p
  BY PrependMembers, RangeOf
<1>2. n = [m EXCEPT ![next(p)] = m[FreeHead], ![FreeHead] = p]
  BY DEF freePcb
<1>3. m[FreeHead] \in Pcb \cup {NULL}
  BY <1>1 DEF Linked
<1>4. FreeHead \in DOMAIN m /\ \A x \in Pcb : next(x) \in DOMAIN m
  BY LocationFacts
<1> HIDE DEF n, r, k
<1>5. /\ n[FreeHead] = p /\ n[next(p)] = m[FreeHead]
      /\ \A x \in Pcb \ {p} : n[next(x)] = m[next(x)]
  BY <1>2, <1>4 DEF next, FreeHead
<1>6. Changes(m, n, {FreeHead, next(p)})
  <2>1. n = [l \in DOMAIN m |-> n[l]]
    BY <1>2
  <2>2. \A l \in DOMAIN m : n[l] = m[l] \/ (l \in {FreeHead, next(p)} /\ n[l] \in Pcb \cup {NULL})
    BY <1>2, <1>3
  <2> QED
    BY <2>1, <2>2 DEF Changes
<1>7. ASSUME NEW i \in 1 .. k + 1
      PROVE  n[next(r[i])] = IF i = k + 1 THEN NULL ELSE r[i + 1]
  <2>1. CASE i = 1
    <3>1. m[FreeHead] = IF k = 0 THEN NULL ELSE s[1]
      BY DEF Linked, k
    <3>2. k # 0 => r[2] = s[1]
      BY <1>1
    <3> QED
      BY <1>1, <1>5, <2>1, <3>1, <3>2
  <2>2. CASE i # 1
    <3>1. i - 1 \in 1 .. k /\ r[i] = s[i - 1] /\ s[i - 1] \in Pcb \ {p}
      BY <1>1, <2>2
    <3>2. m[next(s[i - 1])] = IF i - 1 = k THEN NULL ELSE s[i]
      BY <3>1 DEF Linked, next, k
    <3>3. i # k + 1 => r[i + 1] = s[i]
      BY <1>1, <2>2
    <3> QED
      BY <1>1, <1>5, <3>1, <3>2, <3>3
  <2> QED
    BY <2>1, <2>2
<1>8. r # <<>>
  BY <1>1
<1> QED
  BY <1>1, <1>5, <1>6, <1>7, <1>8 DEF Linked, next, n, r

(* allocPcb takes the first block and resets its fields. *)
LEMMA AllocLinked ==
  ASSUME NEW m, IsMemory(m), NEW s \in Seq(Pcb), IsInjective(s), s # <<>>,
         Linked(m, "p_next", FreeHead, s)
  PROVE  LET r == allocPcb(m) IN
         /\ r.ptr = Head(s)
         /\ Linked(r.mem, "p_next", FreeHead, Tail(s))
         /\ Changes(m, r.mem, {FreeHead} \cup (Fields \X {Head(s)}))
         /\ \A l \in Fields \X {Head(s)} : r.mem[l] = NULL
<1> DEFINE r == allocPcb(m)  n == r.mem  k == Len(s)  p == s[1]
           second == IF k = 1 THEN NULL ELSE s[2]
           t == Tail(s)  L == {FreeHead} \cup (Fields \X {p})
<1>1. /\ k \in Nat /\ k > 0 /\ Head(s) = p
      /\ \A i \in 1 .. k : s[i] \in Pcb
      /\ \A i, j \in 1 .. k : s[i] = s[j] => i = j
  BY RangeOf DEF IsInjective
<1>2. /\ t \in Seq(Pcb) /\ Len(t) = k - 1
      /\ \A i \in 1 .. k - 1 : t[i] = s[i + 1]
  BY HeadTailProperties
<1>3. /\ m[FreeHead] = p /\ p \in Pcb /\ p # NULL /\ m[next(p)] = second
      /\ second \in Pcb \cup {NULL}
  <2>1. m[FreeHead] = p /\ p \in Pcb /\ p # NULL
    BY <1>1, BlockAssumption DEF Linked
  <2>c. k \in Nat /\ k > 0
    BY <1>1
  <2> HIDE DEF k
  <2>a. 1 \in 1 .. k /\ (k # 1 => 2 \in 1 .. k)
    BY <2>c
  <2>b. \A i \in 1 .. k : m[<<"p_next", s[i]>>] = IF i = k THEN NULL ELSE s[i + 1]
    BY DEF Linked, k
  <2>d. m[<<"p_next", s[1]>>] = IF 1 = k THEN NULL ELSE s[1 + 1]
    BY <2>a, <2>b, Zenon
  <2>2. m[<<"p_next", s[1]>>] = IF 1 = k THEN NULL ELSE s[2]
    BY <2>d
  <2>3. second \in Pcb \cup {NULL}
    BY <1>1, <2>a
  <2> QED
    BY <2>1, <2>2, <2>3 DEF next
<1>4. \A i \in 1 .. k : m[next(s[i])] = IF i = k THEN NULL ELSE s[i + 1]
  BY DEF Linked, next
<1> HIDE DEF k, t, second
<1>5. r = Returns([l \in DOMAIN m |->
                     IF l \in Fields \X {p} THEN NULL
                     ELSE [m EXCEPT ![FreeHead] = second][l]], p)
  BY <1>3 DEF allocPcb
<1>6. /\ r.ptr = p
      /\ n = [l \in DOMAIN m |-> IF l \in Fields \X {p} THEN NULL
                                 ELSE IF l = FreeHead THEN second ELSE m[l]]
  BY <1>5 DEF Returns
<1>7. /\ FreeHead \in DOMAIN m /\ FreeHead \notin Fields \X {p}
      /\ \A x \in Pcb : next(x) \in DOMAIN m /\ next(x) # FreeHead
      /\ \A x \in Pcb \ {p} : next(x) \notin Fields \X {p}
      /\ Fields \X {p} \subseteq DOMAIN m
  <2>1. Fields \X {p} \subseteq Locations
    BY <1>3 DEF Locations
  <2> QED
    BY <2>1, LocationFacts DEF Fields, FreeHead, next
<1> HIDE DEF n, r, L, p
<1>8. /\ n[FreeHead] = second
      /\ \A x \in Pcb \ {p} : n[next(x)] = m[next(x)]
      /\ \A l \in Fields \X {p} : n[l] = NULL
  BY <1>6, <1>7
<1>9. Changes(m, n, L)
  <2>1. n = [l \in DOMAIN m |-> n[l]]
    BY <1>6
  <2>2. \A l \in DOMAIN m : n[l] = m[l] \/ (l \in L /\ n[l] \in Pcb \cup {NULL})
    BY <1>3, <1>6 DEF L
  <2> QED
    BY <2>1, <2>2 DEF Changes
<1>10. ASSUME NEW i \in 1 .. k - 1
       PROVE  n[next(t[i])] = IF i = k - 1 THEN NULL ELSE t[i + 1]
  <2>1. i + 1 \in 1 .. k /\ t[i] = s[i + 1] /\ s[i + 1] \in Pcb \ {p}
    BY <1>1, <1>2 DEF p
  <2>2. n[next(s[i + 1])] = IF i + 1 = k THEN NULL ELSE s[(i + 1) + 1]
    BY <1>4, <1>8, <2>1
  <2>3. i # k - 1 => t[i + 1] = s[(i + 1) + 1]
    BY <1>1, <1>2
  <2> QED
    BY <1>1, <2>1, <2>2, <2>3
<1>11. n[FreeHead] = IF t = <<>> THEN NULL ELSE t[1]
  <2>1. t = <<>> <=> k = 1
    BY <1>1, <1>2
  <2>2. k # 1 => t[1] = s[2]
    BY <1>1, <1>2
  <2> QED
    BY <1>8, <2>1, <2>2 DEF second
<1>12. Linked(n, "p_next", FreeHead, t)
  BY <1>2, <1>10, <1>11 DEF Linked, next
<1> QED
  BY <1>1, <1>6, <1>8, <1>9, <1>12 DEF n, r, L, p, t

------------------------------------------------------------------------------
(* Children. *)

(* What Family says, with the names of the fields. *)
LEMMA FamilyFacts ==
  ASSUME NEW m, NEW par, NEW s
  PROVE  Family(m, par, s) <=>
           /\ m[child(par)] = IF s = <<>> THEN NULL ELSE s[1]
           /\ \A i \in 1 .. Len(s) :
                 /\ m[nextSib(s[i])] = IF i = Len(s) THEN NULL ELSE s[i + 1]
                 /\ m[prevSib(s[i])] = IF i = 1 THEN NULL ELSE s[i - 1]
                 /\ m[parent(s[i])] = par
BY DEF Family, Linked, nextSib

LEMMA FamilyLocations ==
  /\ \A x \in Pcb : {child(x), nextSib(x), prevSib(x), parent(x)} \subseteq Locations
  /\ \A m : IsMemory(m) => Locations \subseteq DOMAIN m
  /\ \A par, S : /\ child(par) \in FamilyLocs(par, S)
                 /\ \A x \in S : {nextSib(x), prevSib(x), parent(x)} \subseteq FamilyLocs(par, S)
BY LocationFacts DEF FamilyLocs, nextSib, prevSib, parent

(* insertChild puts a block that has no siblings in front. *)
LEMMA InsertFamily ==
  ASSUME NEW m, IsMemory(m), NEW par \in Pcb, NEW s \in Seq(Pcb), Family(m, par, s),
         IsInjective(s),
         NEW p \in Pcb, p \notin Range(s), m[nextSib(p)] = NULL, m[prevSib(p)] = NULL
  PROVE  LET n == insertChild(m, par, p) IN
         /\ Family(n, par, <<p>> \o s)
         /\ Changes(m, n, FamilyLocs(par, Range(s) \cup {p}))
<1> DEFINE n == insertChild(m, par, p)  r == <<p>> \o s  k == Len(s)
           L == FamilyLocs(par, Range(s) \cup {p})
<1>1. /\ Len(r) = k + 1 /\ r[1] = p /\ k \in Nat /\ r \in Seq(Pcb)
      /\ \A i \in 1 .. k : r[i + 1] = s[i] /\ s[i] \in Pcb /\ s[i] # p /\ s[i] \in Range(s)
      /\ \A i, j \in 1 .. k : s[i] = s[j] => i = j
  BY PrependMembers, RangeOf DEF IsInjective
<1>2. /\ m[child(par)] = IF k = 0 THEN NULL ELSE s[1]
      /\ \A i \in 1 .. k :
           /\ m[nextSib(s[i])] = IF i = k THEN NULL ELSE s[i + 1]
           /\ m[prevSib(s[i])] = IF i = 1 THEN NULL ELSE s[i - 1]
           /\ m[parent(s[i])] = par
  <2>1. s = <<>> <=> k = 0
    OBVIOUS
  <2> QED
    BY <2>1, FamilyFacts
<1>3. /\ \A x \in Pcb : {child(x), nextSib(x), prevSib(x), parent(x)} \subseteq DOMAIN m
      /\ child(par) \in L /\ {nextSib(p), prevSib(p), parent(p)} \subseteq L
      /\ \A i \in 1 .. k : {nextSib(s[i]), prevSib(s[i]), parent(s[i])} \subseteq L
  BY <1>1, FamilyLocations
<1>4. r # <<>>
  BY <1>1
<1> DEFINE first == s[1]
<1>5. /\ k = 0 => n = [m EXCEPT ![child(par)] = p, ![parent(p)] = par]
      /\ k # 0 => /\ first # p /\ first \in Pcb /\ first = s[1]
                  /\ n = [m EXCEPT ![prevSib(first)] = p, ![parent(p)] = par,
                                   ![nextSib(p)] = first, ![child(par)] = p]
  <2>1. k # 0 => 1 \in 1 .. k
    BY <1>1
  <2> HIDE DEF r, k, L
  <2>2. k = 0 => n = [m EXCEPT ![child(par)] = p, ![parent(p)] = par]
    BY <1>2 DEF insertChild, emptyChild
  <2>3. k # 0 => first # p /\ first \in Pcb /\ m[child(par)] = first /\ first # NULL
    BY <1>1, <1>2, <2>1, BlockAssumption
  <2> HIDE DEF first
  <2>4. k # 0 => n = [m EXCEPT ![prevSib(first)] = p, ![parent(p)] = par,
                               ![nextSib(p)] = first, ![child(par)] = p]
    BY <2>3 DEF insertChild, emptyChild
  <2> QED
    BY <2>2, <2>3, <2>4 DEF first
<1> HIDE DEF n, r, k, L, first
<1>6. /\ n[child(par)] = p /\ n[parent(p)] = par
      /\ n[nextSib(p)] = IF k = 0 THEN NULL ELSE first
      /\ n[prevSib(p)] = NULL
      /\ k # 0 => n[prevSib(first)] = p
      /\ \A x \in Pcb \ {p} : n[nextSib(x)] = m[nextSib(x)] /\ n[parent(x)] = m[parent(x)]
      /\ \A x \in Pcb \ {p} : (k # 0 => x # first) => n[prevSib(x)] = m[prevSib(x)]
  <2>1. CASE k = 0
    BY <1>3, <1>5, <2>1 DEF child, nextSib, prevSib, parent
  <2>2. CASE k # 0
    BY <1>3, <1>5, <2>2 DEF child, nextSib, prevSib, parent
  <2> QED
    BY <2>1, <2>2
<1>7. Changes(m, n, L)
  <2>1. n = [l \in DOMAIN m |-> n[l]]
    BY <1>5
  <2>2. CASE k = 0
    BY <1>3, <1>5, <2>1, <2>2 DEF Changes
  <2>3. CASE k # 0
    <3>1. prevSib(first) \in L
      <4>1. 1 \in 1 .. k
        BY <1>1, <2>3
      <4> QED
        BY <1>3, <1>5, <2>3, <4>1
    <3>2. \A l \in DOMAIN m : n[l] = m[l] \/ (l \in L /\ n[l] \in Pcb \cup {NULL})
      BY <1>3, <1>5, <2>3, <3>1
    <3> QED
      BY <2>1, <3>2 DEF Changes
  <2> QED
    BY <2>2, <2>3
<1>8. ASSUME NEW i \in 1 .. k + 1
      PROVE  /\ n[nextSib(r[i])] = IF i = k + 1 THEN NULL ELSE r[i + 1]
             /\ n[prevSib(r[i])] = IF i = 1 THEN NULL ELSE r[i - 1]
             /\ n[parent(r[i])] = par
  <2>1. CASE i = 1
    <3>1. k # 0 => r[2] = first
      <4>1. k # 0 => 1 \in 1 .. k /\ r[1 + 1] = s[1]
        BY <1>1
      <4> QED
        BY <1>5, <4>1
    <3> QED
      BY <1>1, <1>6, <2>1, <3>1
  <2>2. CASE i # 1
    <3>1. i - 1 \in 1 .. k /\ r[i] = s[i - 1] /\ s[i - 1] \in Pcb \ {p} /\ k # 0
      BY <1>1, <2>2
    <3>2. i # k + 1 => r[i + 1] = s[i]
      BY <1>1, <2>2
    <3>3. n[nextSib(r[i])] = IF i = k + 1 THEN NULL ELSE r[i + 1]
      BY <1>1, <1>2, <1>6, <3>1, <3>2
    <3>4. n[parent(r[i])] = par
      BY <1>2, <1>6, <3>1
    <3>5. CASE i = 2
      <4>1. r[i] = first /\ r[i - 1] = p
        BY <1>1, <3>1, <3>5 DEF first
      <4> QED
        BY <1>6, <2>2, <3>1, <3>3, <3>4, <4>1
    <3>6. CASE i # 2
      <4>1. i - 2 \in 1 .. k /\ r[i - 1] = s[i - 2] /\ s[i - 1] # first /\ i - 1 # 1
        BY <1>1, <2>2, <3>1, <3>6 DEF first
      <4>2. m[prevSib(s[i - 1])] = s[(i - 1) - 1]
        BY <1>2, <3>1, <4>1
      <4> QED
        BY <1>6, <2>2, <3>1, <3>3, <3>4, <4>1, <4>2
    <3> QED
      BY <2>2, <3>3, <3>4, <3>5, <3>6
  <2> QED
    BY <2>1, <2>2
<1>9. Family(n, par, r)
  BY <1>1, <1>4, <1>6, <1>8, FamilyFacts
<1> QED
  BY <1>7, <1>9 DEF n, r, L

(* removeChild takes the first child. *)
LEMMA RemoveFamily ==
  ASSUME NEW m, IsMemory(m), NEW par \in Pcb, NEW s \in Seq(Pcb), IsInjective(s), s # <<>>,
         Family(m, par, s)
  PROVE  LET r == removeChild(m, par) IN
         /\ r.ptr = Head(s)
         /\ Family(r.mem, par, Tail(s))
         /\ Changes(m, r.mem, FamilyLocs(par, Range(s)))
<1> DEFINE r == removeChild(m, par)  n == r.mem  k == Len(s)  t == Tail(s)
           p == s[1]  second == s[2]  L == FamilyLocs(par, Range(s))
<1>1. /\ k \in Nat /\ k > 0 /\ Head(s) = p
      /\ \A i \in 1 .. k : s[i] \in Pcb /\ s[i] \in Range(s)
      /\ \A i, j \in 1 .. k : s[i] = s[j] => i = j
  BY RangeOf DEF IsInjective
<1>2. /\ Len(t) = k - 1 /\ t \in Seq(Pcb)
      /\ \A i \in 1 .. k - 1 : t[i] = s[i + 1]
  BY HeadTailProperties
<1>3. /\ m[child(par)] = p
      /\ \A i \in 1 .. k :
           /\ m[nextSib(s[i])] = IF i = k THEN NULL ELSE s[i + 1]
           /\ m[prevSib(s[i])] = IF i = 1 THEN NULL ELSE s[i - 1]
           /\ m[parent(s[i])] = par
  BY FamilyFacts
<1>4. /\ \A x \in Pcb : {child(x), nextSib(x), prevSib(x), parent(x)} \subseteq DOMAIN m
      /\ child(par) \in L
      /\ \A i \in 1 .. k : {nextSib(s[i]), prevSib(s[i]), parent(s[i])} \subseteq L
  BY <1>1, FamilyLocations
<1> HIDE DEF k, t, L
<1>5. 1 \in 1 .. k /\ (k # 1 => 2 \in 1 .. k)
  <2>1. k \in Nat /\ k > 0
    BY <1>1
  <2> QED
    BY <2>1
<1>6. p \in Pcb /\ p # NULL /\ p = s[1]
  BY <1>1, <1>5, BlockAssumption
<1>a. k \in Nat /\ k > 0
  BY <1>1
<1> HIDE DEF p
<1>7. CASE k = 1
  <2>1. m[nextSib(p)] = NULL
    BY <1>3, <1>5, <1>6, <1>7
  <2>2. r = Returns([m EXCEPT ![parent(p)] = NULL, ![child(par)] = NULL,
                              ![nextSib(p)] = NULL, ![prevSib(p)] = NULL], p)
    BY <1>3, <1>6, <2>1 DEF removeChild, emptyChild
  <2>3. /\ n = [m EXCEPT ![parent(p)] = NULL, ![child(par)] = NULL,
                         ![nextSib(p)] = NULL, ![prevSib(p)] = NULL]
        /\ r.ptr = p
    BY <2>2 DEF Returns
  <2> HIDE DEF n, r
  <2>4. n[child(par)] = NULL
    BY <1>4, <2>3 DEF child, parent, nextSib, prevSib
  <2>5. t = <<>>
    BY <1>2, <1>7
  <2>6. Family(n, par, t)
    BY <2>4, <2>5, FamilyFacts
  <2>7. Changes(m, n, L)
    <3>1. n = [l \in DOMAIN m |-> n[l]]
      BY <2>3
    <3>2. {nextSib(p), prevSib(p), parent(p), child(par)} \subseteq L
      BY <1>4, <1>5, <1>6
    <3>3. \A l \in DOMAIN m : n[l] = m[l] \/ (l \in L /\ n[l] \in Pcb \cup {NULL})
      BY <2>3, <3>2
    <3> QED
      BY <3>1, <3>3 DEF Changes
  <2> QED
    BY <1>1, <2>3, <2>6, <2>7 DEF n, r, L, t
<1>8. CASE k # 1
  <2>1. /\ m[nextSib(p)] = second /\ second \in Pcb /\ second # NULL /\ second = s[2]
        /\ prevSib(second) \in L
    <3>1. m[nextSib(s[1])] = s[1 + 1]
      BY <1>3, <1>5, <1>8
    <3>2. second \in Pcb /\ prevSib(second) \in L
      BY <1>1, <1>4, <1>5, <1>8
    <3> QED
      BY <1>6, <3>1, <3>2, BlockAssumption
  <2> HIDE DEF second
  <2>2. r = Returns([m EXCEPT ![child(par)] = second, ![prevSib(second)] = NULL], p)
    BY <1>3, <1>6, <2>1 DEF removeChild, emptyChild
  <2>3. n = [m EXCEPT ![child(par)] = second, ![prevSib(second)] = NULL] /\ r.ptr = p
    BY <2>2 DEF Returns
  <2> HIDE DEF n, r
  <2>4. /\ n[child(par)] = second /\ n[prevSib(second)] = NULL
        /\ \A x \in Pcb : n[nextSib(x)] = m[nextSib(x)] /\ n[parent(x)] = m[parent(x)]
        /\ \A x \in Pcb \ {second} : n[prevSib(x)] = m[prevSib(x)]
    BY <1>4, <2>1, <2>3 DEF child, parent, nextSib, prevSib
  <2>5. Changes(m, n, L)
    <3>1. n = [l \in DOMAIN m |-> n[l]]
      BY <2>3
    <3>2. \A l \in DOMAIN m : n[l] = m[l] \/ (l \in L /\ n[l] \in Pcb \cup {NULL})
      BY <1>4, <2>1, <2>3
    <3> QED
      BY <3>1, <3>2 DEF Changes
  <2>6. ASSUME NEW i \in 1 .. k - 1
        PROVE  /\ n[nextSib(t[i])] = IF i = k - 1 THEN NULL ELSE t[i + 1]
               /\ n[prevSib(t[i])] = IF i = 1 THEN NULL ELSE t[i - 1]
               /\ n[parent(t[i])] = par
    <3>1. i + 1 \in 1 .. k /\ t[i] = s[i + 1] /\ s[i + 1] \in Pcb
      BY <1>a, <1>1, <1>2
    <3>2. n[nextSib(s[i + 1])] = IF i + 1 = k THEN NULL ELSE s[(i + 1) + 1]
      BY <1>3, <2>4, <3>1
    <3>3. i # k - 1 => t[i + 1] = s[(i + 1) + 1]
      BY <1>a, <1>2
    <3>4. n[nextSib(t[i])] = IF i = k - 1 THEN NULL ELSE t[i + 1]
      BY <1>a, <3>1, <3>2, <3>3
    <3>5. n[parent(t[i])] = par
      BY <1>3, <2>4, <3>1
    <3>6. CASE i = 1
      BY <2>1, <2>4, <3>1, <3>4, <3>5, <3>6
    <3>7. CASE i # 1
      <4>1. s[i + 1] # second
        BY <1>1, <1>5, <1>8, <2>1, <3>1, <3>7
      <4>2. m[prevSib(s[i + 1])] = s[(i + 1) - 1]
        BY <1>3, <3>1
      <4>3. t[i - 1] = s[(i + 1) - 1]
        BY <1>a, <1>2, <3>7
      <4> QED
        BY <2>4, <3>1, <3>4, <3>5, <3>7, <4>1, <4>2, <4>3
    <3> QED
      BY <3>6, <3>7
  <2>7. t # <<>> /\ t[1] = second
    BY <1>a, <1>2, <1>8, <2>1
  <2>8. Family(n, par, t)
    BY <1>2, <2>4, <2>6, <2>7, FamilyFacts
  <2> QED
    BY <1>1, <2>3, <2>5, <2>8 DEF n, r, L, t
<1> QED
  BY <1>7, <1>8 DEF n, r, L, t

(* outChild takes the last child; the first one is left to removeChild. *)
LEMMA OutLastFamily ==
  ASSUME NEW m, IsMemory(m), NEW par \in Pcb, NEW s \in Seq(Pcb), IsInjective(s),
         Len(s) > 1, Family(m, par, s)
  PROVE  LET r == outChild(m, s[Len(s)]) IN
         /\ r.ptr = s[Len(s)]
         /\ Family(r.mem, par, Without(s, {s[Len(s)]}))
         /\ Changes(m, r.mem, FamilyLocs(par, Range(s)))
<1> DEFINE k == Len(s)  p == s[k]  before == s[k - 1]  r == outChild(m, p)  n == r.mem
           t == Omit(s, k)  L == FamilyLocs(par, Range(s))
<1>1. /\ k \in Nat
      /\ \A i \in 1 .. k : s[i] \in Pcb /\ s[i] \in Range(s)
      /\ \A i, j \in 1 .. k : s[i] = s[j] => i = j
      /\ s = <<>> <=> k = 0
  BY RangeOf DEF IsInjective
<1>2. /\ Without(s, {p}) = t /\ t \in Seq(Pcb) /\ DOMAIN t = 1 .. k - 1
      /\ \A i \in 1 .. k - 1 : t[i] = IF i < k THEN s[i] ELSE s[i + 1]
  <2>1. k \in 1 .. Len(s)
    BY <1>1
  <2>2. Without(s, {p}) = t /\ t \in Seq(Pcb)
    BY <2>1, WithoutMember
  <2> QED
    BY <2>2 DEF Omit
<1>3. /\ m[child(par)] = IF k = 0 THEN NULL ELSE s[1]
      /\ \A i \in 1 .. k :
           /\ m[nextSib(s[i])] = IF i = k THEN NULL ELSE s[i + 1]
           /\ m[prevSib(s[i])] = IF i = 1 THEN NULL ELSE s[i - 1]
           /\ m[parent(s[i])] = par
  BY <1>1, FamilyFacts
<1>4. /\ \A x \in Pcb : {child(x), nextSib(x), prevSib(x), parent(x)} \subseteq DOMAIN m
      /\ \A i \in 1 .. k : {nextSib(s[i]), prevSib(s[i]), parent(s[i])} \subseteq L
  BY <1>1, FamilyLocations
<1>5. k > 1 /\ k \in Nat
  BY <1>1
<1>6. Len(t) \in Nat /\ 1 .. Len(t) = 1 .. k - 1
  BY <1>2
<1>b. p = s[k] /\ before = s[k - 1]
  OBVIOUS
<1> HIDE DEF k, t, L
<1>7. Len(t) = k - 1 /\ \A i \in 1 .. k - 1 : t[i] = s[i]
  BY <1>2, <1>5, <1>6
<1>8. 1 \in 1 .. k /\ k \in 1 .. k /\ k - 1 \in 1 .. k
  BY <1>5
<1>9. /\ p \in Pcb /\ before \in Pcb /\ before # p /\ s[1] # p
      /\ m[parent(p)] = par /\ m[child(par)] # p
      /\ m[nextSib(p)] = NULL /\ m[prevSib(p)] = before
      /\ {nextSib(before), prevSib(p), parent(p)} \subseteq L
  BY <1>1, <1>3, <1>4, <1>5, <1>8
<1>a. par # NULL
  BY BlockAssumption
<1> HIDE DEF p, before
<1>10. r = Returns([m EXCEPT ![nextSib(before)] = NULL, ![prevSib(p)] = NULL,
                             ![parent(p)] = NULL], p)
  BY <1>9, <1>a DEF outChild
<1>11. /\ n = [m EXCEPT ![nextSib(before)] = NULL, ![prevSib(p)] = NULL, ![parent(p)] = NULL]
       /\ r.ptr = p
  BY <1>10 DEF Returns
<1> HIDE DEF n, r
<1>12. /\ n[child(par)] = m[child(par)] /\ n[nextSib(before)] = NULL
       /\ \A x \in Pcb \ {before} : n[nextSib(x)] = m[nextSib(x)]
       /\ \A x \in Pcb \ {p} : n[prevSib(x)] = m[prevSib(x)] /\ n[parent(x)] = m[parent(x)]
  BY <1>4, <1>9, <1>11 DEF child, parent, nextSib, prevSib
<1>13. Changes(m, n, L)
  <2>1. n = [l \in DOMAIN m |-> n[l]]
    BY <1>11
  <2>2. \A l \in DOMAIN m : n[l] = m[l] \/ (l \in L /\ n[l] \in Pcb \cup {NULL})
    BY <1>9, <1>11
  <2> QED
    BY <2>1, <2>2 DEF Changes
<1>14. ASSUME NEW i \in 1 .. k - 1
       PROVE  /\ n[nextSib(t[i])] = IF i = k - 1 THEN NULL ELSE t[i + 1]
              /\ n[prevSib(t[i])] = IF i = 1 THEN NULL ELSE t[i - 1]
              /\ n[parent(t[i])] = par
  <2>1. i \in 1 .. k /\ t[i] = s[i] /\ s[i] \in Pcb /\ s[i] # p /\ i # k
    BY <1>1, <1>5, <1>7, <1>8, <1>b
  <2>2. n[prevSib(t[i])] = IF i = 1 THEN NULL ELSE t[i - 1]
    BY <1>3, <1>5, <1>7, <1>12, <2>1
  <2>3. n[parent(t[i])] = par
    BY <1>3, <1>12, <2>1
  <2>4. n[nextSib(t[i])] = IF i = k - 1 THEN NULL ELSE t[i + 1]
    <3>1. CASE i = k - 1
      BY <1>12, <1>b, <2>1, <3>1
    <3>2. CASE i # k - 1
      <4>1. s[i] # before
        BY <1>1, <1>8, <1>b, <2>1, <3>2
      <4>2. t[i + 1] = s[i + 1]
        BY <1>5, <1>7, <3>2
      <4> QED
        BY <1>3, <1>12, <2>1, <3>2, <4>1, <4>2
    <3> QED
      BY <3>1, <3>2
  <2> QED
    BY <2>2, <2>3, <2>4
<1>15. t # <<>> /\ t[1] = s[1]
  BY <1>5, <1>7
<1>16. n[child(par)] = s[1]
  BY <1>3, <1>5, <1>12
<1>17. Family(n, par, t)
  BY <1>7, <1>14, <1>15, <1>16, FamilyFacts
<1> QED
  BY <1>2, <1>11, <1>13, <1>17 DEF n, r, L, p, k

(* outChild of a block that is nobody's child. *)
LEMMA OutNoChild ==
  ASSUME NEW m, NEW p, m[parent(p)] = NULL
  PROVE  outChild(m, p) = Returns(m, NULL)
BY DEF outChild

(* outChild of a first child is removeChild, and of a middle child nothing. *)
LEMMA OutOtherFamily ==
  ASSUME NEW m, NEW par \in Pcb, NEW s \in Seq(Pcb), IsInjective(s), Family(m, par, s),
         NEW i \in 1 .. Len(s)
  PROVE  /\ i = 1 => outChild(m, s[i]) = removeChild(m, par)
         /\ i # 1 /\ i # Len(s) => outChild(m, s[i]) = Returns(m, Undefined)
<1>1. /\ m[child(par)] = s[1] /\ m[parent(s[i])] = par
      /\ m[nextSib(s[i])] = IF i = Len(s) THEN NULL ELSE s[i + 1]
  <2>1. s # <<>>
    OBVIOUS
  <2> QED
    BY <2>1, FamilyFacts
<1>2. par # NULL
  BY BlockAssumption
<1>3. CASE i = 1
  BY <1>1, <1>2, <1>3 DEF outChild
<1>4. CASE i # 1 /\ i # Len(s)
  <2>1. Len(s) \in Nat /\ \A a, b \in 1 .. Len(s) : s[a] = s[b] => a = b
    BY RangeOf DEF IsInjective
  <2>2. 1 \in 1 .. Len(s) /\ i + 1 \in 1 .. Len(s)
    BY <1>4, <2>1
  <2>3. s[1] # s[i] /\ s[i + 1] \in Pcb
    BY <1>4, <2>1, <2>2
  <2>4. s[i + 1] # NULL
    BY <2>3, BlockAssumption
  <2> QED
    BY <1>1, <1>2, <1>4, <2>3, <2>4 DEF outChild
<1> QED
  BY <1>3, <1>4

(* A function of pcb.c gives a value to the locations of its memory. *)
LEMMA PcbDomains ==
  ASSUME NEW m, NEW tp, NEW p, NEW q
  PROVE  /\ DOMAIN freePcb(m, p) = DOMAIN m
         /\ DOMAIN allocPcb(m).mem = DOMAIN m
         /\ DOMAIN insertProcQ(m, tp, p) = DOMAIN m
         /\ DOMAIN removeProcQ(m, tp).mem = DOMAIN m
         /\ DOMAIN outProcQ(m, tp, p).mem = DOMAIN m
         /\ DOMAIN insertChild(m, p, q) = DOMAIN m
         /\ DOMAIN removeChild(m, p).mem = DOMAIN m
         /\ DOMAIN outChild(m, p).mem = DOMAIN m
<1>1. DOMAIN freePcb(m, p) = DOMAIN m
  BY DEF freePcb
<1>2. DOMAIN allocPcb(m).mem = DOMAIN m
  BY DEF allocPcb, Returns
<1>3. DOMAIN insertProcQ(m, tp, p) = DOMAIN m
  BY DEF insertProcQ
<1>4. \A t : DOMAIN removeProcQ(m, t).mem = DOMAIN m
  BY DEF removeProcQ, Returns
<1>5. DOMAIN Unlinked(m, p) = DOMAIN m
  BY DEF Unlinked
<1>6. DOMAIN outProcQ(m, tp, p).mem = DOMAIN m
  BY <1>4, <1>5 DEF outProcQ, Returns
<1>7. DOMAIN insertChild(m, p, q) = DOMAIN m
  BY DEF insertChild
<1>8. \A x : DOMAIN removeChild(m, x).mem = DOMAIN m
  BY DEF removeChild, Returns
<1>9. DOMAIN outChild(m, p).mem = DOMAIN m
  BY <1>8 DEF outChild, Returns
<1> QED
  BY <1>1, <1>2, <1>3, <1>4, <1>6, <1>7, <1>8, <1>9

------------------------------------------------------------------------------
(* The initial lists. *)

(* An order of a set lists each of its members once. *)
LEMMA OrderFacts ==
  ASSUME NEW S, IsFiniteSet(S), NEW order \in Orders(S)
  PROVE  order \in Seq(S) /\ IsInjective(order) /\ Range(order) = S
         /\ Len(order) = Cardinality(S)
<1> DEFINE n == Cardinality(S)
<1>1. n \in Nat /\ IsFiniteSet(1 .. n) /\ Cardinality(1 .. n) = n
  <2>1. n \in Nat
    BY FS_CardinalityType
  <2> QED
    BY <2>1, FS_Interval
<1>2. order \in [1 .. n -> S] /\ \A x \in S : \E i \in 1 .. n : order[i] = x
  BY DEF Orders
<1> HIDE DEF n
<1>3. order \in Surjection(1 .. n, S)
  BY <1>2 DEF Surjection
<1>4. order \in Injection(1 .. n, S)
  BY <1>1, <1>3, FS_Surjection DEF n
<1>5. IsInjective(order) /\ Range(order) = S
  BY <1>2, <1>4 DEF Injection, IsInjective, Range
<1>6. order \in Seq(S) /\ Len(order) = n
  BY <1>1, <1>2
<1> QED
  BY <1>5, <1>6 DEF n

\* The locations of a list of things in S hold no list yet.
Blank(m, head, field, S) ==
    /\ head \in DOMAIN m \ ({field} \X S)
    /\ {field} \X S \subseteq DOMAIN m
    /\ \A x \in S : m[<<field, x>>] = NULL

(* Stacked links the members of order in this order. *)
LEMMA StackedLinked ==
  ASSUME NEW m, NEW head, NEW field, NEW S, Blank(m, head, field, S),
         NEW order \in Seq(S), IsInjective(order), order # <<>>
  PROVE  LET n == Stacked(m, head, field, order) IN
         /\ Linked(n, field, head, order)
         /\ n = [l \in DOMAIN m |-> n[l]]
         /\ \A l \in DOMAIN m \ ({head} \cup ({field} \X S)) : n[l] = m[l]
<1> DEFINE n == Stacked(m, head, field, order)  k == Len(order)
           At(l) == CHOOSE i \in 1 .. k : l = <<field, order[i]>>
<1>1. /\ k \in Nat /\ k > 0
      /\ \A i \in 1 .. k : order[i] \in S
      /\ \A i, j \in 1 .. k : order[i] = order[j] => i = j
  BY RangeOf DEF IsInjective
<1>2. n = [l \in DOMAIN m |->
             IF l = head THEN order[1]
             ELSE IF \E i \in 1 .. k - 1 : l = <<field, order[i]>> THEN order[At(l) + 1]
             ELSE m[l]]
  BY DEF Stacked
<1>3. ASSUME NEW i \in 1 .. k PROVE At(<<field, order[i]>>) = i
  BY <1>1
<1>a. /\ head \in DOMAIN m \ ({field} \X S)
      /\ {field} \X S \subseteq DOMAIN m
      /\ \A x \in S : m[<<field, x>>] = NULL
  BY DEF Blank
<1> HIDE DEF n, k, At
<1>4. n[head] = order[1]
  BY <1>2, <1>a
<1>5. ASSUME NEW i \in 1 .. k
      PROVE  n[<<field, order[i]>>] = IF i = k THEN NULL ELSE order[i + 1]
  <2> DEFINE l == <<field, order[i]>>
  <2>1. l \in DOMAIN m /\ l # head /\ m[l] = NULL
    BY <1>1, <1>a
  <2>2. CASE i = k
    <3>1. ~ \E j \in 1 .. k - 1 : l = <<field, order[j]>>
      BY <1>1, <2>2
    <3> QED
      BY <1>2, <2>1, <2>2, <3>1
  <2>3. CASE i # k
    <3>1. \E j \in 1 .. k - 1 : l = <<field, order[j]>>
      <4>1. i \in 1 .. k - 1
        BY <1>1, <2>3
      <4> QED
        BY <4>1
    <3>2. At(l) = i
      BY <1>3
    <3> HIDE DEF l
    <3>3. n[l] = order[i + 1]
      BY <1>2, <2>1, <3>1, <3>2
    <3> QED
      BY <2>3, <3>3 DEF l
  <2> QED
    BY <2>2, <2>3
<1>6. ASSUME NEW l \in DOMAIN m \ ({head} \cup ({field} \X S)) PROVE n[l] = m[l]
  <2>1. ~ \E i \in 1 .. k - 1 : l = <<field, order[i]>>
    BY <1>1
  <2> QED
    BY <1>2, <2>1
<1>7. n = [l \in DOMAIN m |-> n[l]]
  BY <1>2
<1>8. Linked(n, field, head, order)
  BY <1>4, <1>5 DEF Linked, k
<1> QED
  BY <1>6, <1>7, <1>8 DEF n
==============================================================================
