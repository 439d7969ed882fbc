----------------------------- MODULE QueueLemmas -----------------------------
(***************************************************************************)
(* What the operations on queues do to their members: the facts that the   *)
(* proofs about the nucleus cite.                                          *)
(***************************************************************************)
EXTENDS Queues, FiniteSetTheorems, SequenceTheorems, WellFoundedInduction, TLAPS

(* The members of a sequence are the values at its positions. *)
LEMMA RangeOf ==
  ASSUME NEW S, NEW q \in Seq(S)
  PROVE  /\ Range(q) = {q[i] : i \in 1 .. Len(q)}
         /\ Range(q) \subseteq S
         /\ DOMAIN q = 1 .. Len(q)
         /\ Len(q) \in Nat
BY DEF Range

(* The empty queue has no member. *)
LEMMA EmptyQueue == Range(<<>>) = {} /\ IsInjective(<<>>)
BY DEF Range, IsInjective

(* A queue is empty when it has no member. *)
LEMMA RangeEmpty ==
  ASSUME NEW S, NEW q \in Seq(S)
  PROVE  /\ Range(<<>>) = {}
         /\ Range(q) = {} <=> q = <<>>
         /\ IsInjective(<<>>)
<1>1. Range(<<>>) = {}
  BY DEF Range
<1>2. ASSUME Range(q) = {} PROVE q = <<>>
  <2>1. Len(q) = 0
    BY <1>2, RangeOf
  <2> QED
    BY <2>1
<1> QED
  BY <1>1, <1>2 DEF IsInjective

(* insertProcQ: one more member, at the tail. *)
LEMMA RangeAppend ==
  ASSUME NEW S, NEW q \in Seq(S), NEW x \in S
  PROVE  /\ Append(q, x) \in Seq(S)
         /\ Append(q, x) # <<>>
         /\ Range(Append(q, x)) = Range(q) \cup {x}
         /\ IsInjective(q) /\ x \notin Range(q) => IsInjective(Append(q, x))
<1> DEFINE r == Append(q, x)
<1>1. /\ r \in Seq(S)
      /\ Len(r) = Len(q) + 1
      /\ \A i \in 1 .. Len(q) : r[i] = q[i]
      /\ r[Len(q) + 1] = x
  BY AppendProperties
<1>a. /\ Range(q) = {q[i] : i \in 1 .. Len(q)}
      /\ Range(r) = {r[i] : i \in 1 .. Len(r)}
      /\ Len(q) \in Nat
  BY <1>1, RangeOf
<1> HIDE DEF r
<1>2. Range(r) = Range(q) \cup {x}
  <2>1. Range(r) \subseteq Range(q) \cup {x}
    <3> SUFFICES ASSUME NEW i \in 1 .. Len(r) PROVE r[i] \in Range(q) \cup {x}
      BY <1>a
    <3> QED
      BY <1>1, <1>a
  <2>2. Range(q) \subseteq Range(r)
    <3> SUFFICES ASSUME NEW i \in 1 .. Len(q) PROVE q[i] \in Range(r)
      BY <1>a
    <3>1. i \in 1 .. Len(r) /\ r[i] = q[i]
      BY <1>1, <1>a
    <3> QED
      BY <3>1, <1>a
  <2>3. x \in Range(r)
    <3>1. Len(q) + 1 \in 1 .. Len(r)
      BY <1>1, <1>a
    <3> QED
      BY <1>1, <1>a, <3>1
  <2> QED
    BY <2>1, <2>2, <2>3
<1>3. IsInjective(q) /\ x \notin Range(q) => IsInjective(r)
  BY <1>1, RangeOf DEF IsInjective
<1>4. r # <<>>
  BY <1>1, <1>a
<1> QED
  BY <1>1, <1>2, <1>3, <1>4 DEF r

(* removeProcQ: the head leaves. *)
LEMMA RangeTail ==
  ASSUME NEW S, NEW q \in Seq(S), q # <<>>, IsInjective(q)
  PROVE  /\ Tail(q) \in Seq(S)
         /\ Head(q) \in Range(q)
         /\ Head(q) \in S
         /\ Range(Tail(q)) = Range(q) \ {Head(q)}
         /\ IsInjective(Tail(q))
         /\ Len(Tail(q)) = Len(q) - 1
<1> DEFINE r == Tail(q)
<1>1. /\ r \in Seq(S)
      /\ Len(q) > 0
      /\ Len(r) = Len(q) - 1
      /\ \A i \in 1 .. Len(r) : r[i] = q[i + 1]
      /\ Head(q) = q[1]
  BY HeadTailProperties
<1>a. /\ Range(q) = {q[i] : i \in 1 .. Len(q)}
      /\ Range(r) = {r[i] : i \in 1 .. Len(r)}
      /\ DOMAIN q = 1 .. Len(q)
      /\ DOMAIN r = 1 .. Len(r)
      /\ Len(q) \in Nat
  BY <1>1, RangeOf
<1> HIDE DEF r
<1>2. Head(q) \in Range(q)
  BY <1>1, <1>a
<1>3. Range(r) = Range(q) \ {Head(q)}
  <2>1. Range(r) \subseteq Range(q) \ {Head(q)}
    <3> SUFFICES ASSUME NEW i \in 1 .. Len(r) PROVE r[i] \in Range(q) \ {Head(q)}
      BY <1>a
    <3>1. i + 1 \in 1 .. Len(q) /\ i + 1 # 1 /\ 1 \in 1 .. Len(q)
      BY <1>1, <1>a
    <3> QED
      BY <1>1, <1>a, <3>1 DEF IsInjective
  <2>2. ASSUME NEW y \in Range(q) \ {Head(q)} PROVE y \in Range(r)
    <3>1. PICK i \in 1 .. Len(q) : y = q[i]
      BY <1>a, <2>2
    <3>2. i # 1
      BY <1>1, <2>2, <3>1
    <3>3. i - 1 \in 1 .. Len(r) /\ r[i - 1] = q[i]
      BY <1>1, <1>a, <3>2
    <3> QED
      BY <1>a, <3>1, <3>3
  <2> QED
    BY <2>1, <2>2
<1>4. IsInjective(r)
  <2> SUFFICES ASSUME NEW i \in 1 .. Len(r), NEW j \in 1 .. Len(r), r[i] = r[j]
               PROVE  i = j
    BY <1>a DEF IsInjective
  <2>1. i + 1 \in 1 .. Len(q) /\ j + 1 \in 1 .. Len(q)
    BY <1>1, <1>a
  <2>2. r[i] = q[i + 1] /\ r[j] = q[j + 1]
    BY <1>1
  <2>3. \A x, y \in 1 .. Len(q) : q[x] = q[y] => x = y
    BY <1>a DEF IsInjective
  <2>4. i + 1 = j + 1
    BY <2>1, <2>2, <2>3
  <2> QED
    BY <2>4
<1>5. Head(q) \in S
  BY <1>2, RangeOf
<1> QED
  BY <1>1, <1>2, <1>3, <1>4, <1>5 DEF r

(* The pseudo-clock's waiters follow the ready queue. *)
LEMMA RangeConcat ==
  ASSUME NEW S, NEW q \in Seq(S), NEW r \in Seq(S)
  PROVE  /\ q \o r \in Seq(S)
         /\ Range(q \o r) = Range(q) \cup Range(r)
         /\ IsInjective(q) /\ IsInjective(r) /\ Range(q) \cap Range(r) = {}
              => IsInjective(q \o r)
<1> DEFINE c == q \o r
<1>1. /\ c \in Seq(S)
      /\ Len(c) = Len(q) + Len(r)
      /\ \A i \in 1 .. Len(c) : c[i] = IF i <= Len(q) THEN q[i] ELSE r[i - Len(q)]
  BY ConcatProperties
<1>a. /\ Range(q) = {q[i] : i \in 1 .. Len(q)}
      /\ Range(r) = {r[i] : i \in 1 .. Len(r)}
      /\ Range(c) = {c[i] : i \in 1 .. Len(c)}
      /\ Len(q) \in Nat
      /\ Len(r) \in Nat
  BY <1>1, RangeOf
<1> HIDE DEF c
<1>2. Range(c) = Range(q) \cup Range(r)
  <2>1. Range(c) \subseteq Range(q) \cup Range(r)
    <3> SUFFICES ASSUME NEW i \in 1 .. Len(c) PROVE c[i] \in Range(q) \cup Range(r)
      BY <1>a
    <3>1. CASE i <= Len(q)
      BY <1>1, <1>a, <3>1
    <3>2. CASE i > Len(q)
      <4>1. i - Len(q) \in 1 .. Len(r) /\ c[i] = r[i - Len(q)]
        BY <1>1, <1>a, <3>2
      <4> QED
        BY <1>a, <4>1
    <3> QED
      BY <1>a, <3>1, <3>2
  <2>2. Range(q) \subseteq Range(c)
    <3> SUFFICES ASSUME NEW i \in 1 .. Len(q) PROVE q[i] \in Range(c)
      BY <1>a
    <3>1. i \in 1 .. Len(c) /\ c[i] = q[i]
      BY <1>1, <1>a
    <3> QED
      BY <1>a, <3>1
  <2>3. Range(r) \subseteq Range(c)
    <3> SUFFICES ASSUME NEW i \in 1 .. Len(r) PROVE r[i] \in Range(c)
      BY <1>a
    <3>1. i + Len(q) \in 1 .. Len(c) /\ ~ (i + Len(q) <= Len(q))
      BY <1>1, <1>a
    <3>2. (i + Len(q)) - Len(q) = i
      BY <1>a
    <3>3. c[i + Len(q)] = r[(i + Len(q)) - Len(q)]
      BY <1>1, <3>1
    <3> QED
      BY <1>a, <3>1, <3>2, <3>3
  <2> QED
    BY <2>1, <2>2, <2>3
<1>3. ASSUME IsInjective(q), IsInjective(r), Range(q) \cap Range(r) = {}
      PROVE  IsInjective(c)
  <2> SUFFICES ASSUME NEW i \in 1 .. Len(c), NEW j \in 1 .. Len(c), c[i] = c[j]
               PROVE  i = j
    BY <1>1, RangeOf DEF IsInjective
  <2>1. Len(q) \in Nat /\ Len(r) \in Nat
    BY RangeOf
  <2>2. CASE i <= Len(q) /\ j <= Len(q)
    BY <1>1, <1>3, <2>1, <2>2, RangeOf DEF IsInjective
  <2>3. CASE i > Len(q) /\ j > Len(q)
    <3>1. i - Len(q) \in 1 .. Len(r) /\ j - Len(q) \in 1 .. Len(r)
      BY <1>1, <2>1, <2>3
    <3>2. r[i - Len(q)] = r[j - Len(q)]
      BY <1>1, <2>1, <2>3
    <3>3. i - Len(q) = j - Len(q)
      BY <1>3, <3>1, <3>2, RangeOf DEF IsInjective
    <3> QED
      BY <2>1, <3>3
  <2>4. ASSUME NEW k \in 1 .. Len(c), NEW l \in 1 .. Len(c), k <= Len(q), l > Len(q)
        PROVE  c[k] # c[l]
    <3>1. c[k] \in Range(q)
      BY <1>1, <2>1, <2>4, RangeOf
    <3>2. l - Len(q) \in 1 .. Len(r) /\ c[l] = r[l - Len(q)]
      BY <1>1, <2>1, <2>4
    <3>3. c[l] \in Range(r)
      BY <3>2, RangeOf
    <3> QED
      BY <1>3, <3>1, <3>3
  <2> QED
    BY <2>1, <2>2, <2>3, <2>4
<1> QED
  BY <1>1, <1>2, <1>3 DEF c

(* A queue without repetition is as long as it has members. *)
LEMMA InjectiveLen ==
  ASSUME NEW S, NEW q \in Seq(S), IsInjective(q)
  PROVE  IsFiniteSet(Range(q)) /\ Cardinality(Range(q)) = Len(q)
<1>1. IsFiniteSet(1 .. Len(q)) /\ Cardinality(1 .. Len(q)) = Len(q)
  <2>1. Len(q) \in Nat
    BY RangeOf
  <2> QED
    BY <2>1, FS_Interval
<1>2. q \in Bijection(1 .. Len(q), Range(q))
  <2>1. q \in [1 .. Len(q) -> Range(q)]
    BY RangeOf
  <2>2. \A y \in Range(q) : \E i \in 1 .. Len(q) : q[i] = y
    BY RangeOf
  <2>3. \A i, j \in 1 .. Len(q) : q[i] = q[j] => i = j
    BY RangeOf DEF IsInjective
  <2> QED
    BY <2>1, <2>2, <2>3, RangeOf DEF Bijection, Injection, Surjection, IsInjective
<1>3. ExistsBijection(1 .. Len(q), Range(q))
  BY <1>2 DEF ExistsBijection
<1> QED
  BY <1>1, <1>3, FS_Bijection

(* Every set of naturals that is not empty has a least element. *)
LEMMA LeastNat ==
  ASSUME NEW N \in SUBSET Nat, N # {}
  PROVE  \E n \in N : \A m \in N : n <= m
<1> DEFINE T == {1 .. n : n \in N}
<1>1. T \subseteq FiniteSubsetsOf(Nat)
  BY FS_Interval DEF FiniteSubsetsOf
<1>2. PICK x \in T : \A y \in T : <<y, x>> \notin StrictSubsetOrdering(Nat)
  <2>1. IsWellFoundedOn(StrictSubsetOrdering(Nat), FiniteSubsetsOf(Nat))
    BY FS_StrictSubsetOrderingWellFounded
  <2>2. T # {}
    OBVIOUS
  <2> QED
    BY <1>1, <2>1, <2>2, WFMin
<1>3. PICK n \in N : x = 1 .. n
  OBVIOUS
<1>4. ASSUME NEW m \in N, m < n PROVE FALSE
  <2>1. 1 .. m \in T
    OBVIOUS
  <2>2. 1 .. m \subseteq 1 .. n /\ 1 .. m # 1 .. n
    <3>1. n \in 1 .. n /\ n \notin 1 .. m
      BY <1>4
    <3> QED
      BY <1>4, <3>1
  <2>3. 1 .. m \in SUBSET Nat /\ 1 .. n \in SUBSET Nat
    OBVIOUS
  <2>4. <<1 .. m, x>> \in StrictSubsetOrdering(Nat)
    BY <1>3, <2>2, <2>3 DEF StrictSubsetOrdering
  <2> QED
    BY <1>2, <2>1, <2>4
<1> QED
  BY <1>4

(* r lists the members of q that are not in K in the order of q: what Without *)
(* chooses.                                                                   *)
Keeps(r, q, K) ==
  /\ r \in [1 .. Cardinality(Range(q) \ K) -> Range(q) \ K]
  /\ Range(r) = Range(q) \ K
  /\ \A i, j \in DOMAIN r : i < j =>
        \E k, l \in DOMAIN q : k < l /\ q[k] = r[i] /\ q[l] = r[j]

(* One more member at the tail of q, and the list of what is kept of it. *)
LEMMA KeepsStep ==
  ASSUME NEW S, NEW K, NEW q \in Seq(S), IsInjective(q), q # <<>>,
         NEW f \in Seq(S), Len(f) = Len(q) - 1, \A i \in 1 .. Len(f) : f[i] = q[i],
         NEW r0, Keeps(r0, f, K)
  PROVE  \E r : Keeps(r, q, K)
<1> DEFINE n == Len(q)  x == q[n]  m == Cardinality(Range(f) \ K)
<1>1. n \in Nat /\ n > 0 /\ n - 1 \in Nat
  BY RangeOf
<1>2. Len(f) = n - 1 /\ \A i \in 1 .. n - 1 : f[i] = q[i]
  OBVIOUS
<1>a. /\ Range(q) = {q[i] : i \in 1 .. n} /\ DOMAIN q = 1 .. n
      /\ Range(f) = {f[i] : i \in 1 .. n - 1} /\ DOMAIN f = 1 .. n - 1
  <2>1. Range(q) = {q[i] : i \in 1 .. n} /\ DOMAIN q = 1 .. n
    BY RangeOf
  <2>2. Range(f) = {f[i] : i \in 1 .. Len(f)} /\ DOMAIN f = 1 .. Len(f)
    BY RangeOf
  <2> QED
    BY <1>2, <2>1, <2>2
<1>3. IsInjective(f) /\ x \notin Range(f) /\ Range(q) = Range(f) \cup {x}
  <2>1. IsInjective(f)
    BY <1>1, <1>2, <1>a DEF IsInjective
  <2>2. x \notin Range(f)
    BY <1>1, <1>2, <1>a DEF IsInjective
  <2>3. Range(q) \subseteq Range(f) \cup {x}
    <3> SUFFICES ASSUME NEW i \in 1 .. n PROVE q[i] \in Range(f) \cup {x}
      BY <1>a
    <3>1. i = n \/ i \in 1 .. n - 1
      BY <1>1
    <3> QED
      BY <1>2, <1>a, <3>1
  <2>4. Range(f) \cup {x} \subseteq Range(q)
    <3>1. n \in 1 .. n /\ 1 .. n - 1 \subseteq 1 .. n
      BY <1>1
    <3> QED
      BY <1>2, <1>a, <3>1
  <2> QED
    BY <2>1, <2>2, <2>3, <2>4
<1>4. IsFiniteSet(Range(f) \ K) /\ m \in Nat
  <2>1. IsFiniteSet(Range(f))
    BY <1>2, <1>3, InjectiveLen
  <2>2. IsFiniteSet(Range(f) \ K)
    BY <2>1, FS_Difference
  <2> QED
    BY <2>2, FS_CardinalityType
<1>5. CASE x \in K
  <2>1. Range(q) \ K = Range(f) \ K
    BY <1>3, <1>5
  <2>2. ASSUME NEW i \in DOMAIN r0, NEW j \in DOMAIN r0, i < j
        PROVE  \E k, l \in DOMAIN q : k < l /\ q[k] = r0[i] /\ q[l] = r0[j]
    <3>1. PICK k \in DOMAIN f, l \in DOMAIN f : k < l /\ f[k] = r0[i] /\ f[l] = r0[j]
      BY <2>2 DEF Keeps
    <3>2. k \in DOMAIN q /\ l \in DOMAIN q /\ q[k] = r0[i] /\ q[l] = r0[j]
      BY <1>1, <1>2, <1>a, <3>1
    <3> QED
      BY <3>1, <3>2
  <2>3. Keeps(r0, q, K)
    BY <2>1, <2>2 DEF Keeps
  <2> QED
    BY <2>3
<1>6. CASE x \notin K
  <2> DEFINE r == [i \in 1 .. m + 1 |-> IF i <= m THEN r0[i] ELSE x]
  <2>1. Range(q) \ K = (Range(f) \ K) \cup {x} /\ x \notin Range(f) \ K
    BY <1>3, <1>6
  <2>2. Cardinality(Range(q) \ K) = m + 1
    BY <1>4, <2>1, FS_AddElement
  <2>3. /\ DOMAIN r0 = 1 .. m
        /\ Range(r0) = Range(f) \ K
        /\ Range(r0) = {r0[i] : i \in 1 .. m}
        /\ \A i \in 1 .. m : r0[i] \in Range(f) \ K
    BY DEF Keeps, Range
  <2> HIDE DEF m
  <2>4. /\ DOMAIN r = 1 .. m + 1
        /\ \A i \in 1 .. m : r[i] = r0[i]
        /\ r[m + 1] = x
        /\ Range(r) = {r[i] : i \in 1 .. m + 1}
    <3>1. m + 1 \in 1 .. m + 1 /\ ~ (m + 1 <= m) /\ 1 .. m \subseteq 1 .. m + 1
      BY <1>4
    <3>2. DOMAIN r = 1 .. m + 1
      OBVIOUS
    <3>3. Range(r) = {r[i] : i \in 1 .. m + 1}
      BY <3>2 DEF Range
    <3>4. r[m + 1] = x
      BY <3>1
    <3>5. \A i \in 1 .. m : r[i] = r0[i]
      BY <1>4, <3>1
    <3> QED
      BY <3>2, <3>3, <3>4, <3>5
  <2>a. 1 .. m + 1 = (1 .. m) \cup {m + 1}
    BY <1>4
  <2> HIDE DEF r
  <2>5. Range(r) = Range(q) \ K
    <3>1. ASSUME NEW i \in 1 .. m + 1 PROVE r[i] \in Range(q) \ K
      <4>1. CASE i \in 1 .. m
        BY <2>1, <2>3, <2>4, <4>1
      <4>2. CASE i = m + 1
        BY <2>1, <2>4, <4>2
      <4> QED
        BY <2>a, <4>1, <4>2
    <3>2. ASSUME NEW y \in Range(f) \ K PROVE y \in Range(r)
      <4>1. PICK i \in 1 .. m : r0[i] = y
        BY <2>3
      <4>2. i \in 1 .. m + 1 /\ r[i] = y
        BY <2>4, <2>a, <4>1
      <4> QED
        BY <2>4, <4>2
    <3>3. x \in Range(r)
      BY <2>4, <2>a
    <3> QED
      BY <2>1, <2>4, <3>1, <3>2, <3>3
  <2>6. r \in [1 .. m + 1 -> Range(q) \ K]
    <3>1. r = [i \in 1 .. m + 1 |-> r[i]]
      BY <2>4 DEF r
    <3>2. \A i \in 1 .. m + 1 : r[i] \in Range(q) \ K
      BY <2>4, <2>5
    <3> QED
      BY <3>1, <3>2
  <2>7. ASSUME NEW i \in 1 .. m + 1, NEW j \in 1 .. m + 1, i < j
        PROVE  \E k, l \in DOMAIN q : k < l /\ q[k] = r[i] /\ q[l] = r[j]
    <3>1. CASE j <= m
      <4>1. i \in 1 .. m /\ j \in 1 .. m
        BY <1>4, <2>7, <3>1
      <4>2. PICK k \in DOMAIN f, l \in DOMAIN f : k < l /\ f[k] = r0[i] /\ f[l] = r0[j]
        <5>1. i \in DOMAIN r0 /\ j \in DOMAIN r0
          BY <2>3, <4>1
        <5> QED
          BY <2>7, <5>1 DEF Keeps
      <4>3. k \in DOMAIN q /\ l \in DOMAIN q /\ q[k] = r0[i] /\ q[l] = r0[j]
        BY <1>1, <1>2, <1>a, <4>2
      <4> QED
        BY <2>4, <4>1, <4>2, <4>3
    <3>2. CASE j = m + 1
      <4>1. i \in 1 .. m
        BY <1>4, <2>7, <3>2
      <4>2. PICK k \in 1 .. n - 1 : f[k] = r0[i]
        BY <1>a, <2>3, <4>1
      <4>3. k \in DOMAIN q /\ n \in DOMAIN q /\ k < n /\ q[k] = r0[i]
        BY <1>1, <1>2, <1>a, <4>2
      <4> QED
        BY <2>4, <3>2, <4>1, <4>3
    <3> QED
      BY <1>4, <3>1, <3>2
  <2>8. Keeps(r, q, K)
    <3>1. r \in [1 .. Cardinality(Range(q) \ K) -> Range(q) \ K]
      BY <2>2, <2>6
    <3>2. ASSUME NEW i \in DOMAIN r, NEW j \in DOMAIN r, i < j
          PROVE  \E k, l \in DOMAIN q : k < l /\ q[k] = r[i] /\ q[l] = r[j]
      <4>1. i \in 1 .. m + 1 /\ j \in 1 .. m + 1
        BY <2>4
      <4> QED
        BY <2>7, <3>2, <4>1
    <3> QED
      BY <2>5, <3>1, <3>2 DEF Keeps
  <2> QED
    BY <2>8
<1> QED
  BY <1>5, <1>6

(* What is kept of a queue can be listed, whatever is taken out of it: a *)
(* shortest queue for which it could not be would have a shorter one.    *)
LEMMA KeepsExists ==
  ASSUME NEW S, NEW K, NEW q \in Seq(S), IsInjective(q)
  PROVE  \E r : Keeps(r, q, K)
<1> SUFFICES ASSUME ~ \E r : Keeps(r, q, K) PROVE FALSE
  OBVIOUS
<1> DEFINE Bad == {p \in Seq(S) : IsInjective(p) /\ ~ \E r : Keeps(r, p, K)}
           N == {Len(p) : p \in Bad}
<1>1. PICK n \in N : \A m \in N : n <= m
  <2>1. N \in SUBSET Nat
    BY RangeOf
  <2>2. q \in Bad
    OBVIOUS
  <2>3. N # {}
    BY <2>2
  <2> HIDE DEF N
  <2> QED
    BY <2>1, <2>3, LeastNat
<1>2. PICK p \in Bad : Len(p) = n
  OBVIOUS
<1>3. CASE p = <<>>
  <2>1. Range(p) \ K = {}
    BY <1>3, RangeEmpty
  <2>2. Cardinality(Range(p) \ K) = 0
    BY <2>1, FS_EmptySet
  <2>3. Keeps(<<>>, p, K)
    <3>1. <<>> \in [1 .. 0 -> {}]
      OBVIOUS
    <3>2. Range(<<>>) = {}
      BY DEF Range
    <3>3. DOMAIN <<>> = {}
      OBVIOUS
    <3> QED
      BY <2>1, <2>2, <3>1, <3>2, <3>3 DEF Keeps
  <2> QED
    BY <1>2, <2>3
<1>4. CASE p # <<>>
  <2> DEFINE f == [i \in 1 .. Len(p) - 1 |-> p[i]]
  <2>1. Len(p) \in Nat /\ Len(p) > 0
    BY <1>4, RangeOf
  <2>2. f \in Seq(S) /\ Len(f) = Len(p) - 1 /\ \A i \in 1 .. Len(p) - 1 : f[i] = p[i]
    <3>1. \A i \in 1 .. Len(p) - 1 : p[i] \in S
      BY <2>1
    <3>2. Len(p) - 1 \in Nat
      BY <2>1
    <3>3. f \in [1 .. Len(p) - 1 -> S]
      BY <3>1
    <3> QED
      BY <3>2, <3>3
  <2> HIDE DEF f
  <2>3. IsInjective(f)
    <3>1. DOMAIN f = 1 .. Len(p) - 1 /\ DOMAIN p = 1 .. Len(p)
      BY <2>2, RangeOf
    <3> QED
      BY <1>2, <2>1, <2>2, <3>1 DEF IsInjective
  <2>4. f \notin Bad
    BY <1>1, <1>2, <2>1, <2>2
  <2>5. PICK r0 : Keeps(r0, f, K)
    BY <2>2, <2>3, <2>4
  <2>6. \E r : Keeps(r, p, K)
    BY <1>4, <2>2, <2>5, KeepsStep
  <2> QED
    BY <1>2, <2>6
<1> QED
  BY <1>3, <1>4

(* Without lists what it keeps. *)
LEMMA WithoutKeeps ==
  ASSUME NEW S, NEW K, NEW q \in Seq(S), IsInjective(q)
  PROVE  Keeps(Without(q, K), q, K)
<1> DEFINE T == Range(q) \ K  r == Without(q, K)
<1>1. r = CHOOSE s \in [1 .. Cardinality(T) -> T] : Keeps(s, q, K)
  BY DEF Keeps, Without
<1>2. \E s \in [1 .. Cardinality(T) -> T] : Keeps(s, q, K)
  <2>1. PICK s : Keeps(s, q, K)
    BY KeepsExists
  <2>2. s \in [1 .. Cardinality(T) -> T]
    BY <2>1 DEF Keeps
  <2> QED
    BY <2>1, <2>2
<1> QED
  BY <1>1, <1>2

(* A list of what is kept has no repetition. *)
LEMMA KeepsInjective ==
  ASSUME NEW S, NEW K, NEW q \in Seq(S), IsInjective(q), NEW r, Keeps(r, q, K)
  PROVE  /\ IsInjective(r)
         /\ IsFiniteSet(Range(q) \ K)
         /\ Cardinality(Range(q) \ K) \in Nat
<1> DEFINE T == Range(q) \ K
<1>1. IsFiniteSet(T) /\ Cardinality(T) \in Nat
  <2>1. IsFiniteSet(Range(q))
    BY InjectiveLen
  <2>2. IsFiniteSet(T)
    BY <2>1, FS_Difference
  <2> QED
    BY <2>2, FS_CardinalityType
<1>2. r \in [1 .. Cardinality(T) -> T] /\ Range(r) = T
  BY DEF Keeps
<1>3. r \in Surjection(1 .. Cardinality(T), T)
  BY <1>2 DEF Surjection, Range
<1>4. IsFiniteSet(1 .. Cardinality(T)) /\ Cardinality(1 .. Cardinality(T)) = Cardinality(T)
  BY <1>1, FS_Interval
<1>5. r \in Injection(1 .. Cardinality(T), T)
  BY <1>3, <1>4, FS_Surjection
<1> QED
  BY <1>1, <1>2, <1>5 DEF Injection, IsInjective

(* There is one list of what is kept: two would first differ at a position *)
(* where each has a member that follows in the other.                      *)
LEMMA KeepsUnique ==
  ASSUME NEW S, NEW K, NEW q \in Seq(S), IsInjective(q),
         NEW r, Keeps(r, q, K), NEW t, Keeps(t, q, K)
  PROVE  r = t
<1> DEFINE T == Range(q) \ K  n == Cardinality(T)  D == {i \in 1 .. n : r[i] # t[i]}
<1>a. IsInjective(r) /\ IsInjective(t) /\ n \in Nat
  BY KeepsInjective
<1>b. r \in [1 .. n -> T] /\ t \in [1 .. n -> T] /\ Range(r) = T /\ Range(t) = T
  BY DEF Keeps
<1>c. /\ \A i, j \in DOMAIN r : i < j =>
           \E k, l \in DOMAIN q : k < l /\ q[k] = r[i] /\ q[l] = r[j]
      /\ \A i, j \in DOMAIN t : i < j =>
           \E k, l \in DOMAIN q : k < l /\ q[k] = t[i] /\ q[l] = t[j]
  BY DEF Keeps
<1> HIDE DEF T, n
<1>1. /\ r \in [1 .. n -> T] /\ t \in [1 .. n -> T]
      /\ IsInjective(r) /\ IsInjective(t) /\ n \in Nat
  BY <1>a, <1>b
<1>2. /\ \A x \in T : (\E i \in 1 .. n : r[i] = x) /\ (\E i \in 1 .. n : t[i] = x)
      /\ \A i, j \in 1 .. n : r[i] = r[j] => i = j
      /\ \A i, j \in 1 .. n : t[i] = t[j] => i = j
      /\ DOMAIN r = 1 .. n /\ DOMAIN t = 1 .. n
  BY <1>1, <1>b DEF Range, IsInjective
<1>3. /\ \A i, j \in 1 .. n : i < j =>
           \E k, l \in DOMAIN q : k < l /\ q[k] = r[i] /\ q[l] = r[j]
      /\ \A i, j \in 1 .. n : i < j =>
           \E k, l \in DOMAIN q : k < l /\ q[k] = t[i] /\ q[l] = t[j]
  BY <1>2, <1>c
<1>4. ASSUME D # {} PROVE FALSE
  <2>1. D \in SUBSET Nat
    BY <1>1
  <2>2. PICK i \in D : \A m \in D : i <= m
    BY <1>4, <2>1, LeastNat
  <2>3. i \in 1 .. n /\ r[i] # t[i] /\ r[i] \in T /\ t[i] \in T
    BY <1>1
  <2>4. \A m \in 1 .. n : m < i => r[m] = t[m]
    BY <1>1, <2>2
  <2> HIDE DEF D
  <2>5. PICK j \in 1 .. n : t[j] = r[i]
    BY <1>2, <2>3
  <2>6. i < j
    <3>1. j # i
      BY <2>3, <2>5
    <3>2. ~ (j < i)
      BY <1>2, <2>3, <2>4, <2>5, <3>1
    <3> QED
      BY <1>1, <2>3, <3>1, <3>2
  <2>7. PICK h \in 1 .. n : r[h] = t[i]
    BY <1>2, <2>3
  <2>8. i < h
    <3>1. h # i
      BY <2>3, <2>7
    <3>2. ~ (h < i)
      BY <1>2, <2>3, <2>4, <2>7, <3>1
    <3> QED
      BY <1>1, <2>3, <3>1, <3>2
  <2>9. PICK k \in DOMAIN q, l \in DOMAIN q : k < l /\ q[k] = r[i] /\ q[l] = t[i]
    BY <1>3, <2>3, <2>7, <2>8
  <2>10. PICK u \in DOMAIN q, v \in DOMAIN q : u < v /\ q[u] = t[i] /\ q[v] = r[i]
    BY <1>3, <2>3, <2>5, <2>6
  <2>11. k = v /\ l = u
    BY <2>9, <2>10 DEF IsInjective
  <2>12. DOMAIN q = 1 .. Len(q)
    BY RangeOf
  <2> QED
    BY <2>9, <2>10, <2>11, <2>12
<1>5. \A i \in 1 .. n : r[i] = t[i]
  BY <1>4
<1> QED
  BY <1>1, <1>5

(* What lists the members that are kept, in the order of q, is Without. *)
LEMMA WithoutIs ==
  ASSUME NEW S, NEW K, NEW q \in Seq(S), IsInjective(q), NEW t, Keeps(t, q, K)
  PROVE  Without(q, K) = t
BY WithoutKeeps, KeepsUnique

(* outProcQ of a block that is not in the queue. *)
LEMMA WithoutNone ==
  ASSUME NEW S, NEW K, NEW q \in Seq(S), IsInjective(q), Range(q) \cap K = {}
  PROVE  Without(q, K) = q
<1>1. Cardinality(Range(q) \ K) = Len(q) /\ Range(q) \ K = Range(q)
  <2>1. Range(q) \ K = Range(q)
    OBVIOUS
  <2> QED
    BY <2>1, InjectiveLen
<1>2. q \in [1 .. Len(q) -> Range(q)] /\ DOMAIN q = 1 .. Len(q)
  BY RangeOf
<1>3. Keeps(q, q, K)
  BY <1>1, <1>2 DEF Keeps
<1> QED
  BY <1>3, WithoutIs

(* The sequence q without its i-th member. *)
Omit(q, i) == [j \in 1 .. Len(q) - 1 |-> IF j < i THEN q[j] ELSE q[j + 1]]

(* outProcQ of the i-th block of the queue. *)
LEMMA WithoutMember ==
  ASSUME NEW S, NEW q \in Seq(S), IsInjective(q), NEW i \in 1 .. Len(q)
  PROVE  Without(q, {q[i]}) = Omit(q, i) /\ Omit(q, i) \in Seq(S)
<1> DEFINE n == Len(q)  r == Omit(q, i)  T == Range(q) \ {q[i]}
<1>1. /\ n \in Nat /\ n - 1 \in Nat /\ Range(q) = {q[k] : k \in 1 .. n}
      /\ DOMAIN q = 1 .. n /\ \A k \in 1 .. n : q[k] \in S
      /\ \A k, l \in 1 .. n : q[k] = q[l] => k = l
  BY RangeOf DEF IsInjective
<1>2. /\ DOMAIN r = 1 .. n - 1
      /\ \A j \in 1 .. n - 1 : r[j] = IF j < i THEN q[j] ELSE q[j + 1]
  BY DEF Omit
<1>3. \A j \in 1 .. n - 1 : \E k \in 1 .. n : /\ k # i /\ r[j] = q[k]
                                              /\ k = IF j < i THEN j ELSE j + 1
  BY <1>1, <1>2
<1>a. r = [j \in 1 .. n - 1 |-> r[j]]
  BY DEF Omit
<1> HIDE DEF n, r
<1>4. Cardinality(T) = n - 1
  <2>1. IsFiniteSet(Range(q)) /\ Cardinality(Range(q)) = n
    BY InjectiveLen DEF n
  <2>2. q[i] \in Range(q)
    BY <1>1 DEF n
  <2> QED
    BY <2>1, <2>2, FS_RemoveElement
<1>5. \A j \in 1 .. n - 1 : r[j] \in T
  BY <1>1, <1>3 DEF n
<1>6. Range(r) = T
  <2>1. Range(r) = {r[j] : j \in 1 .. n - 1}
    BY <1>2 DEF Range
  <2>2. ASSUME NEW x \in T PROVE \E j \in 1 .. n - 1 : r[j] = x
    <3>1. PICK k \in 1 .. n : q[k] = x /\ k # i
      BY <1>1 DEF n
    <3>2. CASE k < i
      <4>1. k \in 1 .. n - 1
        BY <1>1, <3>2 DEF n
      <4> QED
        BY <1>2, <3>1, <3>2, <4>1
    <3>3. CASE k > i
      <4>1. k - 1 \in 1 .. n - 1 /\ ~ (k - 1 < i) /\ (k - 1) + 1 = k
        BY <1>1, <3>3 DEF n
      <4> QED
        BY <1>2, <3>1, <4>1
    <3> QED
      BY <1>1, <3>1, <3>2, <3>3 DEF n
  <2> QED
    BY <1>5, <2>1, <2>2
<1>7. \A j, h \in 1 .. n - 1 : j < h =>
         \E k, l \in 1 .. n : k < l /\ q[k] = r[j] /\ q[l] = r[h]
  <2> SUFFICES ASSUME NEW j \in 1 .. n - 1, NEW h \in 1 .. n - 1, j < h
               PROVE  \E k, l \in 1 .. n : k < l /\ q[k] = r[j] /\ q[l] = r[h]
    OBVIOUS
  <2>1. PICK k \in 1 .. n : r[j] = q[k] /\ k = IF j < i THEN j ELSE j + 1
    BY <1>3
  <2>2. PICK l \in 1 .. n : r[h] = q[l] /\ l = IF h < i THEN h ELSE h + 1
    BY <1>3
  <2>3. k < l
    BY <1>1, <2>1, <2>2
  <2> QED
    BY <2>1, <2>2, <2>3
<1>8. r \in [1 .. n - 1 -> T]
  BY <1>5, <1>a
<1>9. Keeps(r, q, {q[i]})
  <2>1. r \in [1 .. Cardinality(T) -> T]
    BY <1>4, <1>8
  <2>2. \A j, h \in DOMAIN r : j < h =>
           \E k, l \in DOMAIN q : k < l /\ q[k] = r[j] /\ q[l] = r[h]
    <3>1. DOMAIN q = 1 .. n /\ DOMAIN r = 1 .. n - 1
      BY <1>1, <1>2 DEF n
    <3> QED
      BY <1>7, <3>1
  <2> QED
    BY <1>6, <2>1, <2>2 DEF Keeps
<1>10. r \in Seq(S)
  <2>1. r \in [1 .. n - 1 -> S]
    BY <1>1, <1>8, RangeOf
  <2> QED
    BY <1>1, <2>1
<1> QED
  BY <1>9, <1>10, WithoutIs DEF r

(* Without its head a sequence is its tail. *)
LEMMA WithoutHead ==
  ASSUME NEW S, NEW q \in Seq(S), IsInjective(q), q # <<>>
  PROVE  Without(q, {Head(q)}) = Tail(q)
<1>1. 1 \in 1 .. Len(q) /\ Head(q) = q[1]
  BY RangeOf
<1>2. Without(q, {q[1]}) = Omit(q, 1)
  BY <1>1, WithoutMember
<1>3. Omit(q, 1) = [j \in 1 .. Len(q) - 1 |-> q[j + 1]]
  BY DEF Omit
<1>4. /\ Tail(q) \in Seq(S) /\ Len(Tail(q)) = Len(q) - 1
      /\ \A j \in 1 .. Len(q) - 1 : Tail(q)[j] = q[j + 1]
  BY HeadTailProperties
<1> DEFINE t == Tail(q)
<1> HIDE DEF t
<1>5. t = [j \in 1 .. Len(t) |-> t[j]]
  <2>1. t \in Seq(S)
    BY <1>4 DEF t
  <2> QED
    BY <2>1
<1>6. Tail(q) = Omit(q, 1)
  <2>1. Len(t) = Len(q) - 1 /\ \A j \in 1 .. Len(q) - 1 : t[j] = q[j + 1]
    BY <1>4 DEF t
  <2>2. t = Omit(q, 1)
    BY <1>3, <1>5, <2>1
  <2> QED
    BY <2>2 DEF t
<1> QED
  BY <1>1, <1>2, <1>6

(* One more member at the head. *)
LEMMA PrependMembers ==
  ASSUME NEW S, NEW q \in Seq(S), NEW x \in S
  PROVE  /\ <<x>> \o q \in Seq(S)
         /\ Len(<<x>> \o q) = Len(q) + 1
         /\ (<<x>> \o q)[1] = x
         /\ \A i \in 1 .. Len(q) : (<<x>> \o q)[i + 1] = q[i]
         /\ Range(<<x>> \o q) = Range(q) \cup {x}
         /\ IsInjective(q) /\ x \notin Range(q) => IsInjective(<<x>> \o q)
<1> DEFINE one == <<x>>  r == one \o q
<1>1. /\ one \in Seq(S) /\ Len(one) = 1 /\ one[1] = x
      /\ Range(one) = {x} /\ IsInjective(one)
  BY DEF Range, IsInjective
<1> HIDE DEF one
<1>2. /\ r \in Seq(S) /\ Len(r) = 1 + Len(q)
      /\ \A i \in 1 .. Len(r) : r[i] = IF i <= 1 THEN one[i] ELSE q[i - 1]
  <2>1. /\ r \in Seq(S) /\ Len(r) = Len(one) + Len(q)
        /\ \A i \in 1 .. Len(r) : r[i] = IF i <= Len(one) THEN one[i] ELSE q[i - Len(one)]
    <3>1. one \in Seq(S)
      BY <1>1
    <3> QED
      BY <3>1, ConcatProperties
  <2> QED
    BY <1>1, <2>1
<1>3. /\ Range(r) = Range(one) \cup Range(q)
      /\ IsInjective(one) /\ IsInjective(q) /\ Range(one) \cap Range(q) = {}
           => IsInjective(r)
  BY <1>1, RangeConcat
<1>4. Len(q) \in Nat
  BY RangeOf
<1> HIDE DEF r
<1>5. r[1] = x /\ \A i \in 1 .. Len(q) : r[i + 1] = q[i]
  BY <1>1, <1>2, <1>4
<1> QED
  BY <1>1, <1>2, <1>3, <1>4, <1>5 DEF r, one

(* outProcQ, one member after the other: the rest of the queue remains. *)
LEMMA WithoutMembers ==
  ASSUME NEW S, NEW K, NEW q \in Seq(S), IsInjective(q)
  PROVE  /\ Without(q, K) \in Seq(S)
         /\ Range(Without(q, K)) = Range(q) \ K
         /\ IsInjective(Without(q, K))
<1> DEFINE T == Range(q) \ K  r == Without(q, K)
<1>1. Keeps(r, q, K)
  BY WithoutKeeps
<1> HIDE DEF r
<1>2. T \subseteq S /\ IsFiniteSet(T) /\ Cardinality(T) \in Nat
  <2>1. IsFiniteSet(Range(q))
    BY InjectiveLen
  <2>2. IsFiniteSet(T)
    BY <2>1, FS_Difference
  <2> QED
    BY <2>2, RangeOf, FS_CardinalityType
<1>3. r \in [1 .. Cardinality(T) -> T] /\ Range(r) = T
  BY <1>1 DEF Keeps
<1>4. r \in Seq(S)
  <2>1. r \in [1 .. Cardinality(T) -> S]
    BY <1>2, <1>3
  <2>2. ASSUME NEW n \in Nat, r \in [1 .. n -> S] PROVE r \in Seq(S)
    BY <2>2
  <2> QED
    BY <1>2, <2>1, <2>2
<1>5. r \in Surjection(1 .. Cardinality(T), T)
  BY <1>3 DEF Surjection, Range
<1>6. IsFiniteSet(1 .. Cardinality(T)) /\ Cardinality(1 .. Cardinality(T)) = Cardinality(T)
  BY <1>2, FS_Interval
<1>7. r \in Injection(1 .. Cardinality(T), T)
  BY <1>5, <1>6, FS_Surjection
<1>8. IsInjective(r)
  BY <1>7, <1>3 DEF Injection, IsInjective
<1> QED
  BY <1>3, <1>4, <1>8 DEF r

(* p and its descendants are the least set that holds p and is closed. *)
LEMMA DescendantsLeast ==
  ASSUME NEW S, NEW kids \in [S -> Seq(S)], NEW p \in S
  PROVE  /\ p \in Descendants(kids, p)
         /\ Descendants(kids, p) \subseteq S
         /\ ChildClosed(kids, Descendants(kids, p))
         /\ \A T \in SUBSET S : p \in T /\ ChildClosed(kids, T)
                                  => Descendants(kids, p) \subseteq T
<1> DEFINE D == Descendants(kids, p)
<1>1. p \in D
  BY DEF Descendants
<1>2. D \subseteq S
  BY DEF Descendants
<1>3. ASSUME NEW T \in SUBSET S, p \in T, ChildClosed(kids, T) PROVE D \subseteq T
  BY <1>3 DEF Descendants
<1>4. ChildClosed(kids, D)
  <2> SUFFICES ASSUME NEW x \in D, NEW y \in Range(kids[x]) PROVE y \in D
    BY DEF ChildClosed
  <2>1. y \in S
    BY <1>2, RangeOf
  <2> SUFFICES ASSUME NEW T \in SUBSET S, p \in T, ChildClosed(kids, T) PROVE y \in T
    BY <2>1 DEF Descendants
  <2>2. x \in T
    BY <1>3
  <2> QED
    BY <2>2 DEF ChildClosed
<1> QED
  BY <1>1, <1>2, <1>3, <1>4

(* Where a process is the child of one parent only, the parent of a proper *)
(* descendant is a descendant.                                             *)
LEMMA ParentOfDescendant ==
  ASSUME NEW S, NEW kids \in [S -> Seq(S)], NEW p \in S,
         \A a, b \in S : a # b => Range(kids[a]) \cap Range(kids[b]) = {},
         NEW y \in S, NEW x \in Range(kids[y]), x # p,
         x \in Descendants(kids, p)
  PROVE  y \in Descendants(kids, p)
<1> SUFFICES ASSUME y \notin Descendants(kids, p) PROVE FALSE
  OBVIOUS
<1> DEFINE D == Descendants(kids, p)  T == D \ {x}
<1>1. T \in SUBSET S /\ p \in T
  BY DescendantsLeast
<1>2. ChildClosed(kids, T)
  <2> SUFFICES ASSUME NEW z \in T, NEW w \in Range(kids[z]) PROVE w \in T
    BY DEF ChildClosed
  <2>1. w \in D
    BY DescendantsLeast DEF ChildClosed
  <2>2. z \in S /\ z # y
    BY DescendantsLeast
  <2>3. w # x
    BY <2>2
  <2> QED
    BY <2>1, <2>3
<1>3. \A U \in SUBSET S : p \in U /\ ChildClosed(kids, U) => D \subseteq U
  BY DescendantsLeast
<1>4. D \subseteq T
  BY <1>1, <1>2, <1>3
<1> QED
  BY <1>4

(* A proper descendant is the child of a descendant. *)
LEMMA DescendantHasParent ==
  ASSUME NEW S, NEW kids \in [S -> Seq(S)], NEW p \in S,
         NEW x \in Descendants(kids, p), x # p
  PROVE  \E y \in Descendants(kids, p) : x \in Range(kids[y])
<1> SUFFICES ASSUME \A y \in Descendants(kids, p) : x \notin Range(kids[y]) PROVE FALSE
  OBVIOUS
<1> DEFINE D == Descendants(kids, p)  T == D \ {x}
<1>1. T \in SUBSET S /\ p \in T
  BY DescendantsLeast
<1>2. ChildClosed(kids, T)
  BY DescendantsLeast DEF ChildClosed
<1>3. \A U \in SUBSET S : p \in U /\ ChildClosed(kids, U) => D \subseteq U
  BY DescendantsLeast
<1>4. D \subseteq T
  BY <1>1, <1>2, <1>3
<1> QED
  BY <1>4
===============================================================================
