----------------------------- MODULE NucleusProofs -----------------------------
(***************************************************************************)
(* Theorems about Nucleus, for every number of processes, semaphores and   *)
(* devices.  They all follow from IInv being inductive.                    *)
(***************************************************************************)
EXTENDS Nucleus, QueueLemmas

(* The members of Sem. *)
LEMMA SemFacts ==
  /\ Mutex \subseteq Sem /\ Semd \subseteq Sem /\ Device \subseteq Semd
  /\ Clock \in Semd /\ Clock \notin Device
  /\ \A s \in Mutex : s \notin Semd
  /\ \A s \in Sem : s \in Mutex \/ s \in Semd
BY SemAssumption DEF Sem, Semd

------------------------------------------------------------------------------
(* What scheduler() does, in the three respects the invariant speaks of. *)

(* scheduler() runs the head of the queue it is given, or nobody. *)
LEMMA SchedulerStep ==
  ASSUME NEW q \in Seq(Pcb), IsInjective(q), NEW count, NEW soft,
         Scheduler(q, count, soft)
  PROVE  /\ readyQ' \in Seq(Pcb) /\ IsInjective(readyQ')
         /\ currentProcess' \in Pcb \cup {NULL}
         /\ currentProcess' \notin Range(readyQ')
         /\ ({currentProcess'} \ {NULL}) \cup Range(readyQ') = Range(q)
         /\ processCount' = count /\ softBlockCount' = soft
         /\ \/ mode' = "run" /\ currentProcess' \in Pcb
            \/ /\ q = <<>> /\ readyQ' = <<>> /\ currentProcess' = NULL
               /\ mode' = CASE count = 0 -> "halt"
                            [] count > 0 /\ soft > 0 -> "wait"
                            [] count > 0 /\ soft = 0 -> "panic"
                            [] OTHER -> "returned"
<1>1. CASE q # <<>>
  <2>1. currentProcess' = Head(q) /\ readyQ' = Tail(q) /\ mode' = "run"
    BY <1>1 DEF Scheduler
  <2>2. /\ Tail(q) \in Seq(Pcb) /\ IsInjective(Tail(q))
        /\ Head(q) \in Range(q) /\ Head(q) \in Pcb
        /\ Range(Tail(q)) = Range(q) \ {Head(q)}
    BY <1>1, RangeTail
  <2>3. Head(q) # NULL
    BY <2>2, PcbAssumption
  <2> QED
    BY <2>1, <2>2, <2>3 DEF Scheduler
<1>2. CASE q = <<>>
  <2>1. Range(q) = {} /\ Range(<<>>) = {}
    BY <1>2, RangeEmpty
  <2>2. NULL \notin Pcb
    BY PcbAssumption
  <2> QED
    BY <1>2, <2>1, <2>2 DEF Scheduler
<1> QED
  BY <1>1, <1>2

(* An interrupted process is one of those done() passes to scheduler(). *)
LEMMA DoneStep ==
  ASSUME NEW q \in Seq(Pcb), IsInjective(q), NEW soft,
         currentProcess \in Pcb \cup {NULL}, currentProcess \notin Range(q),
         Done(q, soft)
  PROVE  \E r \in Seq(Pcb) :
            /\ IsInjective(r)
            /\ Range(r) = Running \cup Range(q)
            /\ Scheduler(r, processCount, soft)
<1>1. CASE currentProcess = NULL
  BY <1>1 DEF Done, Running
<1>2. CASE currentProcess # NULL
  <2>1. currentProcess \in Pcb
    BY <1>2
  <2>2. /\ Append(q, currentProcess) \in Seq(Pcb)
        /\ IsInjective(Append(q, currentProcess))
        /\ Range(Append(q, currentProcess)) = Range(q) \cup {currentProcess}
    BY <2>1, RangeAppend
  <2>3. Scheduler(Append(q, currentProcess), processCount, soft)
    BY <1>2 DEF Done
  <2>4. Running = {currentProcess}
    BY <1>2 DEF Running
  <2> QED
    BY <2>2, <2>3, <2>4
<1> QED
  BY <1>1, <1>2

(* Sets of processes are finite. *)
LEMMA PcbFinite ==
  ASSUME NEW S \in SUBSET Pcb
  PROVE  IsFiniteSet(S) /\ Cardinality(S) \in Nat
BY PcbAssumption, FS_Subset, FS_CardinalityType

(* A handler that ends in scheduler() keeps every part of the invariant that  *)
(* is about queues, counters and the mode, if the queue it passes and the     *)
(* waiters are the live processes and the counters it passes count them.      *)
LEMMA DispatchStep ==
  ASSUME NEW q \in Seq(Pcb), IsInjective(q), NEW count, NEW soft,
         Scheduler(q, count, soft),
         free' \in SUBSET Pcb,
         semQ' \in [Sem -> Seq(Pcb)],
         Live' = Range(q) \cup Blocked',
         Range(q) \cap Blocked' = {},
         \A s, t \in Sem : s # t => Range(semQ'[s]) \cap Range(semQ'[t]) = {},
         \A s \in Sem : IsInjective(semQ'[s]),
         count = Cardinality(Live'),
         soft = Cardinality(SoftBlocked')
  PROVE  /\ readyQ' \in Seq(Pcb) /\ currentProcess' \in Pcb \cup {NULL}
         /\ processCount' \in Int /\ softBlockCount' \in Int /\ mode' \in Modes
         /\ NoProcessLost' /\ CountsAgree' /\ VerdictIsRight' /\ ModeAgrees'
<1>1. /\ readyQ' \in Seq(Pcb) /\ IsInjective(readyQ')
      /\ currentProcess' \in Pcb \cup {NULL}
      /\ currentProcess' \notin Range(readyQ')
      /\ Running' \cup Range(readyQ') = Range(q)
      /\ processCount' = count /\ softBlockCount' = soft
      /\ \/ mode' = "run" /\ currentProcess' \in Pcb
         \/ /\ q = <<>> /\ readyQ' = <<>> /\ currentProcess' = NULL
            /\ mode' = CASE count = 0 -> "halt"
                         [] count > 0 /\ soft > 0 -> "wait"
                         [] count > 0 /\ soft = 0 -> "panic"
                         [] OTHER -> "returned"
  BY SchedulerStep DEF Running
<1>2. Blocked' \subseteq Pcb /\ SoftBlocked' \subseteq Pcb
  <2>1. \A s \in Sem : Range(semQ'[s]) \subseteq Pcb
    BY RangeOf
  <2> QED
    BY <2>1, SemFacts DEF Blocked, SoftBlocked
<1>3. count \in Nat /\ soft \in Nat
  <2>1. Live' \in SUBSET Pcb
    BY DEF Live
  <2> QED
    BY <1>2, <2>1, PcbFinite
<1>4. NoProcessLost'
  <2>1. NULL \notin Blocked'
    BY <1>2, PcbAssumption
  <2>2. currentProcess' \notin Blocked'
    BY <1>1, <2>1 DEF Running
  <2> QED
    BY <1>1, <2>2 DEF NoProcessLost
<1>5. CountsAgree'
  BY <1>1 DEF CountsAgree
<1>6. CASE mode' = "run" /\ currentProcess' \in Pcb
  <2>1. VerdictIsRight' /\ ModeAgrees' /\ mode' \in Modes
    BY <1>6 DEF VerdictIsRight, ModeAgrees, Modes
  <2> QED
    BY <1>1, <1>3, <1>4, <1>5, <2>1
<1>7. CASE /\ q = <<>> /\ readyQ' = <<>> /\ currentProcess' = NULL
           /\ mode' = CASE count = 0 -> "halt"
                        [] count > 0 /\ soft > 0 -> "wait"
                        [] count > 0 /\ soft = 0 -> "panic"
                        [] OTHER -> "returned"
  <2>1. \/ mode' = "halt" /\ count = 0
        \/ mode' = "wait" /\ count > 0 /\ soft > 0
        \/ mode' = "panic" /\ count > 0 /\ soft = 0
    BY <1>3, <1>7
  <2>2. Live' = Blocked'
    BY <1>7, RangeEmpty
  <2>3. ASSUME mode' = "halt" /\ count = 0
        PROVE  VerdictIsRight'
    <3>1. Live' = {}
      BY <2>3, PcbFinite, FS_EmptySet DEF Live
    <3>2. free' = Pcb
      BY <3>1 DEF Live
    <3> QED
      BY <2>3, <3>2 DEF VerdictIsRight
  <2>4. ASSUME mode' = "wait" /\ count > 0 /\ soft > 0
        PROVE  VerdictIsRight'
    <3>1. SoftBlocked' # {}
      <4> SUFFICES ASSUME SoftBlocked' = {} PROVE FALSE
        OBVIOUS
      <4>1. soft = 0
        BY FS_EmptySet, Zenon
      <4> QED
        BY <2>4, <4>1
    <3>2. \E s \in Semd : semQ'[s] # <<>>
      BY <3>1, RangeEmpty DEF SoftBlocked
    <3> QED
      BY <1>7, <2>4, <3>2 DEF VerdictIsRight
  <2>5. ASSUME mode' = "panic" /\ count > 0 /\ soft = 0
        PROVE  VerdictIsRight'
    <3>1. SoftBlocked' = {}
      BY <1>2, <2>5, PcbFinite, FS_EmptySet
    <3>2. Live' = UNION {Range(semQ'[s]) : s \in Mutex}
      <4>1. \A s \in Semd : Range(semQ'[s]) = {}
        BY <3>1 DEF SoftBlocked
      <4>2. Blocked' = UNION {Range(semQ'[s]) : s \in Sem}
        BY DEF Blocked
      <4>3. ASSUME NEW s \in Sem, NEW x \in Range(semQ'[s])
            PROVE  x \in UNION {Range(semQ'[t]) : t \in Mutex}
        BY <4>1, SemFacts
      <4>4. ASSUME NEW s \in Mutex, NEW x \in Range(semQ'[s])
            PROVE  x \in UNION {Range(semQ'[t]) : t \in Sem}
        BY SemFacts
      <4>5. UNION {Range(semQ'[s]) : s \in Sem} \subseteq UNION {Range(semQ'[t]) : t \in Mutex}
        BY <4>3
      <4>6. UNION {Range(semQ'[s]) : s \in Mutex} \subseteq UNION {Range(semQ'[t]) : t \in Sem}
        BY <4>4
      <4> QED
        BY <2>2, <4>2, <4>5, <4>6
    <3>3. free' # Pcb
      <4> SUFFICES ASSUME free' = Pcb PROVE FALSE
        OBVIOUS
      <4>1. Live' = {}
        BY DEF Live
      <4>2. count = 0
        BY <4>1, FS_EmptySet, Zenon
      <4> QED
        BY <2>5, <4>2
    <3> QED
      BY <2>5, <3>2, <3>3 DEF VerdictIsRight
  <2>6. VerdictIsRight'
    BY <2>1, <2>3, <2>4, <2>5
  <2>7. ModeAgrees' /\ mode' \in Modes
    BY <1>7, <2>1 DEF ModeAgrees, Modes
  <2> QED
    BY <1>1, <1>3, <1>4, <1>5, <2>6, <2>7
<1> QED
  BY <1>1, <1>6, <1>7

------------------------------------------------------------------------------
(* What a change to one queue of the active semaphore list does to the sets   *)
(* of waiters.                                                                *)

(* insertBlocked: one more waiter. *)
LEMMA OneMoreWaiter ==
  ASSUME semQ \in [Sem -> Seq(Pcb)], NoProcessLost,
         NEW s \in Sem, NEW x \in Pcb, x \notin Blocked,
         semQ' = [semQ EXCEPT ![s] = Append(@, x)]
  PROVE  /\ semQ' \in [Sem -> Seq(Pcb)]
         /\ Blocked' = Blocked \cup {x}
         /\ SoftBlocked' = IF s \in Semd THEN SoftBlocked \cup {x} ELSE SoftBlocked
         /\ \A t, u \in Sem : t # u => Range(semQ'[t]) \cap Range(semQ'[u]) = {}
         /\ \A t \in Sem : IsInjective(semQ'[t])
         /\ Len(semQ'[s]) = Len(semQ[s]) + 1
<1>1. /\ Append(semQ[s], x) \in Seq(Pcb)
      /\ Range(Append(semQ[s], x)) = Range(semQ[s]) \cup {x}
      /\ IsInjective(Append(semQ[s], x))
      /\ Len(Append(semQ[s], x)) = Len(semQ[s]) + 1
  <2>1. x \notin Range(semQ[s]) /\ IsInjective(semQ[s]) /\ semQ[s] \in Seq(Pcb)
    BY DEF Blocked, NoProcessLost
  <2> QED
    BY <2>1, RangeAppend
<1>2. \A t \in Sem : semQ'[t] = IF t = s THEN Append(semQ[s], x) ELSE semQ[t]
  OBVIOUS
<1>3. semQ' \in [Sem -> Seq(Pcb)]
  BY <1>1
<1>4. \A t \in Sem : Range(semQ'[t]) = IF t = s THEN Range(semQ[s]) \cup {x} ELSE Range(semQ[t])
  BY <1>1, <1>2
<1>5. Blocked' = Blocked \cup {x}
  BY <1>4 DEF Blocked
<1>6. SoftBlocked' = IF s \in Semd THEN SoftBlocked \cup {x} ELSE SoftBlocked
  BY <1>4, SemFacts DEF SoftBlocked
<1>7. \A t, u \in Sem : t # u => Range(semQ'[t]) \cap Range(semQ'[u]) = {}
  <2>1. \A t \in Sem : x \notin Range(semQ[t])
    BY DEF Blocked
  <2>2. \A t, u \in Sem : t # u => Range(semQ[t]) \cap Range(semQ[u]) = {}
    BY DEF NoProcessLost
  <2> QED
    BY <1>4, <2>1, <2>2
<1>8. \A t \in Sem : IsInjective(semQ'[t])
  BY <1>1, <1>2 DEF NoProcessLost
<1> QED
  BY <1>1, <1>2, <1>3, <1>5, <1>6, <1>7, <1>8

(* removeBlocked, once or until the queue is empty: some waiters less. *)
LEMMA FewerWaiters ==
  ASSUME semQ \in [Sem -> Seq(Pcb)], NoProcessLost,
         NEW s \in Sem, NEW r \in Seq(Pcb), IsInjective(r),
         NEW D, D \subseteq Range(semQ[s]), Range(r) = Range(semQ[s]) \ D,
         semQ' = [semQ EXCEPT ![s] = r]
  PROVE  /\ semQ' \in [Sem -> Seq(Pcb)]
         /\ Blocked' = Blocked \ D
         /\ SoftBlocked' = IF s \in Semd THEN SoftBlocked \ D ELSE SoftBlocked
         /\ \A t, u \in Sem : t # u => Range(semQ'[t]) \cap Range(semQ'[u]) = {}
         /\ \A t \in Sem : IsInjective(semQ'[t])
<1>1. \A t \in Sem : semQ'[t] = IF t = s THEN r ELSE semQ[t]
  OBVIOUS
<1>2. \A t, u \in Sem : t # u => Range(semQ[t]) \cap Range(semQ[u]) = {}
  BY DEF NoProcessLost
<1>3. \A t \in Sem : Range(semQ'[t]) = Range(semQ[t]) \ D
  <2>1. \A t \in Sem : t # s => Range(semQ[t]) \cap D = {}
    BY <1>2
  <2> QED
    BY <1>1, <2>1
<1>4. Blocked' = Blocked \ D
  BY <1>3 DEF Blocked
<1>5. SoftBlocked' = SoftBlocked \ D
  BY <1>3, SemFacts DEF SoftBlocked
<1>6. s \notin Semd => SoftBlocked \ D = SoftBlocked
  <2>1. s \notin Semd => \A t \in Semd : Range(semQ[t]) \cap D = {}
    BY <1>2, SemFacts
  <2> QED
    BY <2>1 DEF SoftBlocked
<1>7. \A t \in Sem : IsInjective(semQ'[t])
  BY <1>1 DEF NoProcessLost
<1> QED
  BY <1>2, <1>3, <1>4, <1>5, <1>6, <1>7

(* A process that runs does not wait, so the semaphores with waiters are fewer *)
(* than the processes: each has a first waiter of its own.  insertBlocked does *)
(* not run out of descriptors.                                                 *)
LEMMA DescriptorsSuffice ==
  ASSUME semQ \in [Sem -> Seq(Pcb)], NoProcessLost, currentProcess \in Pcb
  PROVE  Cardinality(ActiveSemd) < Cardinality(Pcb)
<1> DEFINE f == [s \in ActiveSemd |-> Head(semQ[s])]
           T == Pcb \ {currentProcess}
<1>1. ASSUME NEW s \in ActiveSemd
      PROVE  s \in Sem /\ f[s] \in Range(semQ[s]) /\ f[s] \in T
  <2>1. s \in Sem /\ semQ[s] # <<>> /\ IsInjective(semQ[s])
    BY DEF ActiveSemd, NoProcessLost
  <2>2. Head(semQ[s]) \in Range(semQ[s]) /\ Head(semQ[s]) \in Pcb
    BY <2>1, RangeTail
  <2>3. Head(semQ[s]) # currentProcess
    BY <2>1, <2>2 DEF NoProcessLost, Blocked
  <2> QED
    BY <2>1, <2>2, <2>3
<1>2. ASSUME NEW s \in ActiveSemd, NEW t \in ActiveSemd, f[s] = f[t] PROVE s = t
  BY <1>1, <1>2 DEF NoProcessLost
<1>3. f \in Injection(ActiveSemd, T)
  BY <1>1, <1>2 DEF Injection, IsInjective
<1>4. IsFiniteSet(T) /\ Cardinality(T) = Cardinality(Pcb) - 1 /\ Cardinality(Pcb) \in Nat
  BY PcbAssumption, PcbFinite, FS_RemoveElement
<1>5. IsFiniteSet(ActiveSemd) /\ Cardinality(ActiveSemd) <= Cardinality(T)
  BY <1>3, <1>4, FS_Injection
<1>6. Cardinality(ActiveSemd) \in Nat
  BY <1>5, FS_CardinalityType
<1> QED
  BY <1>4, <1>5, <1>6

------------------------------------------------------------------------------
(* The process tree. *)

(* Most handlers leave it alone. *)
LEMMA TreeKept ==
  ASSUME OneTree, RootIsNoChild, free' = free, kids' = kids
  PROVE  OneTree' /\ RootIsNoChild'
BY DEF OneTree, RootIsNoChild, Subtree, Live

(* The running process is alive, so the tree is not empty, holds the children *)
(* of its members, and a free block is nobody's child.                        *)
LEMMA LiveTree ==
  ASSUME TypeOK, NoProcessLost, OneTree, currentProcess \in Pcb
  PROVE  /\ currentProcess \in Live
         /\ RootPcb \in Live
         /\ Live \subseteq Pcb
         /\ free # Pcb
         /\ Live = Descendants(kids, RootPcb)
         /\ ChildClosed(kids, Live)
         /\ \A p \in Pcb : Range(kids[p]) \subseteq Live
<1>1. currentProcess \in Live
  <2>1. currentProcess # NULL
    BY PcbAssumption
  <2> QED
    BY <2>1 DEF NoProcessLost, Running
<1>2. free # Pcb
  BY <1>1 DEF Live
<1>3. Live = Descendants(kids, RootPcb)
  BY <1>2 DEF OneTree, Subtree
<1>4. kids \in [Pcb -> Seq(Pcb)] /\ RootPcb \in Pcb
  BY PcbAssumption DEF TypeOK
<1>5. RootPcb \in Live /\ ChildClosed(kids, Live)
  BY <1>3, <1>4, DescendantsLeast
<1>6. ASSUME NEW p \in Pcb PROVE Range(kids[p]) \subseteq Live
  <2>1. CASE p \in free
    BY <2>1, EmptyQueue DEF OneTree
  <2>2. CASE p \in Live
    BY <1>5, <2>2 DEF ChildClosed
  <2> QED
    BY <2>1, <2>2 DEF Live
<1> QED
  BY <1>1, <1>2, <1>3, <1>5, <1>6 DEF Live

(* insertChild: a free block becomes the first child of a live process. *)
Adopts(child) ==
  /\ free' = free \ {child}
  /\ kids' = [kids EXCEPT ![currentProcess] = <<child>> \o @, ![child] = <<>>]

LEMMA TreeGrows ==
  ASSUME TypeOK, NoProcessLost, OneTree, RootIsNoChild, currentProcess \in Pcb,
         NEW child \in free, Adopts(child)
  PROVE  OneTree' /\ RootIsNoChild' /\ kids' \in [Pcb -> Seq(Pcb)]
<1> DEFINE c == currentProcess
<1>1. /\ c \in Live /\ RootPcb \in Live /\ Live \subseteq Pcb
      /\ Live = Descendants(kids, RootPcb) /\ ChildClosed(kids, Live)
      /\ \A p \in Pcb : Range(kids[p]) \subseteq Live
  BY LiveTree
<1>2. kids \in [Pcb -> Seq(Pcb)] /\ child \in Pcb /\ free \subseteq Pcb
  BY DEF TypeOK
<1>3. child \notin Live /\ child # c /\ child # RootPcb
  BY <1>1 DEF Live
<1>4. /\ <<child>> \o kids[c] \in Seq(Pcb)
      /\ Range(<<child>> \o kids[c]) = {child} \cup Range(kids[c])
      /\ IsInjective(<<child>> \o kids[c])
  <2>1. <<child>> \in Seq(Pcb) /\ Range(<<child>>) = {child} /\ IsInjective(<<child>>)
    BY <1>2 DEF Range, IsInjective
  <2>2. kids[c] \in Seq(Pcb) /\ IsInjective(kids[c]) /\ child \notin Range(kids[c])
    BY <1>1, <1>2, <1>3 DEF OneTree
  <2>3. Range(<<child>>) \cap Range(kids[c]) = {}
    BY <2>1, <2>2
  <2> DEFINE one == <<child>>
  <2>4. one \in Seq(Pcb) /\ Range(one) = {child} /\ IsInjective(one)
        /\ Range(one) \cap Range(kids[c]) = {}
    BY <2>1, <2>3
  <2> HIDE DEF c, one
  <2>5. /\ one \o kids[c] \in Seq(Pcb)
        /\ Range(one \o kids[c]) = {child} \cup Range(kids[c])
        /\ IsInjective(one \o kids[c])
    BY <2>2, <2>4, RangeConcat
  <2> QED
    BY <2>5 DEF one
<1>5. \A p \in Pcb : kids'[p] = IF p = child THEN <<>>
                                ELSE IF p = c THEN <<child>> \o kids[c] ELSE kids[p]
  BY <1>2, <1>3 DEF Adopts
<1>6. kids' \in [Pcb -> Seq(Pcb)]
  <2>1. <<>> \in Seq(Pcb)
    OBVIOUS
  <2> QED
    BY <1>2, <1>4, <2>1 DEF Adopts
<1>7. /\ c \in Pcb /\ Range(kids'[c]) = {child} \cup Range(kids[c])
      /\ \A p \in Pcb : p # c => Range(kids'[p]) \subseteq Range(kids[p])
      /\ \A p \in Pcb : p # child => Range(kids[p]) \subseteq Range(kids'[p])
  BY <1>1, <1>3, <1>4, <1>5, EmptyQueue
<1>8. RootIsNoChild'
  BY <1>3, <1>7 DEF RootIsNoChild
<1>9. \A p, q \in Pcb : p # q => Range(kids'[p]) \cap Range(kids'[q]) = {}
  <2>1. \A p, q \in Pcb : p # q => Range(kids[p]) \cap Range(kids[q]) = {}
    BY DEF OneTree
  <2>2. \A p \in Pcb : child \notin Range(kids[p])
    BY <1>1, <1>3
  <2>3. \A q \in Pcb : q # c => Range(kids'[q]) \cap Range(kids'[c]) = {}
    BY <1>7, <2>1, <2>2
  <2>4. \A p, q \in Pcb : p # q /\ p # c /\ q # c =>
           Range(kids'[p]) \cap Range(kids'[q]) = {}
    BY <1>7, <2>1
  <2> QED
    BY <2>3, <2>4
<1>10. \A p \in Pcb : IsInjective(kids'[p])
  BY <1>4, <1>5, EmptyQueue DEF OneTree
<1>11. \A p \in free' : kids'[p] = <<>>
  BY <1>1, <1>2, <1>5 DEF OneTree, Live, Adopts
<1>12. Live' = Descendants(kids', RootPcb)
  <2>1. Live' = Live \cup {child}
    BY <1>2 DEF Live, Adopts
  <2>2. ChildClosed(kids', Live')
    <3>1. ASSUME NEW p \in Live' PROVE Range(kids'[p]) \subseteq Live'
      BY <1>1, <1>2, <1>7, <2>1
    <3> QED
      BY <3>1 DEF ChildClosed
  <2>3. Descendants(kids', RootPcb) \subseteq Live'
    <3>1. Live' \in SUBSET Pcb /\ RootPcb \in Live' /\ RootPcb \in Pcb
      BY <1>1, <1>2, <2>1
    <3> QED
      BY <1>6, <2>2, <3>1, DescendantsLeast
  <2>4. Live' \subseteq Descendants(kids', RootPcb)
    <3> DEFINE D == Descendants(kids', RootPcb)
    <3>1. RootPcb \in D /\ D \subseteq Pcb /\ ChildClosed(kids', D)
      BY <1>1, <1>6, DescendantsLeast
    <3> HIDE DEF D
    <3>2. ChildClosed(kids, D \ {child})
      <4> SUFFICES ASSUME NEW x \in D \ {child} PROVE Range(kids[x]) \subseteq D \ {child}
        BY DEF ChildClosed
      <4>1. x \in Pcb /\ Range(kids'[x]) \subseteq D
        BY <3>1 DEF ChildClosed
      <4> QED
        BY <1>1, <1>3, <1>7, <4>1
    <3>3. Live \subseteq D \ {child}
      <4>1. D \ {child} \in SUBSET Pcb /\ RootPcb \in D \ {child} /\ RootPcb \in Pcb
        BY <1>1, <1>3, <3>1
      <4>2. \A U \in SUBSET Pcb : RootPcb \in U /\ ChildClosed(kids, U)
               => Descendants(kids, RootPcb) \subseteq U
        BY <1>2, <4>1, DescendantsLeast
      <4> QED
        BY <1>1, <3>2, <4>1, <4>2
    <3>4. child \in D
      <4>1. c \in D /\ c \in Pcb
        BY <1>1, <3>3
      <4>2. Range(kids'[c]) \subseteq D
        BY <3>1, <4>1 DEF ChildClosed
      <4> QED
        BY <1>3, <1>7, <4>1, <4>2
    <3> QED
      BY <2>1, <3>3, <3>4 DEF D
  <2> QED
    BY <2>3, <2>4
<1> QED
  BY <1>6, <1>8, <1>9, <1>10, <1>11, <1>12 DEF OneTree, Subtree

(* What killEverything visits: the running process, live processes only, and  *)
(* with a process also its parent, up to the running process.                 *)
LEMMA Killed ==
  ASSUME TypeOK, NoProcessLost, OneTree, currentProcess \in Pcb,
         NEW K, K = Subtree(currentProcess)
  PROVE  /\ K \subseteq Live
         /\ currentProcess \in K
         /\ ChildClosed(kids, K)
         /\ \A y \in Pcb : \A x \in Range(kids[y]) :
               x \in K /\ x # currentProcess => y \in K
<1>1. kids \in [Pcb -> Seq(Pcb)] /\ K = Descendants(kids, currentProcess)
  BY DEF TypeOK, Subtree
<1>2. currentProcess \in K /\ ChildClosed(kids, K)
  BY <1>1, DescendantsLeast
<1>3. Live \in SUBSET Pcb /\ currentProcess \in Live /\ ChildClosed(kids, Live)
  BY LiveTree
<1>4. K \subseteq Live
  BY <1>1, <1>3, DescendantsLeast
<1>5. ASSUME NEW y \in Pcb, NEW x \in Range(kids[y]), x \in K, x # currentProcess
      PROVE  y \in K
  <2>1. \A a, b \in Pcb : a # b => Range(kids[a]) \cap Range(kids[b]) = {}
    BY DEF OneTree
  <2>2. y \in Descendants(kids, currentProcess)
    BY <1>1, <1>5, <2>1, ParentOfDescendant
  <2> QED
    BY <1>1, <2>2
<1> QED
  BY <1>2, <1>4, <1>5

(* killEverything: the running process and its descendants leave the tree. *)
LEMMA TreeShrinks ==
  ASSUME TypeOK, NoProcessLost, OneTree, RootIsNoChild, currentProcess \in Pcb,
         NEW K, K = Subtree(currentProcess), KillEverything(K)
  PROVE  OneTree' /\ RootIsNoChild' /\ kids' \in [Pcb -> Seq(Pcb)]
<1> DEFINE c == currentProcess
<1>1. /\ c \in Live /\ RootPcb \in Live /\ Live \subseteq Pcb
      /\ Live = Descendants(kids, RootPcb) /\ ChildClosed(kids, Live)
      /\ \A p \in Pcb : Range(kids[p]) \subseteq Live
  BY LiveTree
<1>2. /\ K \subseteq Live /\ c \in K /\ ChildClosed(kids, K)
      /\ \A y \in Pcb : \A x \in Range(kids[y]) : x \in K /\ x # c => y \in K
  BY Killed
<1>3. kids \in [Pcb -> Seq(Pcb)] /\ \A p \in Pcb : IsInjective(kids[p])
  BY DEF TypeOK, OneTree
<1>4. \A p \in Pcb : /\ Without(kids[p], {c}) \in Seq(Pcb)
                     /\ Range(Without(kids[p], {c})) = Range(kids[p]) \ {c}
                     /\ IsInjective(Without(kids[p], {c}))
  BY <1>3, WithoutMembers
<1>5. kids' = [p \in Pcb |-> IF p \in K THEN <<>> ELSE Without(kids[p], {c})]
  BY DEF KillEverything, KidsWithout, SemWithout, SoftWithout
<1>6. kids' \in [Pcb -> Seq(Pcb)]
  <2>1. <<>> \in Seq(Pcb)
    OBVIOUS
  <2> QED
    BY <1>4, <1>5, <2>1
<1>7. \A p \in Pcb : /\ Range(kids'[p]) = IF p \in K THEN {} ELSE Range(kids[p]) \ {c}
                     /\ IsInjective(kids'[p])
  BY <1>4, <1>5, EmptyQueue
<1>8. RootIsNoChild'
  BY <1>7 DEF RootIsNoChild
<1>9. \A p, q \in Pcb : p # q => Range(kids'[p]) \cap Range(kids'[q]) = {}
  BY <1>7 DEF OneTree
<1>10. free' = free \cup K
  BY DEF KillEverything, KidsWithout, SemWithout, SoftWithout
<1>11. ASSUME NEW p \in free' PROVE kids'[p] = <<>>
  <2>1. p \in Pcb
    BY <1>1, <1>2, <1>10 DEF TypeOK
  <2>2. Range(kids'[p]) = {}
    <3>1. p \in K \/ kids[p] = <<>>
      BY <1>10 DEF OneTree
    <3> QED
      BY <1>7, <2>1, <3>1, EmptyQueue
  <2> QED
    BY <1>6, <2>1, <2>2, RangeEmpty
<1>12. ASSUME free' # Pcb PROVE Live' = Descendants(kids', RootPcb)
  <2>1. Live' = Live \ K
    BY <1>10 DEF Live
  <2>2. RootPcb \notin K
    <3> SUFFICES ASSUME RootPcb \in K PROVE FALSE
      OBVIOUS
    <3>1. CASE RootPcb = c
      <4>1. K = Live
        BY <1>1, <3>1 DEF Subtree
      <4> QED
        BY <1>12, <1>10, <4>1 DEF Live, TypeOK
    <3>2. CASE RootPcb # c
      <4>1. RootPcb \in Descendants(kids, c)
        BY DEF Subtree
      <4>2. PICK y \in Descendants(kids, c) : RootPcb \in Range(kids[y])
        BY <1>1, <1>3, <3>2, <4>1, DescendantHasParent
      <4>3. y \in Pcb
        BY <1>1, <1>2, <4>2 DEF Subtree
      <4> QED
        BY <4>2, <4>3 DEF RootIsNoChild
    <3> QED
      BY <3>1, <3>2
  <2>3. Descendants(kids', RootPcb) \subseteq Live'
    <3>1. ASSUME NEW p \in Live \ K PROVE Range(kids'[p]) \subseteq Live \ K
      BY <1>1, <1>2, <1>7, <3>1
    <3>2. ChildClosed(kids', Live \ K)
      BY <3>1 DEF ChildClosed
    <3>3. Live \ K \in SUBSET Pcb /\ RootPcb \in Live \ K /\ RootPcb \in Pcb
      BY <1>1, <2>2
    <3> QED
      BY <1>6, <2>1, <3>2, <3>3, DescendantsLeast
  <2>4. Live' \subseteq Descendants(kids', RootPcb)
    <3> DEFINE D == Descendants(kids', RootPcb)
    <3>1. RootPcb \in D /\ D \subseteq Pcb /\ ChildClosed(kids', D)
      BY <1>1, <1>6, DescendantsLeast
    <3> HIDE DEF D
    <3>2. ChildClosed(kids, D \cup K)
      <4> SUFFICES ASSUME NEW x \in D \cup K PROVE Range(kids[x]) \subseteq D \cup K
        BY DEF ChildClosed
      <4>1. CASE x \in K
        BY <1>2, <4>1 DEF ChildClosed
      <4>2. CASE x \in D /\ x \notin K
        <5>1. Range(kids'[x]) \subseteq D
          BY <3>1, <4>2 DEF ChildClosed
        <5>2. Range(kids[x]) \ {c} \subseteq D
          BY <1>7, <3>1, <4>2, <5>1
        <5> QED
          BY <1>2, <5>2
      <4> QED
        BY <4>1, <4>2
    <3>3. Live \subseteq D \cup K
      <4>1. D \cup K \in SUBSET Pcb /\ RootPcb \in D \cup K /\ RootPcb \in Pcb
        BY <1>1, <1>2, <3>1
      <4> QED
        BY <1>1, <1>3, <3>2, <4>1, DescendantsLeast
    <3> QED
      BY <2>1, <3>3 DEF D
  <2> QED
    BY <2>3, <2>4
<1> QED
  BY <1>6, <1>7, <1>8, <1>9, <1>11, <1>12 DEF OneTree, Subtree

------------------------------------------------------------------------------
(* One lemma for each kind of step: it preserves IInv. *)

(* A handler that resumes the process that called it keeps the mode's parts. *)
LEMMA Resumes ==
  ASSUME IInv, mode = "run", Resume
  PROVE  /\ VerdictIsRight' /\ mode' \in Modes /\ currentProcess' \in Pcb
         /\ currentProcess' = currentProcess
         /\ ModeAgrees'
BY DEF IInv, ModeAgrees, VerdictIsRight, Resume, Modes

(* The scope of what the invariant says of sets of processes. *)
LEMMA StateFacts ==
  ASSUME IInv
  PROVE  /\ Live \subseteq Pcb /\ Blocked \subseteq Pcb /\ SoftBlocked \subseteq Blocked
         /\ IsFiniteSet(Live) /\ IsFiniteSet(SoftBlocked)
         /\ processCount \in Nat /\ softBlockCount \in Nat
         /\ readyQ \in Seq(Pcb) /\ IsInjective(readyQ)
         /\ semQ \in [Sem -> Seq(Pcb)] /\ \A s \in Sem : IsInjective(semQ[s])
         /\ sem \in [Sem -> Int]
         /\ currentProcess \in Pcb \cup {NULL}
         /\ mode = "run" => currentProcess \in Pcb /\ Running = {currentProcess}
<1>1. /\ readyQ \in Seq(Pcb) /\ semQ \in [Sem -> Seq(Pcb)] /\ sem \in [Sem -> Int]
      /\ IsInjective(readyQ) /\ \A s \in Sem : IsInjective(semQ[s])
      /\ currentProcess \in Pcb \cup {NULL}
  BY DEF IInv, TypeOK, NoProcessLost
<1>2. Live \subseteq Pcb
  BY DEF Live
<1>3. \A s \in Sem : Range(semQ[s]) \subseteq Pcb
  BY <1>1, RangeOf
<1>4. Blocked \subseteq Pcb /\ SoftBlocked \subseteq Blocked
  BY <1>3, SemFacts DEF Blocked, SoftBlocked
<1>5. /\ IsFiniteSet(Live) /\ IsFiniteSet(SoftBlocked)
      /\ Cardinality(Live) \in Nat /\ Cardinality(SoftBlocked) \in Nat
  BY <1>2, <1>4, PcbFinite
<1>6. processCount \in Nat /\ softBlockCount \in Nat
  BY <1>5 DEF IInv, CountsAgree
<1>7. mode = "run" => currentProcess \in Pcb /\ Running = {currentProcess}
  BY PcbAssumption DEF IInv, ModeAgrees, Running
<1> QED
  BY <1>1, <1>2, <1>4, <1>5, <1>6, <1>7

(* SYS1. *)
LEMMA SysCall1Step ==
  ASSUME IInv, SysCall1
  PROVE  IInv'
<1>1. PICK child \in free :
        /\ free' = free \ {child}
        /\ kids' = [kids EXCEPT ![currentProcess] = <<child>> \o @, ![child] = <<>>]
        /\ readyQ' = Append(readyQ, child)
        /\ traps' = [traps EXCEPT ![child] = {}]
  BY DEF SysCall1
<1>2. /\ mode = "run" /\ Resume /\ processCount' = processCount + 1
      /\ semQ' = semQ /\ sem' = sem /\ softBlockCount' = softBlockCount /\ busy' = busy
  BY DEF SysCall1
<1>3. child \in Pcb /\ child \notin Live /\ Live' = Live \cup {child} /\ free' \in SUBSET Pcb
  BY <1>1 DEF IInv, TypeOK, Live
<1>4. /\ VerdictIsRight' /\ ModeAgrees' /\ mode' \in Modes
      /\ currentProcess' \in Pcb /\ currentProcess' = currentProcess
  BY <1>2, Resumes
<1>5. /\ child \notin Range(readyQ) /\ child \notin Blocked /\ child # currentProcess
      /\ child # NULL
  BY <1>3, PcbAssumption DEF IInv, NoProcessLost, Running
<1>6. /\ readyQ' \in Seq(Pcb) /\ Range(readyQ') = Range(readyQ) \cup {child}
      /\ IsInjective(readyQ')
  BY <1>1, <1>3, <1>5, StateFacts, RangeAppend
<1>7. Blocked' = Blocked /\ SoftBlocked' = SoftBlocked /\ Running' = Running
  BY <1>2, <1>4 DEF Blocked, SoftBlocked, Running
<1>8. NoProcessLost'
  BY <1>2, <1>3, <1>4, <1>5, <1>6, <1>7 DEF IInv, NoProcessLost
<1>9. CountsAgree'
  <2>1. Cardinality(Live') = Cardinality(Live) + 1
    BY <1>3, StateFacts, FS_AddElement
  <2> QED
    BY <1>2, <1>7, <2>1 DEF IInv, CountsAgree
<1>10. SemaphoresAgree'
  BY <1>2 DEF IInv, SemaphoresAgree
<1>11. OneTree' /\ RootIsNoChild' /\ kids' \in [Pcb -> Seq(Pcb)]
  <2>1. currentProcess \in Pcb /\ Adopts(child)
    BY <1>1, <1>4 DEF Adopts
  <2> QED
    BY <2>1, TreeGrows DEF IInv
<1>12. TypeOK'
  <2>1. processCount' \in Int /\ softBlockCount' \in Int
    BY <1>2, StateFacts
  <2>2. traps' \in [Pcb -> SUBSET TrapTypes]
    BY <1>1 DEF IInv, TypeOK
  <2> QED
    BY <1>2, <1>3, <1>4, <1>6, <1>11, <2>1, <2>2 DEF IInv, TypeOK
<1> QED
  BY <1>4, <1>8, <1>9, <1>10, <1>11, <1>12 DEF IInv

(* P on a semaphore that is not free: SYS4, SYS7 and SYS8 where they block. *)
LEMMA BlockStep ==
  ASSUME IInv, mode = "run", NEW s \in Sem,
         sem' = [sem EXCEPT ![s] = @ - 1], sem'[s] < 0,
         InsertBlocked(s),
         Scheduler(readyQ, processCount,
                   IF s \in Semd THEN softBlockCount + 1 ELSE softBlockCount),
         UNCHANGED <<free, kids, traps, busy>>
  PROVE  IInv'
<1> DEFINE c == currentProcess
           soft == IF s \in Semd THEN softBlockCount + 1 ELSE softBlockCount
<1>1. c \in Pcb /\ Running = {c}
  BY StateFacts
<1>2. semQ' = [semQ EXCEPT ![s] = Append(@, c)]
  <2>1. DescriptorFor(s)
    BY <1>1, DescriptorsSuffice DEF IInv, TypeOK, DescriptorFor
  <2> QED
    BY <2>1 DEF InsertBlocked
<1>3. c \notin Blocked /\ c \notin Range(readyQ) /\ Range(readyQ) \cap Blocked = {}
  BY DEF IInv, NoProcessLost
<1>4. /\ semQ' \in [Sem -> Seq(Pcb)]
      /\ Blocked' = Blocked \cup {c}
      /\ SoftBlocked' = IF s \in Semd THEN SoftBlocked \cup {c} ELSE SoftBlocked
      /\ \A t, u \in Sem : t # u => Range(semQ'[t]) \cap Range(semQ'[u]) = {}
      /\ \A t \in Sem : IsInjective(semQ'[t])
      /\ Len(semQ'[s]) = Len(semQ[s]) + 1
  BY <1>1, <1>2, <1>3, OneMoreWaiter DEF IInv, TypeOK
<1>5. Live' = Live /\ free' \in SUBSET Pcb
  BY DEF Live, IInv, TypeOK
<1>6. Live' = Range(readyQ) \cup Blocked' /\ Range(readyQ) \cap Blocked' = {}
  BY <1>1, <1>3, <1>4, <1>5 DEF IInv, NoProcessLost
<1>7. processCount = Cardinality(Live')
  BY <1>5 DEF IInv, CountsAgree
<1>8. soft = Cardinality(SoftBlocked')
  <2>1. c \notin SoftBlocked
    BY <1>3, StateFacts
  <2>2. Cardinality(SoftBlocked \cup {c}) = Cardinality(SoftBlocked) + 1
    BY <2>1, StateFacts, FS_AddElement
  <2> QED
    BY <1>4, <2>2 DEF IInv, CountsAgree
<1>9. /\ readyQ' \in Seq(Pcb) /\ currentProcess' \in Pcb \cup {NULL}
      /\ processCount' \in Int /\ softBlockCount' \in Int /\ mode' \in Modes
      /\ NoProcessLost' /\ CountsAgree' /\ VerdictIsRight' /\ ModeAgrees'
  <2> HIDE DEF soft
  <2>1. Scheduler(readyQ, processCount, soft)
    BY DEF soft
  <2> QED
    BY <1>4, <1>5, <1>6, <1>7, <1>8, <2>1, StateFacts, DispatchStep
<1>10. OneTree' /\ RootIsNoChild'
  BY TreeKept DEF IInv
<1>11. SemaphoresAgree'
  <2>1. \A t \in Sem : t # s => semQ'[t] = semQ[t] /\ sem'[t] = sem[t]
    BY <1>2
  <2>2. sem'[s] = sem[s] - 1 /\ sem[s] \in Int /\ Len(semQ[s]) \in Nat
    BY StateFacts, RangeOf
  <2>3. Len(semQ'[s]) # 0 /\ semQ'[s] # <<>>
    BY <1>4, <2>2
  <2>4. semQ[s] = <<>> => Len(semQ[s]) = 0
    OBVIOUS
  <2>5. s \in Mutex => Len(semQ'[s]) = - sem'[s]
    BY <1>4, <2>2, <2>4 DEF IInv, SemaphoresAgree
  <2>6. s \in Semd => Len(semQ'[s]) <= - sem'[s]
    BY <1>4, <2>2, <2>4 DEF IInv, SemaphoresAgree
  <2>7. sem'[Clock] <= 0
    BY <2>1, <2>2, SemFacts DEF IInv, SemaphoresAgree
  <2> QED
    BY <2>1, <2>5, <2>6, <2>7, SemFacts DEF IInv, SemaphoresAgree
<1>12. TypeOK'
  <2>1. sem' \in [Sem -> Int]
    BY StateFacts
  <2> QED
    BY <1>4, <1>9, <2>1 DEF IInv, TypeOK
<1> QED
  BY <1>9, <1>10, <1>11, <1>12 DEF IInv

(* P on a semaphore that is free, and a device's operation that was complete *)
(* when it was waited for: the process goes on.                              *)
LEMMA PassStep ==
  ASSUME IInv, mode = "run", NEW s \in Sem,
         sem' = [sem EXCEPT ![s] = @ - 1], sem'[s] >= 0, Resume,
         UNCHANGED <<free, readyQ, kids, semQ, processCount, softBlockCount, traps, busy>>
  PROVE  IInv'
<1>1. /\ VerdictIsRight' /\ ModeAgrees' /\ mode' \in Modes
      /\ currentProcess' \in Pcb /\ currentProcess' = currentProcess
  BY Resumes
<1>2. sem[s] \in Int /\ sem'[s] = sem[s] - 1 /\ \A t \in Sem : t # s => sem'[t] = sem[t]
  BY StateFacts
<1>3. semQ[s] = <<>>
  <2>1. s \in Semd /\ semQ[s] # <<>> => FALSE
    <3>1. semQ[s] # <<>> => Len(semQ[s]) > 0
      BY StateFacts, EmptySeq
    <3> QED
      BY <1>2, <3>1 DEF IInv, SemaphoresAgree
  <2>2. s \in Mutex /\ semQ[s] # <<>> => FALSE
    BY <1>2 DEF IInv, SemaphoresAgree
  <2> QED
    BY <2>1, <2>2, SemFacts
<1>4. s # Clock
  BY <1>2 DEF IInv, SemaphoresAgree
<1>5. SemaphoresAgree'
  BY <1>2, <1>3, <1>4, SemFacts DEF IInv, SemaphoresAgree
<1>6. NoProcessLost' /\ CountsAgree'
  BY <1>1 DEF IInv, NoProcessLost, CountsAgree, Live, Running, Blocked, SoftBlocked
<1>7. OneTree' /\ RootIsNoChild'
  BY TreeKept DEF IInv
<1>8. TypeOK'
  <2>1. sem' \in [Sem -> Int]
    BY StateFacts
  <2> QED
    BY <1>1, <2>1 DEF IInv, TypeOK
<1> QED
  BY <1>1, <1>5, <1>6, <1>7, <1>8 DEF IInv

(* SYS3. *)
LEMMA SysCall3Step ==
  ASSUME IInv, NEW s \in Mutex, SysCall3(s)
  PROVE  IInv'
<1>1. /\ mode = "run" /\ sem' = [sem EXCEPT ![s] = @ + 1] /\ Resume
      /\ free' = free /\ kids' = kids /\ processCount' = processCount
      /\ softBlockCount' = softBlockCount /\ traps' = traps /\ busy' = busy
      /\ \/ /\ sem'[s] <= 0 /\ semQ[s] # <<>>
            /\ semQ' = [semQ EXCEPT ![s] = Tail(@)]
            /\ readyQ' = Append(readyQ, Head(semQ[s]))
         \/ /\ sem'[s] > 0 \/ semQ[s] = <<>>
            /\ semQ' = semQ /\ readyQ' = readyQ
  BY DEF SysCall3
<1>2. /\ VerdictIsRight' /\ ModeAgrees' /\ mode' \in Modes
      /\ currentProcess' \in Pcb /\ currentProcess' = currentProcess
  BY <1>1, Resumes
<1>3. /\ s \in Sem /\ s \notin Semd /\ sem[s] \in Int /\ sem'[s] = sem[s] + 1
      /\ \A t \in Sem : t # s => sem'[t] = sem[t]
      /\ sem' \in [Sem -> Int]
  BY <1>1, StateFacts, SemFacts
<1>4. OneTree' /\ RootIsNoChild'
  BY <1>1, TreeKept DEF IInv
<1>5. Live' = Live /\ Running' = Running
  BY <1>1, <1>2 DEF Live, Running
<1>6. CASE /\ sem'[s] <= 0 /\ semQ[s] # <<>>
           /\ semQ' = [semQ EXCEPT ![s] = Tail(@)]
           /\ readyQ' = Append(readyQ, Head(semQ[s]))
  <2> DEFINE h == Head(semQ[s])  r == Tail(semQ[s])
  <2>1. /\ r \in Seq(Pcb) /\ h \in Range(semQ[s]) /\ h \in Pcb
        /\ Range(r) = Range(semQ[s]) \ {h} /\ IsInjective(r)
        /\ Len(r) = Len(semQ[s]) - 1
    BY <1>3, <1>6, StateFacts, RangeTail
  <2>2. semQ' = [semQ EXCEPT ![s] = r] /\ readyQ' = Append(readyQ, h)
    BY <1>6
  <2> HIDE DEF h, r
  <2>3. /\ semQ' \in [Sem -> Seq(Pcb)]
        /\ Blocked' = Blocked \ {h} /\ SoftBlocked' = SoftBlocked
        /\ \A t, u \in Sem : t # u => Range(semQ'[t]) \cap Range(semQ'[u]) = {}
        /\ \A t \in Sem : IsInjective(semQ'[t])
    <3>1. semQ \in [Sem -> Seq(Pcb)] /\ NoProcessLost /\ {h} \subseteq Range(semQ[s])
      BY <2>1, StateFacts DEF IInv
    <3>2. /\ semQ' \in [Sem -> Seq(Pcb)]
          /\ Blocked' = Blocked \ {h}
          /\ SoftBlocked' = IF s \in Semd THEN SoftBlocked \ {h} ELSE SoftBlocked
          /\ \A t, u \in Sem : t # u => Range(semQ'[t]) \cap Range(semQ'[u]) = {}
          /\ \A t \in Sem : IsInjective(semQ'[t])
      BY <1>3, <2>1, <2>2, <3>1, FewerWaiters
    <3> QED
      BY <1>3, <3>2
  <2>4. h \in Blocked /\ h \notin Range(readyQ) /\ h # currentProcess
    BY <1>3, <2>1 DEF Blocked, IInv, NoProcessLost
  <2>5. /\ readyQ' \in Seq(Pcb) /\ Range(readyQ') = Range(readyQ) \cup {h}
        /\ IsInjective(readyQ')
    BY <2>1, <2>2, <2>4, StateFacts, RangeAppend
  <2>6. NoProcessLost'
    BY <1>2, <1>5, <2>3, <2>4, <2>5 DEF IInv, NoProcessLost
  <2>7. CountsAgree'
    BY <1>1, <1>5, <2>3 DEF IInv, CountsAgree
  <2>8. SemaphoresAgree'
    <3>1. semQ'[s] = r /\ \A t \in Sem : t # s => semQ'[t] = semQ[t]
      BY <1>3, <2>2, StateFacts
    <3>2. sem[s] < 0 /\ Len(semQ[s]) = - sem[s]
      BY <1>6 DEF IInv, SemaphoresAgree
    <3>3. Len(r) = - sem'[s]
      BY <1>3, <2>1, <3>2
    <3>4. Len(r) = 0 => r = <<>>
      BY <2>1
    <3>5. \/ sem'[s] >= 0 /\ semQ'[s] = <<>>
          \/ sem'[s] < 0 /\ Len(semQ'[s]) = - sem'[s]
      BY <1>3, <1>6, <3>1, <3>3, <3>4
    <3>6. \A t \in Mutex : t # s => semQ'[t] = semQ[t] /\ sem'[t] = sem[t]
      BY <1>3, <3>1, SemFacts
    <3>7. \A t \in Semd : semQ'[t] = semQ[t] /\ sem'[t] = sem[t]
      BY <1>3, <3>1, SemFacts
    <3> QED
      BY <3>5, <3>6, <3>7, SemFacts DEF IInv, SemaphoresAgree
  <2>9. TypeOK'
    BY <1>1, <1>2, <1>3, <2>3, <2>5 DEF IInv, TypeOK
  <2> QED
    BY <1>2, <1>4, <2>6, <2>7, <2>8, <2>9 DEF IInv
<1>7. CASE /\ sem'[s] > 0 \/ semQ[s] = <<>>
           /\ semQ' = semQ /\ readyQ' = readyQ
  <2>1. semQ[s] = <<>> /\ sem'[s] >= 0
    BY <1>3, <1>7, EmptySeq DEF IInv, SemaphoresAgree
  <2>2. SemaphoresAgree'
    BY <1>3, <1>7, <2>1, SemFacts DEF IInv, SemaphoresAgree
  <2>3. NoProcessLost' /\ CountsAgree'
    BY <1>1, <1>2, <1>5, <1>7 DEF IInv, NoProcessLost, CountsAgree, Blocked, SoftBlocked
  <2>4. TypeOK'
    BY <1>1, <1>2, <1>3, <1>7 DEF IInv, TypeOK
  <2> QED
    BY <1>2, <1>4, <2>2, <2>3, <2>4 DEF IInv
<1> QED
  BY <1>1, <1>6, <1>7

(* An interrupt that makes the processes of D ready, the waiters of one device *)
(* semaphore or of the pseudo-clock or nobody, and ends in done().             *)
LEMMA InterruptStep ==
  ASSUME IInv, NEW D, D \subseteq SoftBlocked,
         NEW q \in Seq(Pcb), IsInjective(q), Range(q) = Range(readyQ) \cup D,
         NEW soft, soft = softBlockCount - Cardinality(D),
         Done(q, soft),
         semQ' \in [Sem -> Seq(Pcb)],
         Blocked' = Blocked \ D, SoftBlocked' = SoftBlocked \ D,
         \A s, t \in Sem : s # t => Range(semQ'[s]) \cap Range(semQ'[t]) = {},
         \A s \in Sem : IsInjective(semQ'[s]),
         free' = free
  PROVE  /\ readyQ' \in Seq(Pcb) /\ currentProcess' \in Pcb \cup {NULL}
         /\ processCount' \in Int /\ softBlockCount' \in Int /\ mode' \in Modes
         /\ NoProcessLost' /\ CountsAgree' /\ VerdictIsRight' /\ ModeAgrees'
<1>1. currentProcess \notin Range(q)
  BY StateFacts DEF IInv, NoProcessLost
<1>2. PICK r \in Seq(Pcb) : /\ IsInjective(r) /\ Range(r) = Running \cup Range(q)
                           /\ Scheduler(r, processCount, soft)
  BY <1>1, StateFacts, DoneStep
<1>3. Live' = Live /\ free' \in SUBSET Pcb
  BY DEF Live, IInv, TypeOK
<1>4. Live' = Range(r) \cup Blocked'
  BY <1>2, <1>3, StateFacts DEF IInv, NoProcessLost
<1>5. Range(r) \cap Blocked' = {}
  BY <1>2, StateFacts DEF IInv, NoProcessLost, Running
<1>6. processCount = Cardinality(Live')
  BY <1>3 DEF IInv, CountsAgree
<1>7. soft = Cardinality(SoftBlocked')
  <2>1. SoftBlocked \cap D = D
    OBVIOUS
  <2>2. Cardinality(SoftBlocked \ D) = Cardinality(SoftBlocked) - Cardinality(D)
    BY <2>1, StateFacts, FS_Difference
  <2> QED
    BY <2>2 DEF IInv, CountsAgree
<1> QED
  BY <1>2, <1>3, <1>4, <1>5, <1>6, <1>7, DispatchStep

(* The waiters where the active semaphore list stays as it is. *)
LEMMA WaitersKept ==
  ASSUME IInv, semQ' = semQ
  PROVE  /\ semQ' \in [Sem -> Seq(Pcb)]
         /\ Blocked' = Blocked /\ SoftBlocked' = SoftBlocked
         /\ \A s, t \in Sem : s # t => Range(semQ'[s]) \cap Range(semQ'[t]) = {}
         /\ \A s \in Sem : IsInjective(semQ'[s])
<1>1. semQ' \in [Sem -> Seq(Pcb)]
  BY StateFacts
<1>2. Blocked' = Blocked /\ SoftBlocked' = SoftBlocked
  BY DEF Blocked, SoftBlocked
<1>3. /\ \A s, t \in Sem : s # t => Range(semQ'[s]) \cap Range(semQ'[t]) = {}
      /\ \A s \in Sem : IsInjective(semQ'[s])
  BY DEF IInv, NoProcessLost
<1> QED
  BY <1>1, <1>2, <1>3

(* Line 1. *)
LEMMA LocalTimerStep ==
  ASSUME IInv, LocalTimer
  PROVE  IInv'
<1>1. /\ Done(readyQ, softBlockCount)
      /\ UNCHANGED <<free, kids, semQ, sem, traps, busy>>
  BY DEF LocalTimer
<1>2. /\ semQ' \in [Sem -> Seq(Pcb)] /\ Blocked' = Blocked /\ SoftBlocked' = SoftBlocked
      /\ \A s, t \in Sem : s # t => Range(semQ'[s]) \cap Range(semQ'[t]) = {}
      /\ \A s \in Sem : IsInjective(semQ'[s])
  BY <1>1, WaitersKept
<1>3. /\ readyQ' \in Seq(Pcb) /\ currentProcess' \in Pcb \cup {NULL}
      /\ processCount' \in Int /\ softBlockCount' \in Int /\ mode' \in Modes
      /\ NoProcessLost' /\ CountsAgree' /\ VerdictIsRight' /\ ModeAgrees'
  <2> DEFINE D == {}
  <2>1. /\ D \subseteq SoftBlocked /\ Range(readyQ) = Range(readyQ) \cup D
        /\ softBlockCount = softBlockCount - Cardinality(D)
        /\ Blocked' = Blocked \ D /\ SoftBlocked' = SoftBlocked \ D
    BY <1>2, StateFacts, FS_EmptySet
  <2> HIDE DEF D
  <2> QED
    BY <1>1, <1>2, <2>1, StateFacts, InterruptStep
<1>4. OneTree' /\ RootIsNoChild'
  BY <1>1, TreeKept DEF IInv
<1>5. SemaphoresAgree' /\ TypeOK'
  BY <1>1, <1>2, <1>3 DEF IInv, SemaphoresAgree, TypeOK
<1> QED
  BY <1>3, <1>4, <1>5 DEF IInv

(* Line 2. *)
LEMMA IntervalTimerStep ==
  ASSUME IInv, IntervalTimer
  PROVE  IInv'
<1> DEFINE w == semQ[Clock]  D == Range(w)  q == readyQ \o w
<1>1. /\ semQ' = [semQ EXCEPT ![Clock] = <<>>]
      /\ sem' = [sem EXCEPT ![Clock] = 0]
      /\ Done(q, softBlockCount - Len(w))
      /\ UNCHANGED <<free, kids, traps, busy>>
  BY DEF IntervalTimer
<1>2. Clock \in Sem /\ w \in Seq(Pcb) /\ IsInjective(w)
  BY StateFacts, SemFacts
<1>3. Cardinality(D) = Len(w)
  BY <1>2, InjectiveLen
<1>4. D \subseteq SoftBlocked /\ D \subseteq Blocked /\ Range(readyQ) \cap D = {}
  <2>1. D \subseteq SoftBlocked
    BY SemFacts DEF SoftBlocked
  <2>2. D \subseteq Blocked
    BY <2>1, StateFacts
  <2>3. Range(readyQ) \cap Blocked = {}
    BY DEF IInv, NoProcessLost
  <2> QED
    BY <2>1, <2>2, <2>3
<1> HIDE DEF w
<1>5. q \in Seq(Pcb) /\ Range(q) = Range(readyQ) \cup D /\ IsInjective(q)
  BY <1>2, <1>4, StateFacts, RangeConcat
<1>6. /\ semQ' \in [Sem -> Seq(Pcb)] /\ Blocked' = Blocked \ D
      /\ SoftBlocked' = SoftBlocked \ D
      /\ \A s, t \in Sem : s # t => Range(semQ'[s]) \cap Range(semQ'[t]) = {}
      /\ \A s \in Sem : IsInjective(semQ'[s])
  <2>1. /\ semQ \in [Sem -> Seq(Pcb)] /\ NoProcessLost /\ <<>> \in Seq(Pcb)
        /\ IsInjective(<<>>) /\ D \subseteq Range(semQ[Clock])
        /\ Range(<<>>) = Range(semQ[Clock]) \ D
    BY StateFacts, EmptyQueue DEF IInv, w
  <2> HIDE DEF D
  <2>2. /\ semQ' \in [Sem -> Seq(Pcb)] /\ Blocked' = Blocked \ D
        /\ SoftBlocked' = IF Clock \in Semd THEN SoftBlocked \ D ELSE SoftBlocked
        /\ \A s, t \in Sem : s # t => Range(semQ'[s]) \cap Range(semQ'[t]) = {}
        /\ \A s \in Sem : IsInjective(semQ'[s])
    BY <1>1, <1>2, <2>1, FewerWaiters
  <2> QED
    BY <2>2, SemFacts
<1> HIDE DEF D, q
<1>7. /\ readyQ' \in Seq(Pcb) /\ currentProcess' \in Pcb \cup {NULL}
      /\ processCount' \in Int /\ softBlockCount' \in Int /\ mode' \in Modes
      /\ NoProcessLost' /\ CountsAgree' /\ VerdictIsRight' /\ ModeAgrees'
  BY <1>1, <1>3, <1>4, <1>5, <1>6, InterruptStep
<1>8. OneTree' /\ RootIsNoChild'
  BY <1>1, TreeKept DEF IInv
<1>9. SemaphoresAgree'
  <2>1. semQ'[Clock] = <<>> /\ sem'[Clock] = 0
    BY <1>1, <1>2, StateFacts
  <2>2. \A s \in Sem : s # Clock => semQ'[s] = semQ[s] /\ sem'[s] = sem[s]
    BY <1>1
  <2> QED
    BY <2>1, <2>2, SemFacts DEF IInv, SemaphoresAgree
<1>10. TypeOK'
  <2>1. sem' \in [Sem -> Int]
    <3>1. sem \in [Sem -> Int] /\ 0 \in Int
      BY StateFacts
    <3> QED
      BY <1>1, <3>1
  <2> QED
    BY <1>1, <1>6, <1>7, <2>1 DEF IInv, TypeOK
<1> QED
  BY <1>7, <1>8, <1>9, <1>10 DEF IInv

(* The V of lines 3 to 7, whatever is acknowledged. *)
LEMMA SignalStep ==
  ASSUME IInv, NEW d \in Device, Signal(d), busy' \in SUBSET Device
  PROVE  IInv'
<1>1. /\ sem' = [sem EXCEPT ![d] = @ + 1]
      /\ UNCHANGED <<free, kids, traps>>
      /\ \/ /\ sem'[d] <= 0 /\ semQ[d] # <<>>
            /\ semQ' = [semQ EXCEPT ![d] = Tail(@)]
            /\ Done(Append(readyQ, Head(semQ[d])), softBlockCount - 1)
         \/ /\ sem'[d] > 0 \/ semQ[d] = <<>>
            /\ Done(readyQ, softBlockCount)
            /\ UNCHANGED semQ
  BY DEF Signal
<1>2. /\ d \in Sem /\ d \in Semd /\ d \notin Mutex /\ d # Clock
      /\ sem[d] \in Int /\ sem'[d] = sem[d] + 1
      /\ \A t \in Sem : t # d => sem'[t] = sem[t]
      /\ sem' \in [Sem -> Int]
  BY <1>1, StateFacts, SemFacts
<1>3. OneTree' /\ RootIsNoChild'
  BY <1>1, TreeKept DEF IInv
<1>4. CASE /\ sem'[d] <= 0 /\ semQ[d] # <<>>
           /\ semQ' = [semQ EXCEPT ![d] = Tail(@)]
           /\ Done(Append(readyQ, Head(semQ[d])), softBlockCount - 1)
  <2> DEFINE h == Head(semQ[d])  r == Tail(semQ[d])  q == Append(readyQ, h)  D == {h}
  <2>1. /\ r \in Seq(Pcb) /\ h \in Range(semQ[d]) /\ h \in Pcb
        /\ Range(r) = Range(semQ[d]) \ {h} /\ IsInjective(r)
        /\ Len(r) = Len(semQ[d]) - 1
    BY <1>2, <1>4, StateFacts, RangeTail
  <2>2. semQ' = [semQ EXCEPT ![d] = r] /\ Done(q, softBlockCount - 1)
    BY <1>4
  <2> HIDE DEF h, r
  <2>3. /\ semQ' \in [Sem -> Seq(Pcb)]
        /\ Blocked' = Blocked \ D /\ SoftBlocked' = SoftBlocked \ D
        /\ \A t, u \in Sem : t # u => Range(semQ'[t]) \cap Range(semQ'[u]) = {}
        /\ \A t \in Sem : IsInjective(semQ'[t])
    <3>1. semQ \in [Sem -> Seq(Pcb)] /\ NoProcessLost /\ D \subseteq Range(semQ[d])
          /\ Range(r) = Range(semQ[d]) \ D
      BY <2>1, StateFacts DEF IInv
    <3> HIDE DEF D
    <3>2. /\ semQ' \in [Sem -> Seq(Pcb)]
          /\ Blocked' = Blocked \ D
          /\ SoftBlocked' = IF d \in Semd THEN SoftBlocked \ D ELSE SoftBlocked
          /\ \A t, u \in Sem : t # u => Range(semQ'[t]) \cap Range(semQ'[u]) = {}
          /\ \A t \in Sem : IsInjective(semQ'[t])
      BY <1>2, <2>1, <2>2, <3>1, FewerWaiters
    <3> QED
      BY <1>2, <3>2
  <2>4. h \in SoftBlocked /\ h \notin Range(readyQ)
    <3>1. h \in SoftBlocked
      BY <1>2, <2>1 DEF SoftBlocked
    <3>2. Range(readyQ) \cap Blocked = {}
      BY DEF IInv, NoProcessLost
    <3> QED
      BY <3>1, <3>2, StateFacts
  <2>5. q \in Seq(Pcb) /\ Range(q) = Range(readyQ) \cup D /\ IsInjective(q)
    BY <2>1, <2>4, StateFacts, RangeAppend
  <2>6. D \subseteq SoftBlocked /\ softBlockCount - 1 = softBlockCount - Cardinality(D)
    BY <2>4, FS_Singleton
  <2> HIDE DEF q, D
  <2>7. /\ readyQ' \in Seq(Pcb) /\ currentProcess' \in Pcb \cup {NULL}
        /\ processCount' \in Int /\ softBlockCount' \in Int /\ mode' \in Modes
        /\ NoProcessLost' /\ CountsAgree' /\ VerdictIsRight' /\ ModeAgrees'
    BY <1>1, <2>2, <2>3, <2>5, <2>6, InterruptStep
  <2>8. SemaphoresAgree'
    <3>1. semQ'[d] = r /\ \A t \in Sem : t # d => semQ'[t] = semQ[t]
      BY <1>2, <2>2, StateFacts
    <3>2. Len(r) <= - sem'[d]
      BY <1>2, <1>4, <2>1 DEF IInv, SemaphoresAgree
    <3> QED
      BY <1>2, <3>1, <3>2, SemFacts DEF IInv, SemaphoresAgree
  <2>9. TypeOK'
    BY <1>1, <1>2, <2>3, <2>7 DEF IInv, TypeOK
  <2> QED
    BY <1>3, <2>7, <2>8, <2>9 DEF IInv
<1>5. CASE /\ sem'[d] > 0 \/ semQ[d] = <<>>
           /\ Done(readyQ, softBlockCount)
           /\ UNCHANGED semQ
  <2>1. /\ semQ' \in [Sem -> Seq(Pcb)] /\ Blocked' = Blocked /\ SoftBlocked' = SoftBlocked
        /\ \A s, t \in Sem : s # t => Range(semQ'[s]) \cap Range(semQ'[t]) = {}
        /\ \A s \in Sem : IsInjective(semQ'[s])
    BY <1>5, WaitersKept
  <2>2. /\ readyQ' \in Seq(Pcb) /\ currentProcess' \in Pcb \cup {NULL}
        /\ processCount' \in Int /\ softBlockCount' \in Int /\ mode' \in Modes
        /\ NoProcessLost' /\ CountsAgree' /\ VerdictIsRight' /\ ModeAgrees'
    <3> DEFINE D == {}
    <3>1. /\ D \subseteq SoftBlocked /\ Range(readyQ) = Range(readyQ) \cup D
          /\ softBlockCount = softBlockCount - Cardinality(D)
          /\ Blocked' = Blocked \ D /\ SoftBlocked' = SoftBlocked \ D
      BY <2>1, StateFacts, FS_EmptySet
    <3> HIDE DEF D
    <3> QED
      BY <1>1, <1>5, <2>1, <3>1, StateFacts, InterruptStep
  <2>3. semQ[d] = <<>>
    <3>1. semQ[d] # <<>> => Len(semQ[d]) > 0
      BY <1>2, StateFacts, EmptySeq
    <3> QED
      BY <1>2, <1>5, <3>1 DEF IInv, SemaphoresAgree
  <2>4. SemaphoresAgree'
    BY <1>2, <1>5, <2>3, SemFacts DEF IInv, SemaphoresAgree
  <2>5. TypeOK'
    BY <1>1, <1>2, <2>1, <2>2 DEF IInv, TypeOK
  <2> QED
    BY <1>3, <2>2, <2>4, <2>5 DEF IInv
<1> QED
  BY <1>1, <1>4, <1>5

(* Lines 3 to 7. *)
LEMMA DeviceInterruptStep ==
  ASSUME IInv, NEW d \in Device, DeviceInterrupt(d)
  PROVE  IInv'
BY SignalStep DEF DeviceInterrupt, IInv, TypeOK

(* The end of a process, where its descendants are within reach. *)
LEMMA KillStep ==
  ASSUME IInv, mode = "run", NEW K, K = Subtree(currentProcess), KillEverything(K)
  PROVE  IInv'
<1> DEFINE q == Without(readyQ, K)
           count == processCount - Cardinality(K)
           soft == softBlockCount - Cardinality(SoftBlocked \cap K)
<1>1. /\ free' = free \cup K
      /\ semQ' = [s \in Sem |-> Without(semQ[s], K)]
      /\ sem' = [s \in Sem |-> IF s \in Mutex
                              THEN sem[s] + Cardinality(Range(semQ[s]) \cap K)
                              ELSE sem[s]]
      /\ Scheduler(q, count, soft)
      /\ traps' = traps /\ busy' = busy
  BY DEF KillEverything, KidsWithout, SemWithout, SoftWithout
<1>2. currentProcess \in Pcb /\ Running = {currentProcess}
  BY StateFacts
<1>3. K \subseteq Live /\ currentProcess \in K
  BY <1>2, Killed DEF IInv
<1>4. q \in Seq(Pcb) /\ Range(q) = Range(readyQ) \ K /\ IsInjective(q)
  BY StateFacts, WithoutMembers
<1>5. \A s \in Sem : /\ semQ'[s] = Without(semQ[s], K)
                     /\ semQ'[s] \in Seq(Pcb)
                     /\ Range(semQ'[s]) = Range(semQ[s]) \ K
                     /\ IsInjective(semQ'[s])
  BY <1>1, StateFacts, WithoutMembers
<1>6. semQ' \in [Sem -> Seq(Pcb)]
  BY <1>1, <1>5
<1>7. \A s, t \in Sem : s # t => Range(semQ'[s]) \cap Range(semQ'[t]) = {}
  BY <1>5 DEF IInv, NoProcessLost
<1>8. Blocked' = Blocked \ K
  BY <1>5 DEF Blocked
<1>9. SoftBlocked' = SoftBlocked \ K
  BY <1>5, SemFacts DEF SoftBlocked
<1>10. Live' = Live \ K /\ free' \in SUBSET Pcb
  BY <1>1, <1>3 DEF Live, IInv, TypeOK
<1>11. Live' = Range(q) \cup Blocked' /\ Range(q) \cap Blocked' = {}
  <2>1. Live = {currentProcess} \cup Range(readyQ) \cup Blocked /\ Range(readyQ) \cap Blocked = {}
    BY <1>2 DEF IInv, NoProcessLost
  <2> QED
    BY <1>3, <1>4, <1>8, <1>10, <2>1
<1>12. count = Cardinality(Live')
  <2>1. Live \cap K = K
    BY <1>3
  <2>2. Cardinality(Live \ K) = Cardinality(Live) - Cardinality(Live \cap K)
    BY StateFacts, PcbFinite, FS_Difference DEF Live
  <2> QED
    BY <1>10, <2>1, <2>2 DEF IInv, CountsAgree
<1>13. soft = Cardinality(SoftBlocked')
  <2>1. Cardinality(SoftBlocked \ K) = Cardinality(SoftBlocked) - Cardinality(SoftBlocked \cap K)
    BY StateFacts, FS_Difference
  <2> QED
    BY <1>9, <2>1 DEF IInv, CountsAgree
<1> HIDE DEF q, count, soft
<1>14. /\ readyQ' \in Seq(Pcb) /\ currentProcess' \in Pcb \cup {NULL}
       /\ processCount' \in Int /\ softBlockCount' \in Int /\ mode' \in Modes
       /\ NoProcessLost' /\ CountsAgree' /\ VerdictIsRight' /\ ModeAgrees'
  BY <1>1, <1>4, <1>5, <1>6, <1>7, <1>10, <1>11, <1>12, <1>13, DispatchStep
<1>15. OneTree' /\ RootIsNoChild' /\ kids' \in [Pcb -> Seq(Pcb)]
  BY <1>2, TreeShrinks DEF IInv
<1>16. \A s \in Sem : LET killed == Cardinality(Range(semQ[s]) \cap K) IN
                     /\ killed \in Nat
                     /\ Len(semQ'[s]) = Len(semQ[s]) - killed
                     /\ Len(semQ'[s]) \in Nat /\ Len(semQ[s]) \in Nat
                     /\ Len(semQ'[s]) = 0 <=> semQ'[s] = <<>>
                     /\ Len(semQ[s]) = 0 <=> semQ[s] = <<>>
  <2> SUFFICES ASSUME NEW s \in Sem
               PROVE  LET killed == Cardinality(Range(semQ[s]) \cap K) IN
                     /\ killed \in Nat
                     /\ Len(semQ'[s]) = Len(semQ[s]) - killed
                     /\ Len(semQ'[s]) \in Nat /\ Len(semQ[s]) \in Nat
                     /\ Len(semQ'[s]) = 0 <=> semQ'[s] = <<>>
                     /\ Len(semQ[s]) = 0 <=> semQ[s] = <<>>
    OBVIOUS
  <2>1. IsFiniteSet(Range(semQ[s])) /\ Cardinality(Range(semQ[s])) = Len(semQ[s])
    BY StateFacts, InjectiveLen
  <2>2. Cardinality(Range(semQ'[s])) = Len(semQ'[s])
    BY <1>5, InjectiveLen
  <2>3. Cardinality(Range(semQ[s]) \ K) = Cardinality(Range(semQ[s])) - Cardinality(Range(semQ[s]) \cap K)
    BY <2>1, FS_Difference
  <2>4. Cardinality(Range(semQ[s]) \cap K) \in Nat
    BY <2>1, FS_Subset, FS_CardinalityType
  <2>5. semQ[s] \in Seq(Pcb) /\ semQ'[s] \in Seq(Pcb)
    BY <1>5, StateFacts
  <2>6. Len(semQ'[s]) = Len(semQ[s]) - Cardinality(Range(semQ[s]) \cap K)
    BY <1>5, <2>1, <2>2, <2>3
  <2> QED
    BY <2>4, <2>5, <2>6, EmptySeq
<1>17. SemaphoresAgree'
  <2>1. ASSUME NEW s \in Mutex
        PROVE  \/ sem'[s] >= 0 /\ semQ'[s] = <<>>
               \/ sem'[s] < 0 /\ Len(semQ'[s]) = - sem'[s]
    <3> DEFINE killed == Cardinality(Range(semQ[s]) \cap K)
    <3>1. s \in Sem /\ sem[s] \in Int /\ sem'[s] = sem[s] + killed
      BY <1>1, StateFacts, SemFacts
    <3>2. \/ sem[s] >= 0 /\ semQ[s] = <<>>
          \/ sem[s] < 0 /\ Len(semQ[s]) = - sem[s]
      BY DEF IInv, SemaphoresAgree
    <3>3. /\ killed \in Nat
          /\ Len(semQ'[s]) = Len(semQ[s]) - killed
          /\ Len(semQ'[s]) \in Nat /\ Len(semQ[s]) \in Nat
          /\ Len(semQ'[s]) = 0 <=> semQ'[s] = <<>>
          /\ Len(semQ[s]) = 0 <=> semQ[s] = <<>>
      BY <1>16, <3>1
    <3> HIDE DEF killed
    <3> QED
      BY <3>1, <3>2, <3>3
  <2>2. ASSUME NEW s \in Semd, semQ'[s] # <<>> PROVE Len(semQ'[s]) <= - sem'[s]
    <3>1. s \in Sem /\ s \notin Mutex /\ sem[s] \in Int /\ sem'[s] = sem[s]
      BY <1>1, StateFacts, SemFacts
    <3> DEFINE killed == Cardinality(Range(semQ[s]) \cap K)
    <3>4. /\ killed \in Nat
          /\ Len(semQ'[s]) = Len(semQ[s]) - killed
          /\ Len(semQ'[s]) \in Nat /\ Len(semQ[s]) \in Nat
          /\ Len(semQ'[s]) = 0 <=> semQ'[s] = <<>>
          /\ Len(semQ[s]) = 0 <=> semQ[s] = <<>>
      BY <1>16, <3>1
    <3> HIDE DEF killed
    <3>2. /\ Len(semQ'[s]) <= Len(semQ[s]) /\ semQ[s] # <<>>
          /\ Len(semQ'[s]) \in Nat /\ Len(semQ[s]) \in Nat
      BY <2>2, <3>4
    <3>3. Len(semQ[s]) <= - sem[s]
      BY <2>2, <3>2 DEF IInv, SemaphoresAgree
    <3> QED
      BY <3>1, <3>2, <3>3
  <2>3. sem'[Clock] <= 0
    BY <1>1, SemFacts DEF IInv, SemaphoresAgree
  <2> QED
    BY <2>1, <2>2, <2>3 DEF SemaphoresAgree
<1>18. TypeOK'
  <2>1. sem' \in [Sem -> Int]
    <3> DEFINE new(s) == IF s \in Mutex
                         THEN sem[s] + Cardinality(Range(semQ[s]) \cap K)
                         ELSE sem[s]
    <3>1. ASSUME NEW s \in Sem PROVE new(s) \in Int
      <4>1. sem[s] \in Int /\ Cardinality(Range(semQ[s]) \cap K) \in Nat
        BY <1>16, StateFacts
      <4> QED
        BY <4>1
    <3>2. sem' = [s \in Sem |-> new(s)]
      BY <1>1
    <3> HIDE DEF new
    <3> QED
      BY <3>1, <3>2
  <2> QED
    BY <1>1, <1>6, <1>10, <1>14, <1>15, <2>1 DEF IInv, TypeOK
<1> QED
  BY <1>14, <1>15, <1>17, <1>18 DEF IInv

(* sysCall2() keeps the invariant, also where it leaves the lists behind. *)
LEMMA TerminateStep ==
  ASSUME IInv, mode = "run", Terminate
  PROVE  IInv'
<1>1. CASE /\ mode' = "broken"
           /\ UNCHANGED <<free, readyQ, currentProcess, kids, semQ, sem,
                          processCount, softBlockCount, traps, busy>>
  <2>1. NoProcessLost' /\ CountsAgree' /\ SemaphoresAgree'
    BY <1>1 DEF IInv, NoProcessLost, CountsAgree, SemaphoresAgree, Live, Running,
                Blocked, SoftBlocked
  <2>2. OneTree' /\ RootIsNoChild'
    BY <1>1, TreeKept DEF IInv
  <2>3. VerdictIsRight' /\ ModeAgrees'
    BY <1>1, StateFacts DEF VerdictIsRight, ModeAgrees
  <2>4. TypeOK'
    BY <1>1 DEF IInv, TypeOK, Modes
  <2> QED
    BY <2>1, <2>2, <2>3, <2>4 DEF IInv
<1>2. CASE KillEverything(Subtree(currentProcess))
  BY <1>2, KillStep
<1> QED
  BY <1>1, <1>2 DEF Terminate

(* A step of the machine that leaves the nucleus alone. *)
LEMMA StutterStep ==
  ASSUME IInv, UNCHANGED vars
  PROVE  IInv'
<1>1. NoProcessLost' /\ CountsAgree' /\ SemaphoresAgree'
  BY DEF vars, IInv, NoProcessLost, CountsAgree, SemaphoresAgree, Live, Running,
         Blocked, SoftBlocked
<1>2. OneTree' /\ RootIsNoChild'
  BY TreeKept DEF vars, IInv
<1>3. VerdictIsRight' /\ ModeAgrees' /\ TypeOK'
  BY DEF vars, IInv, VerdictIsRight, ModeAgrees, TypeOK, Live
<1> QED
  BY <1>1, <1>2, <1>3 DEF IInv

(* SYS4: the two outcomes of a P on a Mutex. *)
LEMMA SysCall4Step ==
  ASSUME IInv, NEW s \in Mutex, SysCall4(s)
  PROVE  IInv'
<1>1. s \in Sem /\ s \notin Semd
  BY SemFacts
<1>2. mode = "run" /\ sem' = [sem EXCEPT ![s] = @ - 1] /\ UNCHANGED <<free, kids, traps, busy>>
  BY DEF SysCall4
<1>3. CASE sem'[s] < 0 /\ InsertBlocked(s) /\ Scheduler(readyQ, processCount, softBlockCount)
  BY <1>1, <1>2, <1>3, BlockStep
<1>4. CASE /\ sem'[s] >= 0 /\ Resume
           /\ UNCHANGED <<readyQ, semQ, processCount, softBlockCount>>
  BY <1>1, <1>2, <1>4, PassStep
<1> QED
  BY <1>3, <1>4 DEF SysCall4

(* SYS8: the two outcomes of a P on a device semaphore. *)
LEMMA SysCall8Step ==
  ASSUME IInv, NEW d \in Device, SysCall8(d)
  PROVE  IInv'
<1>1. d \in Sem /\ d \in Semd
  BY SemFacts
<1>2. mode = "run" /\ sem' = [sem EXCEPT ![d] = @ - 1] /\ UNCHANGED <<free, kids, traps, busy>>
  BY DEF SysCall8
<1>3. CASE sem'[d] < 0 /\ InsertBlocked(d) /\ Scheduler(readyQ, processCount, softBlockCount + 1)
  BY <1>1, <1>2, <1>3, BlockStep
<1>4. CASE /\ sem'[d] >= 0 /\ Resume
           /\ UNCHANGED <<readyQ, semQ, processCount, softBlockCount>>
  BY <1>1, <1>2, <1>4, PassStep
<1> QED
  BY <1>3, <1>4 DEF SysCall8

(* SYS7: the pseudo-clock is never positive, so that its caller always waits. *)
LEMMA SysCall7Step ==
  ASSUME IInv, SysCall7
  PROVE  IInv'
<1>1. Clock \in Sem /\ Clock \in Semd
  BY SemFacts
<1>2. sem[Clock] \in Int /\ sem[Clock] <= 0 /\ sem \in [Sem -> Int]
  BY <1>1, StateFacts DEF IInv, SemaphoresAgree
<1>3. /\ mode = "run" /\ sem' = [sem EXCEPT ![Clock] = @ - 1]
      /\ UNCHANGED <<free, kids, traps, busy>>
  BY DEF SysCall7
<1>4. sem[Clock] - 1 < 0
  BY <1>2
<1>5. sem'[Clock] < 0
  BY <1>1, <1>2, <1>3, <1>4
<1>6. InsertBlocked(Clock) /\ Scheduler(readyQ, processCount, softBlockCount + 1)
  BY <1>4 DEF SysCall7
<1> QED
  BY <1>1, <1>3, <1>5, <1>6, BlockStep

(* SYS5: a new vector, or the end of the process. *)
LEMMA SysCall5Step ==
  ASSUME IInv, NEW t \in TrapTypes, SysCall5(t)
  PROVE  IInv'
<1>1. mode = "run"
  BY DEF SysCall5
<1>2. CASE Terminate
  BY <1>1, <1>2, TerminateStep
<1>3. CASE /\ traps' = [traps EXCEPT ![currentProcess] = @ \cup {t}]
           /\ Resume
           /\ UNCHANGED <<free, readyQ, kids, semQ, sem, processCount,
                          softBlockCount, busy>>
  <2>1. NoProcessLost' /\ CountsAgree' /\ SemaphoresAgree'
    BY <1>3 DEF IInv, NoProcessLost, CountsAgree, SemaphoresAgree, Live, Running,
                Blocked, SoftBlocked, Resume
  <2>2. OneTree' /\ RootIsNoChild'
    BY <1>3, TreeKept DEF IInv
  <2>3. VerdictIsRight' /\ ModeAgrees'
    BY <1>1, <1>3, Resumes
  <2>4. traps' \in [Pcb -> SUBSET TrapTypes]
    BY <1>1, <1>3, StateFacts DEF IInv, TypeOK
  <2>5. TypeOK'
    BY <1>3, <2>4 DEF IInv, TypeOK, Resume
  <2> QED
    BY <2>1, <2>2, <2>3, <2>5 DEF IInv
<1> QED
  BY <1>2, <1>3 DEF SysCall5

(* A trap is passed up, or ends the process. *)
LEMMA PassUpOrDieStep ==
  ASSUME IInv, NEW t \in TrapTypes, PassUpOrDie(t)
  PROVE  IInv'
<1>1. CASE UNCHANGED vars
  BY <1>1, StutterStep
<1>2. CASE mode = "run" /\ Terminate
  BY <1>2, TerminateStep
<1> QED
  BY <1>1, <1>2 DEF PassUpOrDie

(* A device starts to work. *)
LEMMA StartIOStep ==
  ASSUME IInv, NEW d \in Device, StartIO(d)
  PROVE  IInv'
<1>1. /\ busy' = busy \cup {d}
      /\ UNCHANGED <<free, readyQ, currentProcess, kids, semQ, sem, processCount,
                     softBlockCount, traps, mode>>
  BY DEF StartIO
<1>2. NoProcessLost' /\ CountsAgree' /\ SemaphoresAgree'
  BY <1>1 DEF IInv, NoProcessLost, CountsAgree, SemaphoresAgree, Live, Running,
              Blocked, SoftBlocked
<1>3. OneTree' /\ RootIsNoChild'
  BY <1>1, TreeKept DEF IInv
<1>4. VerdictIsRight' /\ ModeAgrees' /\ TypeOK'
  BY <1>1 DEF IInv, VerdictIsRight, ModeAgrees, TypeOK, Live
<1> QED
  BY <1>2, <1>3, <1>4 DEF IInv

------------------------------------------------------------------------------
(* The invariant is inductive. *)

(* main() establishes it. *)
LEMMA InitStep ==
  ASSUME Init
  PROVE  IInv
<1>1. RootPcb \in Pcb /\ NULL \notin Pcb /\ RootPcb # NULL
  BY PcbAssumption
<1>2. /\ free = Pcb \ {RootPcb} /\ readyQ = <<>> /\ currentProcess = RootPcb
      /\ kids = [p \in Pcb |-> <<>>] /\ semQ = [s \in Sem |-> <<>>]
      /\ sem \in [Sem -> 0 .. MaxSem] /\ \A s \in Semd : sem[s] = 0
      /\ processCount = 1 /\ softBlockCount = 0
      /\ traps = [p \in Pcb |-> {}] /\ busy = {} /\ mode = "run"
  BY DEF Init
<1>3. Live = {RootPcb}
  BY <1>1, <1>2 DEF Live
<1>4. Blocked = {} /\ SoftBlocked = {} /\ Range(readyQ) = {}
  BY <1>2, EmptyQueue, SemFacts DEF Blocked, SoftBlocked
<1>5. \A s \in Sem : semQ[s] = <<>> /\ Range(semQ[s]) = {} /\ IsInjective(semQ[s])
  BY <1>2, EmptyQueue
<1>6. \A p \in Pcb : kids[p] = <<>> /\ Range(kids[p]) = {} /\ IsInjective(kids[p])
  BY <1>2, EmptyQueue
<1>7. kids \in [Pcb -> Seq(Pcb)] /\ semQ \in [Sem -> Seq(Pcb)] /\ readyQ \in Seq(Pcb)
  BY <1>2, EmptyQueue
<1>8. sem \in [Sem -> Int] /\ \A s \in Sem : sem[s] >= 0
  BY <1>2, BoundAssumption
<1>9. NoProcessLost
  BY <1>1, <1>2, <1>3, <1>4, <1>5, EmptyQueue DEF NoProcessLost, Running
<1>10. CountsAgree
  BY <1>2, <1>3, <1>4, FS_Singleton, FS_EmptySet DEF CountsAgree
<1>11. SemaphoresAgree
  BY <1>2, <1>5, <1>8, SemFacts DEF SemaphoresAgree
<1>12. VerdictIsRight /\ ModeAgrees
  BY <1>1, <1>2 DEF VerdictIsRight, ModeAgrees
<1>13. Subtree(RootPcb) = {RootPcb}
  <2>1. {RootPcb} \in SUBSET Pcb /\ ChildClosed(kids, {RootPcb}) /\ RootPcb \in {RootPcb}
    BY <1>1, <1>6 DEF ChildClosed
  <2>2. Descendants(kids, RootPcb) \subseteq {RootPcb}
    BY <1>1, <1>7, <2>1, DescendantsLeast
  <2>3. RootPcb \in Descendants(kids, RootPcb)
    BY <1>1, <1>7, DescendantsLeast
  <2> QED
    BY <2>2, <2>3 DEF Subtree
<1>14. OneTree /\ RootIsNoChild
  <2>1. free \subseteq Pcb
    BY <1>2
  <2>2. Live = Subtree(RootPcb)
    BY <1>3, <1>13
  <2> QED
    BY <1>6, <2>1, <2>2 DEF OneTree, RootIsNoChild
<1>15. TypeOK
  BY <1>1, <1>2, <1>7, <1>8 DEF TypeOK, Modes
<1> QED
  BY <1>9, <1>10, <1>11, <1>12, <1>14, <1>15 DEF IInv

(* Every step keeps it. *)
LEMMA NextStep ==
  ASSUME IInv, [Next]_vars
  PROVE  IInv'
<1>1. CASE SysCall1
  BY <1>1, SysCall1Step
<1>2. CASE SysCall1Fails
  BY <1>2, StutterStep DEF SysCall1Fails
<1>3. CASE SysCall2
  BY <1>3, TerminateStep DEF SysCall2
<1>4. CASE SysCall7
  BY <1>4, SysCall7Step
<1>5. CASE \E s \in Mutex : SysCall3(s) \/ SysCall4(s)
  BY <1>5, SysCall3Step, SysCall4Step
<1>6. CASE \E d \in Device : SysCall8(d) \/ StartIO(d) \/ DeviceInterrupt(d)
  BY <1>6, SysCall8Step, StartIOStep, DeviceInterruptStep
<1>7. CASE \E t \in TrapTypes : SysCall5(t) \/ PassUpOrDie(t)
  BY <1>7, SysCall5Step, PassUpOrDieStep
<1>8. CASE LocalTimer
  BY <1>8, LocalTimerStep
<1>9. CASE IntervalTimer
  BY <1>9, IntervalTimerStep
<1>10. CASE UNCHANGED vars
  BY <1>10, StutterStep
<1> QED
  BY <1>1, <1>2, <1>3, <1>4, <1>5, <1>6, <1>7, <1>8, <1>9, <1>10 DEF Next

(* Of the nucleus, in every state it reaches. *)
THEOREM Invariance == Spec => []IInv
<1>1. Init => IInv
  BY InitStep
<1>2. IInv /\ [Next]_vars => IInv'
  BY NextStep
<1> QED
  BY <1>1, <1>2, PTL DEF Spec

(* Type correctness of the nucleus. *)
THEOREM TypeCorrect == Spec => []TypeOK
<1>1. IInv => TypeOK
  BY DEF IInv
<1> QED
  BY <1>1, Invariance, PTL

(* No handler loses a process or leaves one in two places: insertBlocked never *)
(* runs out of semaphore descriptors, which its callers do not check.          *)
THEOREM ProcessesKept == Spec => []NoProcessLost
<1>1. IInv => NoProcessLost
  BY DEF IInv
<1> QED
  BY <1>1, Invariance, PTL

(* processCount and softBlockCount, which scheduler() decides by, are right. *)
THEOREM CountsRight == Spec => []CountsAgree
<1>1. IInv => CountsAgree
  BY DEF IInv
<1> QED
  BY <1>1, Invariance, PTL

(* The value of every semaphore and the length of its queue belong together, *)
(* through kills and interrupts.                                             *)
THEOREM SemaphoresRight == Spec => []SemaphoresAgree
<1>1. IInv => SemaphoresAgree
  BY DEF IInv
<1> QED
  BY <1>1, Invariance, PTL

(* scheduler() halts, waits and panics in the right states, and never returns. *)
THEOREM VerdictRight == Spec => []VerdictIsRight
<1>1. IInv => VerdictIsRight
  BY DEF IInv
<1> QED
  BY <1>1, Invariance, PTL

(* The live processes are one tree below the first one. *)
THEOREM TreeRight == Spec => []OneTree
<1>1. IInv => OneTree
  BY DEF IInv
<1> QED
  BY <1>1, Invariance, PTL

(* A block that is allocated has no trap vector of its former life, and the *)
(* process that lives in it keeps those it specifies.                       *)
THEOREM VectorsRight == Spec => VectorsLastALifetime
<1> DEFINE A == \A p \in Pcb \ free' : IF p \in free THEN traps'[p] = {}
                                       ELSE traps[p] \subseteq traps'[p]
<1>1. IInv /\ [Next]_vars => A
  <2> SUFFICES ASSUME IInv, [Next]_vars PROVE A
    OBVIOUS
  <2>1. TypeOK
    BY DEF IInv
  <2>2. CASE free \subseteq free' /\ traps' = traps
    BY <2>2
  <2>3. CASE SysCall1
    <3>1. PICK child \in free : free' = free \ {child}
                                /\ traps' = [traps EXCEPT ![child] = {}]
      BY <2>3 DEF SysCall1
    <3> QED
      BY <2>1, <3>1 DEF TypeOK
  <2>4. CASE Terminate
    BY <2>2, <2>4 DEF Terminate, KillEverything
  <2>5. ASSUME NEW t \in TrapTypes, SysCall5(t) PROVE A
    <3>1. CASE /\ traps' = [traps EXCEPT ![currentProcess] = @ \cup {t}]
               /\ free' = free
      BY <2>1, <3>1 DEF TypeOK
    <3> QED
      BY <2>4, <2>5, <3>1 DEF SysCall5
  <2>6. ASSUME NEW t \in TrapTypes, PassUpOrDie(t) PROVE A
    BY <2>2, <2>4, <2>6 DEF PassUpOrDie, vars
  <2> HIDE DEF A
  <2>7. CASE Next
    BY <2>2, <2>3, <2>4, <2>5, <2>6, <2>7
       DEF Next, SysCall1Fails, SysCall2, SysCall3, SysCall4, SysCall7, SysCall8,
           StartIO, DeviceInterrupt, Signal, LocalTimer, IntervalTimer, vars
  <2> QED
    BY <2>2, <2>7 DEF vars
<1>2. IInv /\ [Next]_vars => [A]_vars
  BY <1>1
<1> HIDE DEF A
<1>3. Spec => [][A]_vars
  BY <1>2, Invariance, PTL DEF Spec
<1> QED
  BY <1>3 DEF VectorsLastALifetime, A
===============================================================================
