----------------------------- MODULE MachineProofs -----------------------------
(***************************************************************************)
(* What is around the nucleus: the processes, which see it as Lifecycle    *)
(* says; the interrupt lines, under which the theorems about the nucleus   *)
(* hold, also where the handler signals one half of a terminal for the     *)
(* other's answer and so makes a step that is none of Nucleus; and the     *)
(* clock, by which processes are charged.  For every number of processes,  *)
(* semaphores, devices and ticks, and for handlers of any length.          *)
(***************************************************************************)
EXTENDS NucleusLifecycle, Interrupts, CpuTime, NucleusProofs

------------------------------------------------------------------------------
(* Lifecycle.  Each handler is mapped to the one step of Lifecycle it stands  *)
(* for, or to none.                                                           *)

(* The two modules have the same semaphores, count alike, and have the same live *)
(* processes.                                                                    *)
LEMMA SameSem == Abstract!Sem = Sem /\ Abstract!Semd = Semd
BY DEF Abstract!Sem, Abstract!Semd, Sem, Semd

LEMMA SameCardinality == \A S : Abstract!Cardinality(S) = Cardinality(S)
BY DEF Abstract!Cardinality, Cardinality

LEMMA SameLive ==
  ASSUME IInv
  PROVE  Abstract!Live = Live
<1>1. \A s \in Sem : Waiting[s] = Range(semQ[s])
  BY DEF Waiting
<1>2. UNION {Waiting[s] : s \in Sem} = Blocked
  BY <1>1 DEF Blocked
<1>3. Abstract!Live = Range(readyQ) \cup Running \cup UNION {Waiting[s] : s \in Sem}
  BY SameSem DEF Abstract!Live, Running
<1> QED
  BY <1>2, <1>3 DEF IInv, NoProcessLost

(* Who waits, before and after a step. *)
LEMMA WaitingFacts ==
  \A s \in Sem : Waiting[s] = Range(semQ[s]) /\ Waiting'[s] = Range(semQ'[s])
BY DEF Waiting

------------------------------------------------------------------------------
(* scheduler() *)

(* scheduler() serves the members of the queue it is given, and what it does *)
(* when there is none follows from where the processes wait: the counters    *)
(* it decides by are right.                                                  *)
LEMMA SchedulerServes ==
  ASSUME IInv', NEW q \in Seq(Pcb), IsInjective(q), NEW count, NEW soft,
         Scheduler(q, count, soft)
  PROVE  Abstract!Serve(Range(q))
<1>1. \A s \in Sem : Waiting'[s] = Range(semQ'[s])
  BY WaitingFacts
<1>2. CASE q # <<>>
  <2>1. currentProcess' = Head(q) /\ readyQ' = Tail(q) /\ mode' = "run"
    BY <1>2 DEF Scheduler
  <2>2. /\ Head(q) \in Range(q) /\ Head(q) \in Pcb
        /\ Range(Tail(q)) = Range(q) \ {Head(q)}
    BY <1>2, RangeTail
  <2>3. Head(q) # NULL
    BY <2>2, PcbAssumption
  <2> QED
    BY <2>1, <2>2, <2>3 DEF Abstract!Serve, Rest
<1>3. CASE q = <<>>
  <2>1. /\ currentProcess' = NULL /\ readyQ' = <<>> /\ Range(q) = {} /\ Range(readyQ') = {}
        /\ mode' = CASE count = 0 -> "halt"
                     [] count > 0 /\ soft > 0 -> "wait"
                     [] count > 0 /\ soft = 0 -> "panic"
                     [] OTHER -> "returned"
        /\ count = processCount' /\ soft = softBlockCount'
    BY <1>3, EmptyQueue DEF Scheduler
  <2>2. /\ semQ' \in [Sem -> Seq(Pcb)] /\ free' \subseteq Pcb
        /\ Live' = Pcb \ free'
        /\ Live' = Running' \cup Range(readyQ') \cup Blocked'
        /\ \A s, t \in Sem : s # t => Range(semQ'[s]) \cap Range(semQ'[t]) = {}
    BY DEF IInv, TypeOK, NoProcessLost, Live
  <2>3. Live' = UNION {Waiting'[s] : s \in Sem}
    <3>1. Blocked' = UNION {Waiting'[s] : s \in Sem}
      BY <1>1 DEF Blocked
    <3> QED
      BY <2>1, <2>2, <3>1 DEF Running
  <2>4. VerdictIsRight' /\ ModeAgrees' /\ mode' \in Modes
    BY DEF IInv, TypeOK
  <2>5. mode' \in {"wait", "halt", "panic"}
    BY <2>1, <2>4, PcbAssumption DEF VerdictIsRight, ModeAgrees, Modes
  <2>6. mode' = "wait" => \E s \in Semd : Waiting'[s] # {}
    BY <1>1, <2>2, <2>4, RangeEmpty, SemFacts DEF VerdictIsRight
  <2>7. mode' = "panic" => /\ \A s \in Semd : Waiting'[s] = {}
                           /\ \E s \in Mutex : Waiting'[s] # {}
    <3> SUFFICES ASSUME mode' = "panic"
                 PROVE  /\ \A s \in Semd : Waiting'[s] = {}
                        /\ \E s \in Mutex : Waiting'[s] # {}
      OBVIOUS
    <3>1. free' # Pcb /\ Live' = UNION {Range(semQ'[s]) : s \in Mutex}
      BY <2>4 DEF VerdictIsRight
    <3>2. \E x \in Live' : TRUE
      BY <2>2, <3>1
    <3>3. \E s \in Mutex : Waiting'[s] # {}
      BY <1>1, <3>1, <3>2, SemFacts
    <3>4. ASSUME NEW s \in Semd, NEW x \in Waiting'[s] PROVE FALSE
      <4>1. x \in Live' /\ s \in Sem /\ x \in Range(semQ'[s])
        BY <1>1, <2>3, SemFacts
      <4>2. PICK t \in Mutex : x \in Range(semQ'[t])
        BY <3>1, <4>1
      <4> QED
        BY <2>2, <4>1, <4>2, SemFacts
    <3> QED
      BY <3>3, <3>4
  <2>8. mode' = "halt" => \A s \in Sem : Waiting'[s] = {}
    <3>1. mode' = "halt" => Live' = {}
      BY <2>2, <2>4 DEF VerdictIsRight
    <3> QED
      BY <2>3, <3>1
  <2>9. Rest' = IF currentProcess' # NULL THEN "run"
                ELSE IF \E s \in Semd : Waiting'[s] # {} THEN "wait"
                ELSE IF \E s \in Mutex : Waiting'[s] # {} THEN "panic"
                ELSE "halt"
    BY <2>1, <2>5, <2>6, <2>7, <2>8, SemFacts DEF Rest
  <2> QED
    BY <2>1, <2>9, SameSem DEF Abstract!Serve
<1> QED
  BY <1>2, <1>3

(* done() also serves the process it interrupted. *)
LEMMA DoneServes ==
  ASSUME IInv, IInv', NEW q \in Seq(Pcb), IsInjective(q), NEW D,
         Range(q) = Range(readyQ) \cup D, currentProcess \notin D,
         NEW soft, Done(q, soft)
  PROVE  Abstract!Serve(Abstract!Runnable \cup D)
<1>1. currentProcess \in Pcb \cup {NULL} /\ currentProcess \notin Range(q)
  BY StateFacts DEF IInv, NoProcessLost
<1>2. PICK r \in Seq(Pcb) : /\ IsInjective(r) /\ Range(r) = Running \cup Range(q)
                           /\ Scheduler(r, processCount, soft)
  BY <1>1, DoneStep
<1>3. Abstract!Runnable \cup D = Range(r)
  BY <1>2 DEF Abstract!Runnable, Running
<1> QED
  BY <1>2, <1>3, SchedulerServes

------------------------------------------------------------------------------
(* The state of Lifecycle in terms of the queues and the values. *)

(* In a tree the parent is the one process that lists the child. *)
LEMMA OnlyParent ==
  ASSUME NEW k, \A a, b \in Pcb : a # b => Range(k[a]) \cap Range(k[b]) = {},
         NEW p, NEW q \in Pcb, p \in Range(k[q])
  PROVE  (CHOOSE x \in Pcb : p \in Range(k[x])) = q
OBVIOUS

LEMMA ParentFacts ==
  ASSUME OneTree
  PROVE  /\ Parent = [p \in Pcb |-> Parent[p]]
         /\ \A p, q \in Pcb : p \in Range(kids[q]) => Parent[p] = q
         /\ \A p \in Pcb : (\A q \in Pcb : p \notin Range(kids[q])) => Parent[p] = NULL
<1>1. \A a, b \in Pcb : a # b => Range(kids[a]) \cap Range(kids[b]) = {}
  BY DEF OneTree
<1>2. ASSUME NEW p \in Pcb, NEW q \in Pcb, p \in Range(kids[q])
      PROVE  Parent[p] = q
  <2>1. (CHOOSE x \in Pcb : p \in Range(kids[x])) = q
    BY <1>1, <1>2, OnlyParent
  <2> QED
    BY <1>2, <2>1 DEF Parent
<1> QED
  BY <1>2 DEF Parent

LEMMA ParentNextFacts ==
  ASSUME OneTree'
  PROVE  /\ Parent' = [p \in Pcb |-> Parent'[p]]
         /\ \A p, q \in Pcb : p \in Range(kids'[q]) => Parent'[p] = q
         /\ \A p \in Pcb : (\A q \in Pcb : p \notin Range(kids'[q])) => Parent'[p] = NULL
<1>1. \A a, b \in Pcb : a # b => Range(kids'[a]) \cap Range(kids'[b]) = {}
  BY DEF OneTree
<1>2. ASSUME NEW p \in Pcb, NEW q \in Pcb, p \in Range(kids'[q])
      PROVE  Parent'[p] = q
  <2>1. (CHOOSE x \in Pcb : p \in Range(kids'[x])) = q
    BY <1>1, <1>2, OnlyParent
  <2> QED
    BY <1>2, <2>1 DEF Parent
<1> QED
  BY <1>2 DEF Parent

(* A positive value is a number of tokens.  A device or the clock that is lower *)
(* than its waiters account for owes the difference.                            *)
LEMMA ValueFacts ==
  ASSUME IInv
  PROVE  \A s \in Sem :
           /\ sem[s] \in Int /\ Len(semQ[s]) \in Nat
           /\ Len(semQ[s]) = 0 <=> semQ[s] = <<>>
           /\ Waiting[s] = Range(semQ[s])
           /\ Waiting[s] = {} <=> semQ[s] = <<>>
           /\ Tokens[s] = IF sem[s] > 0 THEN sem[s] ELSE 0
           /\ s \in Semd => /\ Owed[s] = IF sem[s] < 0 THEN - sem[s] - Len(semQ[s]) ELSE 0
                            /\ semQ[s] # <<>> => Len(semQ[s]) <= - sem[s]
           /\ s \in Mutex => /\ Owed[s] = 0
                             /\ \/ sem[s] >= 0 /\ semQ[s] = <<>>
                                \/ sem[s] < 0 /\ Len(semQ[s]) = - sem[s]
<1> SUFFICES ASSUME NEW s \in Sem
             PROVE
           /\ sem[s] \in Int /\ Len(semQ[s]) \in Nat
           /\ Len(semQ[s]) = 0 <=> semQ[s] = <<>>
           /\ Waiting[s] = Range(semQ[s])
           /\ Waiting[s] = {} <=> semQ[s] = <<>>
           /\ Tokens[s] = IF sem[s] > 0 THEN sem[s] ELSE 0
           /\ s \in Semd => /\ Owed[s] = IF sem[s] < 0 THEN - sem[s] - Len(semQ[s]) ELSE 0
                            /\ semQ[s] # <<>> => Len(semQ[s]) <= - sem[s]
           /\ s \in Mutex => /\ Owed[s] = 0
                             /\ \/ sem[s] >= 0 /\ semQ[s] = <<>>
                                \/ sem[s] < 0 /\ Len(semQ[s]) = - sem[s]
  OBVIOUS
<1>1. sem[s] \in Int /\ semQ[s] \in Seq(Pcb)
  BY StateFacts
<1>2. /\ Len(semQ[s]) \in Nat
      /\ Len(semQ[s]) = 0 <=> semQ[s] = <<>>
      /\ Range(semQ[s]) = {} <=> semQ[s] = <<>>
  BY <1>1, RangeEmpty
<1>3. Waiting[s] = Range(semQ[s]) /\ Tokens[s] = IF sem[s] > 0 THEN sem[s] ELSE 0
  BY DEF Waiting, Tokens
<1>4. s \in Semd => Owed[s] = IF sem[s] < 0 THEN - sem[s] - Len(semQ[s]) ELSE 0
  BY DEF Owed
<1>5. s \in Mutex => Owed[s] = 0
  BY SemFacts DEF Owed
<1>6. /\ s \in Semd => (semQ[s] # <<>> => Len(semQ[s]) <= - sem[s])
      /\ s \in Mutex => \/ sem[s] >= 0 /\ semQ[s] = <<>>
                        \/ sem[s] < 0 /\ Len(semQ[s]) = - sem[s]
  BY DEF IInv, SemaphoresAgree
<1> QED
  BY <1>1, <1>2, <1>3, <1>4, <1>5, <1>6

(* The same, one step later; Waiting, Tokens and Owed are functions on Sem. *)
LEMMA ValueNextFacts ==
  ASSUME IInv'
  PROVE  \A s \in Sem :
           /\ sem'[s] \in Int /\ Len(semQ'[s]) \in Nat
           /\ Waiting'[s] = Range(semQ'[s])
           /\ Tokens'[s] = IF sem'[s] > 0 THEN sem'[s] ELSE 0
           /\ s \in Semd => Owed'[s] = IF sem'[s] < 0 THEN - sem'[s] - Len(semQ'[s]) ELSE 0
           /\ s \in Mutex => Owed'[s] = 0
<1>1. semQ' \in [Sem -> Seq(Pcb)] /\ sem' \in [Sem -> Int]
  BY DEF IInv, TypeOK
<1>2. \A s \in Sem : Len(semQ'[s]) \in Nat
  BY <1>1
<1>3. \A s \in Sem : /\ Waiting'[s] = Range(semQ'[s])
                     /\ Tokens'[s] = IF sem'[s] > 0 THEN sem'[s] ELSE 0
                     /\ s \in Semd => Owed'[s] = IF sem'[s] < 0 THEN - sem'[s] - Len(semQ'[s]) ELSE 0
                     /\ s \in Mutex => Owed'[s] = 0
  BY SemFacts DEF Waiting, Tokens, Owed
<1> QED
  BY <1>1, <1>2, <1>3

LEMMA OnSem ==
  /\ Waiting = [s \in Sem |-> Waiting[s]] /\ Waiting' = [s \in Sem |-> Waiting'[s]]
  /\ Tokens = [s \in Sem |-> Tokens[s]] /\ Tokens' = [s \in Sem |-> Tokens'[s]]
  /\ Owed = [s \in Sem |-> Owed[s]] /\ Owed' = [s \in Sem |-> Owed'[s]]
BY DEF Waiting, Tokens, Owed

(* Handlers that leave the process tree alone. *)
LEMMA ParentKept ==
  ASSUME kids' = kids
  PROVE  Parent' = Parent
BY DEF Parent

(* A process runs where the machine executes one. *)
LEMMA RestFacts ==
  ASSUME IInv, mode \in {"run", "wait"}
  PROVE  Rest = mode /\ Rest \in {"run", "wait"}
BY DEF Rest

------------------------------------------------------------------------------
(* One lemma for each kind of step: the step of Lifecycle it stands for. *)

(* SYS1: a block of the free list is a process that did not live. *)
LEMMA SysCall1Creates ==
  ASSUME IInv, IInv', SysCall1
  PROVE  Abstract!Create
<1> DEFINE c == currentProcess
<1>1. PICK child \in free :
        /\ kids' = [kids EXCEPT ![c] = <<child>> \o @, ![child] = <<>>]
        /\ readyQ' = Append(readyQ, child)
  BY DEF SysCall1
<1>2. /\ mode = "run" /\ mode' = mode /\ currentProcess' = currentProcess
      /\ semQ' = semQ /\ sem' = sem
  BY DEF SysCall1, Resume
<1>3. c \in Pcb /\ TypeOK /\ NoProcessLost /\ OneTree /\ OneTree'
  BY <1>2, StateFacts DEF IInv
<1>4. child \in Pcb \ Live /\ free \subseteq Pcb
  BY <1>3 DEF Live, TypeOK
<1>5. /\ c \in Live /\ \A p \in Pcb : Range(kids[p]) \subseteq Live
      /\ kids \in [Pcb -> Seq(Pcb)] /\ kids[child] = <<>>
  BY <1>3, LiveTree DEF TypeOK, OneTree
<1>6. \A q \in Pcb : Range(kids'[q]) = IF q = c THEN {child} \cup Range(kids[q]) ELSE Range(kids[q])
  <2> DEFINE one == <<child>>
  <2>1. one \in Seq(Pcb) /\ Range(one) = {child}
    BY <1>4 DEF Range
  <2>2. kids[c] \in Seq(Pcb)
    BY <1>3, <1>5
  <2> HIDE DEF one, c
  <2>3. Range(one \o kids[c]) = {child} \cup Range(kids[c])
    BY <2>1, <2>2, RangeConcat
  <2>4. \A q \in Pcb : kids'[q] = IF q = child THEN <<>>
                                  ELSE IF q = c THEN one \o kids[c] ELSE kids[q]
    BY <1>1, <1>3, <1>5 DEF one
  <2>5. child # c
    BY <1>4, <1>5
  <2> QED
    BY <1>5, <2>3, <2>4, <2>5
<1>7. \A p \in Pcb : Parent'[p] = IF p = child THEN c ELSE Parent[p]
  <2> SUFFICES ASSUME NEW p \in Pcb
               PROVE  Parent'[p] = IF p = child THEN c ELSE Parent[p]
    OBVIOUS
  <2>1. CASE p = child
    BY <1>3, <1>6, <2>1, ParentNextFacts
  <2>2. CASE p # child /\ \E q \in Pcb : p \in Range(kids[q])
    <3>1. PICK q \in Pcb : p \in Range(kids[q])
      BY <2>2
    <3>2. p \in Range(kids'[q])
      BY <1>6, <3>1
    <3> QED
      BY <1>3, <2>2, <3>1, <3>2, ParentFacts, ParentNextFacts
  <2>3. CASE p # child /\ \A q \in Pcb : p \notin Range(kids[q])
    <3>1. \A q \in Pcb : p \notin Range(kids'[q])
      BY <1>6, <2>3
    <3> QED
      BY <1>3, <2>3, <3>1, ParentFacts, ParentNextFacts
  <2> QED
    BY <2>1, <2>2, <2>3
<1>8. Parent' = [Parent EXCEPT ![child] = c]
  BY <1>3, <1>7, ParentFacts, ParentNextFacts
<1>9. Range(readyQ') = Range(readyQ) \cup {child}
  BY <1>1, <1>4, StateFacts, RangeAppend
<1>10. Waiting' = Waiting /\ Tokens' = Tokens /\ Owed' = Owed /\ Rest' = Rest
  BY <1>2 DEF Waiting, Tokens, Owed, Rest
<1> QED
  BY <1>2, <1>4, <1>8, <1>9, <1>10, SameLive, RestFacts DEF Abstract!Create

(* SYS3: a V below zero wakes the first waiter, another is kept for a later P. *)
LEMMA SysCall3IsV ==
  ASSUME IInv, IInv', NEW s \in Mutex, SysCall3(s)
  PROVE  Abstract!V(s)
<1>1. /\ mode = "run" /\ mode' = mode /\ currentProcess' = currentProcess
      /\ kids' = kids /\ sem' = [sem EXCEPT ![s] = @ + 1]
      /\ \/ /\ sem'[s] <= 0 /\ semQ[s] # <<>>
            /\ semQ' = [semQ EXCEPT ![s] = Tail(@)]
            /\ readyQ' = Append(readyQ, Head(semQ[s]))
         \/ /\ sem'[s] > 0 \/ semQ[s] = <<>>
            /\ semQ' = semQ /\ readyQ' = readyQ
  BY DEF SysCall3, Resume
<1>2. /\ s \in Sem /\ sem[s] \in Int /\ sem'[s] = sem[s] + 1
      /\ \A t \in Sem : t # s => sem'[t] = sem[t]
  BY <1>1, StateFacts, SemFacts
<1>3. Owed' = Owed
  <2>1. ASSUME NEW t \in Sem PROVE Owed'[t] = Owed[t]
    <3>1. CASE t \in Mutex
      BY <3>1, ValueFacts, ValueNextFacts
    <3>2. CASE t \in Semd
      <4>1. sem'[t] = sem[t] /\ semQ'[t] = semQ[t]
        BY <1>1, <1>2, <3>2, SemFacts, StateFacts
      <4> QED
        BY <3>2, <4>1, ValueFacts, ValueNextFacts
    <3> QED
      BY <3>1, <3>2, SemFacts
  <2> QED
    BY <2>1, OnSem
<1>4. Parent' = Parent /\ Rest' = Rest /\ Rest = "run"
  BY <1>1, ParentKept DEF Rest
<1>5. CASE /\ sem'[s] <= 0 /\ semQ[s] # <<>>
           /\ semQ' = [semQ EXCEPT ![s] = Tail(@)]
           /\ readyQ' = Append(readyQ, Head(semQ[s]))
  <2> DEFINE h == Head(semQ[s])
  <2>1. h \in Range(semQ[s]) /\ h \in Pcb /\ Range(Tail(semQ[s])) = Range(semQ[s]) \ {h}
    BY <1>2, <1>5, StateFacts, RangeTail
  <2>2. \A t \in Sem : semQ'[t] = IF t = s THEN Tail(semQ[s]) ELSE semQ[t]
    BY <1>5, StateFacts
  <2> HIDE DEF h
  <2>3. \A t \in Sem : Waiting'[t] = IF t = s THEN Waiting[s] \ {h} ELSE Waiting[t]
    BY <1>2, <2>1, <2>2, WaitingFacts
  <2>4. Waiting' = [Waiting EXCEPT ![s] = @ \ {h}]
    BY <1>2, <2>3, OnSem
  <2>5. \A t \in Sem : Tokens'[t] = Tokens[t]
    BY <1>2, <1>5, ValueFacts, ValueNextFacts
  <2>6. Tokens' = Tokens
    BY <2>5, OnSem
  <2>7. Range(readyQ') = Range(readyQ) \cup {h} /\ h \in Waiting[s]
    BY <1>2, <1>5, <2>1, StateFacts, RangeAppend, ValueFacts DEF h
  <2> QED
    BY <1>1, <1>3, <1>4, <2>4, <2>6, <2>7 DEF Abstract!V
<1>6. CASE (sem'[s] > 0 \/ semQ[s] = <<>>) /\ semQ' = semQ /\ readyQ' = readyQ
  <2>1. semQ[s] = <<>> /\ sem[s] >= 0 /\ Waiting[s] = {}
    BY <1>2, <1>6, ValueFacts
  <2>2. \A t \in Sem : Tokens'[t] = IF t = s THEN Tokens[s] + 1 ELSE Tokens[t]
    BY <1>2, <2>1, ValueFacts, ValueNextFacts
  <2>3. Tokens' = [Tokens EXCEPT ![s] = @ + 1]
    BY <1>2, <2>2, OnSem
  <2>4. Waiting' = Waiting
    BY <1>6 DEF Waiting
  <2> QED
    BY <1>1, <1>3, <1>4, <1>6, <2>1, <2>3, <2>4 DEF Abstract!V
<1> QED
  BY <1>1, <1>5, <1>6

(* A P that waits: SYS4, SYS7 and SYS8. *)
LEMMA BlocksAsP ==
  ASSUME IInv, IInv', mode = "run", NEW s \in Sem,
         sem' = [sem EXCEPT ![s] = @ - 1], sem'[s] < 0, InsertBlocked(s),
         NEW soft, Scheduler(readyQ, processCount, soft), kids' = kids
  PROVE  Abstract!P(s)
<1> DEFINE c == currentProcess
<1>1. c \in Pcb
  BY StateFacts
<1>2. semQ' = [semQ EXCEPT ![s] = Append(@, c)]
  <2>1. DescriptorFor(s)
    BY <1>1, DescriptorsSuffice DEF IInv, TypeOK, DescriptorFor
  <2> QED
    BY <2>1 DEF InsertBlocked
<1>3. /\ sem[s] \in Int /\ sem'[s] = sem[s] - 1
      /\ \A t \in Sem : t # s => sem'[t] = sem[t]
  BY StateFacts
<1>4. /\ \A t \in Sem : semQ'[t] = IF t = s THEN Append(semQ[s], c) ELSE semQ[t]
      /\ Range(Append(semQ[s], c)) = Range(semQ[s]) \cup {c}
      /\ Len(Append(semQ[s], c)) = Len(semQ[s]) + 1
  BY <1>1, <1>2, StateFacts, RangeAppend
<1>5. \A t \in Sem : Waiting'[t] = IF t = s THEN Waiting[s] \cup {c} ELSE Waiting[t]
  BY <1>4, WaitingFacts
<1>6. Waiting' = [Waiting EXCEPT ![s] = @ \cup {c}]
  BY <1>5, OnSem
<1>7. Tokens[s] = 0 /\ Tokens' = Tokens
  <2>1. \A t \in Sem : Tokens'[t] = Tokens[t]
    BY <1>3, ValueFacts, ValueNextFacts
  <2> QED
    BY <1>3, <2>1, ValueFacts, OnSem
<1>8. Owed' = Owed
  <2>1. ASSUME NEW t \in Sem PROVE Owed'[t] = Owed[t]
    <3>1. CASE t \in Mutex
      BY <3>1, ValueFacts, ValueNextFacts
    <3>2. CASE t \in Semd /\ t # s
      BY <1>3, <1>4, <3>2, ValueFacts, ValueNextFacts
    <3>3. CASE t \in Semd /\ t = s
      <4>1. Len(semQ'[s]) = Len(semQ[s]) + 1
        BY <1>4
      <4> QED
        BY <1>3, <3>3, <4>1, ValueFacts, ValueNextFacts
    <3> QED
      BY <3>1, <3>2, <3>3, SemFacts
  <2> QED
    BY <2>1, OnSem
<1>9. Abstract!Serve(Range(readyQ))
  BY StateFacts, SchedulerServes
<1>10. Parent' = Parent /\ Rest = "run"
  BY ParentKept DEF Rest
<1> QED
  BY <1>6, <1>7, <1>8, <1>9, <1>10 DEF Abstract!P

(* A P that passes: SYS4 and SYS8. *)
LEMMA PassesAsP ==
  ASSUME IInv, IInv', mode = "run", NEW s \in Sem,
         sem' = [sem EXCEPT ![s] = @ - 1], sem'[s] >= 0, Resume,
         UNCHANGED <<readyQ, semQ, kids>>
  PROVE  Abstract!P(s)
<1>1. /\ sem[s] \in Int /\ sem'[s] = sem[s] - 1
      /\ \A t \in Sem : t # s => sem'[t] = sem[t]
  BY StateFacts
<1>2. \A t \in Sem : Tokens'[t] = IF t = s THEN Tokens[s] - 1 ELSE Tokens[t]
  BY <1>1, ValueFacts, ValueNextFacts
<1>3. Tokens[s] > 0 /\ Tokens' = [Tokens EXCEPT ![s] = @ - 1]
  BY <1>1, <1>2, ValueFacts, OnSem
<1>4. Owed' = Owed
  <2>1. ASSUME NEW t \in Sem PROVE Owed'[t] = Owed[t]
    BY <1>1, ValueFacts, ValueNextFacts, SemFacts
  <2> QED
    BY <2>1, OnSem
<1>5. /\ Waiting' = Waiting /\ Parent' = Parent /\ Rest' = Rest /\ Rest = "run"
      /\ currentProcess' = currentProcess /\ readyQ' = readyQ
  BY ParentKept DEF Waiting, Rest, Resume
<1> QED
  BY <1>3, <1>4, <1>5 DEF Abstract!P

(* SYS4, SYS7 and SYS8. *)
LEMMA WaitsAreP ==
  ASSUME IInv, IInv', NEW s \in Sem,
         \/ s \in Mutex /\ SysCall4(s)
         \/ s = Clock /\ SysCall7
         \/ s \in Device /\ SysCall8(s)
  PROVE  Abstract!P(s)
<1>1. /\ mode = "run" /\ sem' = [sem EXCEPT ![s] = @ - 1] /\ kids' = kids
  BY DEF SysCall4, SysCall7, SysCall8
<1>2. CASE /\ sem'[s] < 0 /\ InsertBlocked(s)
           /\ \E soft : Scheduler(readyQ, processCount, soft)
  BY <1>1, <1>2, BlocksAsP
<1>3. CASE sem'[s] >= 0 /\ Resume /\ UNCHANGED <<readyQ, semQ>>
  BY <1>1, <1>3, PassesAsP
<1>4. CASE SysCall7 /\ s = Clock
  <2>1. sem[Clock] \in Int /\ sem[Clock] <= 0
    BY <1>4, StateFacts DEF IInv, SemaphoresAgree
  <2>2. sem[Clock] - 1 < 0 /\ sem'[Clock] < 0
    BY <1>1, <1>4, <2>1, StateFacts
  <2>3. InsertBlocked(Clock) /\ Scheduler(readyQ, processCount, softBlockCount + 1)
    BY <1>4, <2>2 DEF SysCall7
  <2> QED
    BY <1>2, <1>4, <2>2, <2>3
<1> QED
  BY <1>2, <1>3, <1>4 DEF SysCall4, SysCall8

(* killEverything(): the subtree of the running process is its family, a Mutex *)
(* gets back what the victims took, and a device is left owing them an answer. *)
LEMMA KillEnds ==
  ASSUME IInv, IInv', mode = "run", KillEverything(Subtree(currentProcess))
  PROVE  Abstract!End
<1> DEFINE c == currentProcess
           K == Subtree(currentProcess)
<1>1. c \in Pcb /\ TypeOK /\ NoProcessLost /\ OneTree /\ OneTree'
  BY StateFacts DEF IInv
<1>2. /\ K \subseteq Live /\ c \in K /\ ChildClosed(kids, K)
      /\ \A y \in Pcb : \A x \in Range(kids[y]) : x \in K /\ x # c => y \in K
  BY <1>1, Killed
<1>3. Live \subseteq Pcb /\ kids \in [Pcb -> Seq(Pcb)] /\ \A p \in Pcb : IsInjective(kids[p])
  BY <1>1, StateFacts DEF TypeOK, OneTree
<1>4. ASSUME NEW p \in K, p # c
      PROVE  \E y \in K : p \in Range(kids[y])
  BY <1>1, <1>3, <1>4, DescendantHasParent DEF Subtree
<1>5. /\ kids' = [p \in Pcb |-> IF p \in K THEN <<>> ELSE Without(kids[p], {c})]
      /\ semQ' = [s \in Sem |-> Without(semQ[s], K)]
      /\ sem' = [s \in Sem |-> IF s \in Mutex
                              THEN sem[s] + Cardinality(Range(semQ[s]) \cap K)
                              ELSE sem[s]]
      /\ \E count, soft : Scheduler(Without(readyQ, K), count, soft)
  BY DEF KillEverything, KidsWithout, SemWithout, SoftWithout
<1> HIDE DEF K
<1>6. ASSUME NEW p \in Live \ {c} PROVE p \in K <=> Parent[p] \in K
  <2>1. ASSUME p \in K PROVE Parent[p] \in K
    <3>1. PICK y \in K : p \in Range(kids[y])
      BY <1>4, <2>1
    <3> QED
      BY <1>1, <1>2, <1>3, <3>1, ParentFacts
  <2>2. ASSUME Parent[p] \in K PROVE p \in K
    <3>1. Parent[p] # NULL
      BY <1>2, <1>3, <2>2, PcbAssumption
    <3>2. PICK q \in Pcb : p \in Range(kids[q])
      BY <1>1, <1>3, <3>1, ParentFacts
    <3>3. Parent[p] = q
      BY <1>1, <1>3, <3>2, ParentFacts
    <3> QED
      BY <1>2, <2>2, <3>2, <3>3 DEF ChildClosed
  <2> QED
    BY <2>1, <2>2
<1>7. Abstract!IsFamily(K)
  BY <1>2, <1>6, SameLive DEF Abstract!IsFamily
<1>8. \A p \in Pcb : Range(kids'[p]) = IF p \in K THEN {} ELSE Range(kids[p]) \ {c}
  BY <1>3, <1>5, WithoutMembers, EmptyQueue
<1>9. \A p \in Pcb : Parent'[p] = IF p \in K THEN NULL ELSE Parent[p]
  <2> SUFFICES ASSUME NEW p \in Pcb
               PROVE  Parent'[p] = IF p \in K THEN NULL ELSE Parent[p]
    OBVIOUS
  <2>1. CASE p \in K
    <3>1. \A q \in Pcb : p \notin Range(kids'[q])
      BY <1>2, <1>8, <2>1
    <3> QED
      BY <1>1, <2>1, <3>1, ParentNextFacts
  <2>2. CASE p \notin K /\ \E q \in Pcb : p \in Range(kids[q])
    <3>1. PICK q \in Pcb : p \in Range(kids[q])
      BY <2>2
    <3>2. p \in Range(kids'[q])
      BY <1>2, <1>8, <2>2, <3>1 DEF ChildClosed
    <3> QED
      BY <1>1, <2>2, <3>1, <3>2, ParentFacts, ParentNextFacts
  <2>3. CASE p \notin K /\ \A q \in Pcb : p \notin Range(kids[q])
    <3>1. \A q \in Pcb : p \notin Range(kids'[q])
      BY <1>8, <2>3
    <3> QED
      BY <1>1, <2>3, <3>1, ParentFacts, ParentNextFacts
  <2> QED
    BY <2>1, <2>2, <2>3
<1>10. Parent' = [p \in Pcb |-> IF p \in K THEN NULL ELSE Parent[p]]
  BY <1>1, <1>9, ParentNextFacts
<1>11. \A s \in Sem : /\ Range(semQ'[s]) = Range(semQ[s]) \ K
                      /\ Cardinality(Range(semQ[s]) \cap K) \in Nat
                      /\ Len(semQ'[s]) = Len(semQ[s]) - Cardinality(Range(semQ[s]) \cap K)
  <2> SUFFICES ASSUME NEW s \in Sem
               PROVE  /\ Range(semQ'[s]) = Range(semQ[s]) \ K
                      /\ Cardinality(Range(semQ[s]) \cap K) \in Nat
                      /\ Len(semQ'[s]) = Len(semQ[s]) - Cardinality(Range(semQ[s]) \cap K)
    OBVIOUS
  <2>1. semQ'[s] = Without(semQ[s], K) /\ semQ[s] \in Seq(Pcb) /\ IsInjective(semQ[s])
    BY <1>5, StateFacts
  <2>2. /\ semQ'[s] \in Seq(Pcb) /\ IsInjective(semQ'[s])
        /\ Range(semQ'[s]) = Range(semQ[s]) \ K
    BY <2>1, WithoutMembers
  <2>3. /\ IsFiniteSet(Range(semQ[s])) /\ Cardinality(Range(semQ[s])) = Len(semQ[s])
        /\ Cardinality(Range(semQ'[s])) = Len(semQ'[s])
    BY <2>1, <2>2, InjectiveLen
  <2>4. Cardinality(Range(semQ[s]) \ K)
          = Cardinality(Range(semQ[s])) - Cardinality(Range(semQ[s]) \cap K)
    BY <2>3, FS_Difference
  <2>5. Cardinality(Range(semQ[s]) \cap K) \in Nat
    BY <2>3, FS_Subset, FS_CardinalityType
  <2> QED
    BY <2>2, <2>3, <2>4, <2>5
<1>12. Waiting' = [s \in Sem |-> Waiting[s] \ K]
  BY <1>11, WaitingFacts, OnSem
<1>13. ASSUME NEW s \in Sem
       PROVE  /\ Tokens'[s] = Tokens[s]
              /\ Owed'[s] = IF s \in Semd THEN Owed[s] + Cardinality(Waiting[s] \cap K) ELSE 0
  <2> DEFINE killed == Cardinality(Range(semQ[s]) \cap K)
  <2>1. /\ killed \in Nat /\ Len(semQ'[s]) = Len(semQ[s]) - killed
        /\ sem'[s] = IF s \in Mutex THEN sem[s] + killed ELSE sem[s]
        /\ Cardinality(Waiting[s] \cap K) = killed
    BY <1>5, <1>11, WaitingFacts
  <2>2. semQ[s] = <<>> => killed = 0
    BY FS_EmptySet, EmptyQueue
  <2> HIDE DEF killed
  <2>3. /\ Len(semQ'[s]) \in Nat /\ Len(semQ[s]) \in Nat /\ sem[s] \in Int
    BY ValueFacts, ValueNextFacts
  <2>4. CASE s \in Mutex
    BY <2>1, <2>2, <2>3, <2>4, ValueFacts, ValueNextFacts, SemFacts
  <2>5. CASE s \in Semd
    BY <2>1, <2>2, <2>3, <2>5, ValueFacts, ValueNextFacts, SemFacts
  <2> QED
    BY <2>4, <2>5, SemFacts
<1>14. /\ Tokens' = Tokens
       /\ Owed' = [s \in Sem |-> IF s \in Semd THEN Owed[s] + Cardinality(Waiting[s] \cap K)
                                 ELSE 0]
  BY <1>13, OnSem
<1>15. Abstract!Serve(Range(readyQ) \ K)
  <2>1. PICK count, soft : Scheduler(Without(readyQ, K), count, soft)
    BY <1>5
  <2>2. /\ Without(readyQ, K) \in Seq(Pcb) /\ IsInjective(Without(readyQ, K))
        /\ Range(Without(readyQ, K)) = Range(readyQ) \ K
    BY StateFacts, WithoutMembers
  <2> QED
    BY <2>1, <2>2, SchedulerServes
<1>16. Rest = "run" /\ K \in SUBSET Abstract!Live
  BY <1>2, SameLive DEF Rest
<1>17. /\ Waiting' = [s \in Abstract!Sem |-> Waiting[s] \ K]
       /\ Owed' = [s \in Abstract!Sem |-> IF s \in Abstract!Semd
                                         THEN Owed[s] + Abstract!Cardinality(Waiting[s] \cap K)
                                         ELSE 0]
  BY <1>12, <1>14, SameSem, SameCardinality
<1> QED
  BY <1>7, <1>10, <1>14, <1>15, <1>16, <1>17 DEF Abstract!End

(* A process ends, unless the lists are left behind, and no step follows. *)
LEMMA TerminateEnds ==
  ASSUME IInv, IInv', mode = "run", Terminate
  PROVE  Abstract!End \/ UNCHANGED Abstract!vars
<1>1. CASE /\ mode' = "broken"
           /\ UNCHANGED <<free, readyQ, currentProcess, kids, semQ, sem,
                          processCount, softBlockCount, traps, busy>>
  <2>1. Waiting' = Waiting /\ Tokens' = Tokens /\ Owed' = Owed /\ Parent' = Parent
    BY <1>1 DEF Waiting, Tokens, Owed, Parent
  <2>2. Rest' = Rest
    BY <1>1 DEF Rest
  <2> QED
    BY <1>1, <2>1, <2>2 DEF Abstract!vars
<1>2. CASE KillEverything(Subtree(currentProcess))
  BY <1>2, KillEnds
<1> QED
  BY <1>1, <1>2 DEF Terminate

------------------------------------------------------------------------------
(* Interrupts. *)

(* Line 1.  While the machine waits there is nobody to run instead. *)
LEMMA LocalTimerPreempts ==
  ASSUME IInv, IInv', LocalTimer
  PROVE  Abstract!Preempt \/ UNCHANGED Abstract!vars
<1>1. /\ mode \in {"run", "wait"} /\ Done(readyQ, softBlockCount)
      /\ kids' = kids /\ semQ' = semQ /\ sem' = sem
  BY DEF LocalTimer
<1>2. Waiting' = Waiting /\ Tokens' = Tokens /\ Owed' = Owed /\ Parent' = Parent
  BY <1>1, ParentKept DEF Waiting, Tokens, Owed
<1>3. Abstract!Serve(Abstract!Runnable)
  <2> DEFINE D == {}
  <2>1. Range(readyQ) = Range(readyQ) \cup D /\ currentProcess \notin D
    OBVIOUS
  <2> HIDE DEF D
  <2>2. Abstract!Serve(Abstract!Runnable \cup D)
    BY <1>1, <2>1, StateFacts, DoneServes
  <2>3. Abstract!Runnable \cup D = Abstract!Runnable
    BY DEF D
  <2> QED
    BY <2>2, <2>3
<1>4. CASE mode = "run"
  BY <1>2, <1>3, <1>4 DEF Abstract!Preempt, Rest
<1>5. CASE mode = "wait"
  <2>1. currentProcess = NULL /\ readyQ = <<>> /\ Range(readyQ) = {}
    BY <1>5, EmptyQueue DEF IInv, ModeAgrees
  <2>2. Abstract!Runnable = {}
    BY <2>1 DEF Abstract!Runnable
  <2>3. currentProcess' = NULL /\ Range(readyQ') = {}
    BY <1>3, <2>2 DEF Abstract!Serve
  <2>4. PICK s \in Semd : semQ[s] # <<>>
    BY <1>5 DEF IInv, VerdictIsRight
  <2>5. Waiting'[s] # {}
    BY <1>1, <2>4, StateFacts, SemFacts, RangeEmpty, WaitingFacts
  <2>6. Rest' = "wait"
    BY <1>3, <2>3, <2>5, SameSem DEF Abstract!Serve
  <2> QED
    BY <1>2, <1>5, <2>1, <2>3, <2>6, RestFacts DEF Abstract!vars
<1> QED
  BY <1>1, <1>4, <1>5

(* Line 2. *)
LEMMA IntervalTimerTicks ==
  ASSUME IInv, IInv', IntervalTimer
  PROVE  Abstract!Tick
<1> DEFINE w == semQ[Clock]  q == readyQ \o w
<1>1. /\ mode \in {"run", "wait"} /\ kids' = kids
      /\ semQ' = [semQ EXCEPT ![Clock] = <<>>]
      /\ sem' = [sem EXCEPT ![Clock] = 0]
      /\ Done(q, softBlockCount - Len(w))
  BY DEF IntervalTimer
<1>2. /\ Clock \in Sem /\ Clock \in Semd /\ w \in Seq(Pcb) /\ IsInjective(w)
      /\ sem[Clock] \in Int /\ sem[Clock] <= 0
  BY StateFacts, SemFacts DEF IInv, SemaphoresAgree
<1>3. Range(readyQ) \cap Range(w) = {} /\ currentProcess \notin Range(w) /\ Range(w) = Waiting[Clock]
  BY <1>2, WaitingFacts DEF IInv, NoProcessLost, Blocked
<1>4. /\ semQ'[Clock] = <<>> /\ \A s \in Sem : s # Clock => semQ'[s] = semQ[s]
      /\ sem'[Clock] = 0 /\ \A s \in Sem : s # Clock => sem'[s] = sem[s]
  BY <1>1, <1>2, StateFacts
<1> HIDE DEF w
<1>5. q \in Seq(Pcb) /\ IsInjective(q) /\ Range(q) = Range(readyQ) \cup Range(w)
  BY <1>2, <1>3, StateFacts, RangeConcat
<1> HIDE DEF q
<1>6. Abstract!Serve(Abstract!Runnable \cup Waiting[Clock])
  BY <1>1, <1>3, <1>5, DoneServes
<1>7. \A s \in Sem : Waiting'[s] = IF s = Clock THEN {} ELSE Waiting[s]
  BY <1>4, WaitingFacts, EmptyQueue
<1>8. \A s \in Sem : /\ Tokens'[s] = Tokens[s]
                     /\ Owed'[s] = IF s = Clock THEN 0 ELSE Owed[s]
  BY <1>2, <1>4, ValueFacts, ValueNextFacts, SemFacts
<1>9. /\ Waiting' = [Waiting EXCEPT ![Clock] = {}]
      /\ Tokens' = Tokens /\ Owed' = [Owed EXCEPT ![Clock] = 0]
  BY <1>2, <1>7, <1>8, OnSem
<1> QED
  BY <1>1, <1>6, <1>9, ParentKept, RestFacts DEF Abstract!Tick

(* Lines 3 to 7, also where the device is still owing an answer to the dead. *)
LEMMA SignalAnswers ==
  ASSUME IInv, IInv', NEW d \in Device, mode \in {"run", "wait"}, Signal(d)
  PROVE  Abstract!Answer(d)
<1>1. /\ sem' = [sem EXCEPT ![d] = @ + 1] /\ kids' = kids
      /\ \/ /\ sem'[d] <= 0 /\ semQ[d] # <<>>
            /\ semQ' = [semQ EXCEPT ![d] = Tail(@)]
            /\ Done(Append(readyQ, Head(semQ[d])), softBlockCount - 1)
         \/ /\ sem'[d] > 0 \/ semQ[d] = <<>>
            /\ Done(readyQ, softBlockCount)
            /\ UNCHANGED semQ
  BY DEF Signal
<1>2. /\ d \in Sem /\ d \in Semd /\ d \notin Mutex
      /\ sem[d] \in Int /\ sem'[d] = sem[d] + 1
      /\ \A t \in Sem : t # d => sem'[t] = sem[t]
  BY <1>1, StateFacts, SemFacts
<1>3. Parent' = Parent /\ Rest \in {"run", "wait"}
  BY <1>1, ParentKept, RestFacts
<1>4. CASE /\ sem'[d] <= 0 /\ semQ[d] # <<>>
           /\ semQ' = [semQ EXCEPT ![d] = Tail(@)]
           /\ Done(Append(readyQ, Head(semQ[d])), softBlockCount - 1)
  <2> DEFINE h == Head(semQ[d])  r == Tail(semQ[d])  q == Append(readyQ, h)  D == {h}
  <2>1. /\ h \in Range(semQ[d]) /\ h \in Pcb /\ Range(r) = Range(semQ[d]) \ {h}
        /\ Len(r) = Len(semQ[d]) - 1
    BY <1>2, <1>4, StateFacts, RangeTail
  <2>2. \A t \in Sem : semQ'[t] = IF t = d THEN r ELSE semQ[t]
    BY <1>4, StateFacts
  <2>3. Done(q, softBlockCount - 1)
    BY <1>4
  <2> HIDE DEF h, r
  <2>4. \A t \in Sem : Waiting'[t] = IF t = d THEN Waiting[d] \ {h} ELSE Waiting[t]
    BY <1>2, <2>1, <2>2, WaitingFacts
  <2>5. h \notin Range(readyQ) /\ h # currentProcess
    BY <1>2, <2>1 DEF IInv, NoProcessLost, Blocked
  <2>6. q \in Seq(Pcb) /\ IsInjective(q) /\ Range(q) = Range(readyQ) \cup D
    BY <2>1, <2>5, StateFacts, RangeAppend
  <2>7. currentProcess \notin D
    BY <2>5
  <2> HIDE DEF q, D
  <2>8. Abstract!Serve(Abstract!Runnable \cup D)
    BY <2>3, <2>6, <2>7, DoneServes
  <2>9. ASSUME NEW t \in Sem PROVE Tokens'[t] = Tokens[t] /\ Owed'[t] = Owed[t]
    <3>1. CASE t # d
      <4>1. sem'[t] = sem[t] /\ semQ'[t] = semQ[t]
        BY <1>2, <2>2, <3>1
      <4> QED
        BY <4>1, ValueFacts, ValueNextFacts, SemFacts
    <3>2. CASE t = d
      <4>1. Len(semQ'[d]) = Len(semQ[d]) - 1 /\ Len(semQ[d]) <= - sem[d]
            /\ Len(semQ[d]) \in Nat /\ Len(semQ[d]) # 0
        BY <1>2, <1>4, <2>1, <2>2, ValueFacts
      <4> QED
        BY <1>2, <1>4, <3>2, <4>1, ValueFacts, ValueNextFacts
    <3> QED
      BY <3>1, <3>2
  <2>10. Waiting' = [Waiting EXCEPT ![d] = @ \ D] /\ Tokens' = Tokens /\ Owed' = Owed
    BY <1>2, <2>4, <2>9, OnSem DEF D
  <2>11. h \in Waiting[d] /\ D = {h}
    BY <1>2, <2>1, WaitingFacts DEF D
  <2> QED
    BY <1>3, <2>8, <2>10, <2>11 DEF Abstract!Answer
<1>5. CASE /\ sem'[d] > 0 \/ semQ[d] = <<>>
           /\ Done(readyQ, softBlockCount)
           /\ UNCHANGED semQ
  <2>1. semQ[d] = <<>> /\ Waiting[d] = {} /\ Len(semQ[d]) = 0
    BY <1>2, <1>5, ValueFacts
  <2>2. Waiting' = Waiting
    BY <1>5 DEF Waiting
  <2>3. Abstract!Serve(Abstract!Runnable)
    <3> DEFINE D == {}
    <3>1. Range(readyQ) = Range(readyQ) \cup D /\ currentProcess \notin D
      OBVIOUS
    <3> HIDE DEF D
    <3>2. Abstract!Serve(Abstract!Runnable \cup D)
      BY <1>5, <3>1, StateFacts, DoneServes
    <3>3. Abstract!Runnable \cup D = Abstract!Runnable
      BY DEF D
    <3> QED
      BY <3>2, <3>3
  <2>4. ASSUME NEW t \in Sem, t # d PROVE Tokens'[t] = Tokens[t] /\ Owed'[t] = Owed[t]
    <3>1. sem'[t] = sem[t] /\ semQ'[t] = semQ[t]
      BY <1>2, <1>5, <2>4
    <3> QED
      BY <3>1, ValueFacts, ValueNextFacts, SemFacts
  <2>5. Len(semQ'[d]) = 0
    BY <1>5, <2>1
  <2>6. /\ Tokens[d] = IF sem[d] > 0 THEN sem[d] ELSE 0
        /\ Owed[d] = IF sem[d] < 0 THEN - sem[d] ELSE 0
    <3>1. /\ Tokens[d] = IF sem[d] > 0 THEN sem[d] ELSE 0
          /\ Owed[d] = IF sem[d] < 0 THEN - sem[d] - Len(semQ[d]) ELSE 0
      BY <1>2, ValueFacts
    <3> QED
      BY <1>2, <2>1, <3>1
  <2>7. /\ Tokens'[d] = IF sem'[d] > 0 THEN sem'[d] ELSE 0
        /\ Owed'[d] = IF sem'[d] < 0 THEN - sem'[d] ELSE 0
    <3>1. /\ Tokens'[d] = IF sem'[d] > 0 THEN sem'[d] ELSE 0
          /\ Owed'[d] = IF sem'[d] < 0 THEN - sem'[d] - Len(semQ'[d]) ELSE 0
      BY <1>2, ValueNextFacts
    <3> QED
      BY <1>2, <2>5, <3>1
  <2>8. CASE sem[d] < 0
    <3>1. Owed[d] > 0 /\ Owed'[d] = Owed[d] - 1 /\ Tokens'[d] = Tokens[d]
      <4>1. sem[d] <= -1 /\ sem'[d] <= 0 /\ (sem'[d] < 0 \/ sem'[d] = 0)
        BY <1>2, <2>8
      <4>2. Owed[d] = - sem[d] /\ Tokens[d] = 0
        BY <1>2, <2>6, <4>1
      <4>3. Owed'[d] = - sem'[d] /\ Tokens'[d] = 0
        BY <1>2, <2>7, <4>1
      <4> QED
        BY <1>2, <4>1, <4>2, <4>3
    <3>2. Owed' = [Owed EXCEPT ![d] = @ - 1] /\ Tokens' = Tokens
      BY <1>2, <2>4, <3>1, OnSem
    <3> QED
      BY <1>3, <2>1, <2>2, <2>3, <3>1, <3>2 DEF Abstract!Answer
  <2>9. CASE sem[d] >= 0
    <3>1. Owed[d] = 0 /\ Owed'[d] = Owed[d] /\ Tokens'[d] = Tokens[d] + 1
      BY <1>2, <2>9, <2>6, <2>7
    <3>2. Tokens' = [Tokens EXCEPT ![d] = @ + 1] /\ Owed' = Owed
      BY <1>2, <2>4, <3>1, OnSem
    <3> QED
      BY <1>3, <2>1, <2>2, <2>3, <3>1, <3>2 DEF Abstract!Answer
  <2> QED
    BY <1>2, <2>8, <2>9
<1> QED
  BY <1>1, <1>4, <1>5

------------------------------------------------------------------------------
(* Handlers that change nothing Lifecycle speaks of. *)
LEMMA Unnoticed ==
  ASSUME UNCHANGED <<readyQ, currentProcess, kids, semQ, sem, mode>>
  PROVE  UNCHANGED Abstract!vars
<1>1. Waiting' = Waiting /\ Tokens' = Tokens /\ Owed' = Owed /\ Parent' = Parent /\ Rest' = Rest
  BY DEF Waiting, Tokens, Owed, Parent, Rest
<1> QED
  BY <1>1 DEF Abstract!vars

(* SYS5, a trap that is passed up, a failing SYS1 and a command to a device are *)
(* such, unless they end the process.                                           *)
LEMMA OthersUnnoticed ==
  ASSUME IInv, IInv',
         \/ SysCall1Fails
         \/ \E t \in TrapTypes : SysCall5(t) \/ PassUpOrDie(t)
         \/ \E d \in Device : StartIO(d)
  PROVE  Abstract!End \/ UNCHANGED Abstract!vars
<1>1. CASE UNCHANGED <<readyQ, currentProcess, kids, semQ, sem, mode>>
  BY <1>1, Unnoticed
<1>2. CASE mode = "run" /\ Terminate
  BY <1>2, TerminateEnds
<1>3. SysCall1Fails => UNCHANGED <<readyQ, currentProcess, kids, semQ, sem, mode>>
  BY DEF SysCall1Fails, vars
<1>4. ASSUME NEW t \in TrapTypes, SysCall5(t) \/ PassUpOrDie(t)
      PROVE  \/ UNCHANGED <<readyQ, currentProcess, kids, semQ, sem, mode>>
             \/ mode = "run" /\ Terminate
  BY <1>4 DEF SysCall5, PassUpOrDie, Resume, vars
<1>5. ASSUME NEW d \in Device, StartIO(d)
      PROVE  UNCHANGED <<readyQ, currentProcess, kids, semQ, sem, mode>>
  BY <1>5 DEF StartIO
<1> QED
  BY <1>1, <1>2, <1>3, <1>4, <1>5

(* main() starts what Lifecycle starts. *)
LEMMA InitMaps ==
  ASSUME Init
  PROVE  Abstract!Init
<1>1. /\ readyQ = <<>> /\ currentProcess = RootPcb /\ mode = "run"
      /\ kids = [p \in Pcb |-> <<>>] /\ semQ = [s \in Sem |-> <<>>]
      /\ sem \in [Sem -> 0 .. MaxSem] /\ \A s \in Semd : sem[s] = 0
  BY DEF Init
<1>2. \A s \in Sem : sem[s] \in Nat /\ semQ[s] = <<>>
  BY <1>1, BoundAssumption
<1>3. Range(readyQ) = {} /\ Rest = "run"
  BY <1>1, EmptyQueue DEF Rest
<1>4. Waiting = [s \in Abstract!Sem |-> {}]
  BY <1>2, SameSem, EmptyQueue DEF Waiting
<1>5. Tokens \in [Abstract!Sem -> Nat] /\ \A s \in Abstract!Semd : Tokens[s] = 0
  BY <1>1, <1>2, SameSem, SemFacts DEF Tokens
<1>6. Owed = [s \in Abstract!Sem |-> 0]
  BY <1>2, SameSem DEF Owed
<1>7. Parent = [p \in Pcb |-> NULL]
  BY <1>1, EmptyQueue DEF Parent
<1> QED
  BY <1>1, <1>3, <1>4, <1>5, <1>6, <1>7 DEF Abstract!Init

(* Every step of the nucleus is a step of Lifecycle, or none. *)
LEMMA StepMaps ==
  ASSUME IInv, IInv', [Next]_vars
  PROVE  [Abstract!Next]_(Abstract!vars)
<1>1. CASE SysCall1
  BY <1>1, SysCall1Creates DEF Abstract!Next
<1>2. CASE SysCall2
  BY <1>2, TerminateEnds DEF SysCall2, Abstract!Next
<1>3. CASE SysCall7
  <2>1. Clock \in Abstract!Sem
    BY SameSem, SemFacts
  <2>2. Abstract!P(Clock)
    BY <1>3, WaitsAreP, SemFacts
  <2> QED
    BY <2>1, <2>2 DEF Abstract!Next
<1>4. ASSUME NEW s \in Mutex, SysCall3(s) \/ SysCall4(s)
      PROVE  Abstract!Next
  <2>1. s \in Abstract!Sem
    BY SameSem, SemFacts
  <2>2. Abstract!V(s) \/ Abstract!P(s)
    BY <1>4, SysCall3IsV, WaitsAreP, SemFacts
  <2> QED
    BY <2>1, <2>2 DEF Abstract!Next
<1>5. ASSUME NEW d \in Device, SysCall8(d) \/ DeviceInterrupt(d)
      PROVE  Abstract!Next
  <2>1. d \in Abstract!Sem
    BY SameSem, SemFacts
  <2>2. Abstract!P(d) \/ Abstract!Answer(d)
    BY <1>5, WaitsAreP, SignalAnswers, SemFacts DEF DeviceInterrupt
  <2> QED
    BY <2>1, <2>2 DEF Abstract!Next
<1>6. CASE \/ SysCall1Fails
           \/ \E t \in TrapTypes : SysCall5(t) \/ PassUpOrDie(t)
           \/ \E d \in Device : StartIO(d)
  BY <1>6, OthersUnnoticed DEF Abstract!Next
<1>7. CASE LocalTimer
  BY <1>7, LocalTimerPreempts DEF Abstract!Next
<1>8. CASE IntervalTimer
  BY <1>8, IntervalTimerTicks DEF Abstract!Next
<1>9. CASE UNCHANGED vars
  BY <1>9, Unnoticed DEF vars
<1> QED
  BY <1>1, <1>2, <1>3, <1>4, <1>5, <1>6, <1>7, <1>8, <1>9 DEF Next

(* The nucleus, with its queues, counters, descriptors and semaphore values, *)
(* does to the processes what Lifecycle says and nothing else.               *)
THEOREM Implementation == Spec => ImplementsLifecycle
<1>1. Init => Abstract!Init
  BY InitMaps
<1>2. IInv /\ IInv' /\ [Next]_vars => [Abstract!Next]_(Abstract!vars)
  BY StepMaps
<1> QED
  BY <1>1, <1>2, Invariance, PTL DEF Spec, Abstract!Spec, ImplementsLifecycle

------------------------------------------------------------------------------
(* Interrupt lines. *)

(* Only a device at work answers. *)
LineInv == IInv /\ answered \subseteq busy

(* getDevice() and the terminal's handler find a device, whichever lines are *)
(* pending.                                                                  *)
LEMMA ChosenIsDevice ==
  ASSUME LineInv, answered # {}
  PROVE  Chosen \in Device
<1>1. answered \subseteq busy /\ busy \subseteq Device
  BY DEF LineInv, IInv, TypeOK
<1> DEFINE N == {Position[e] : e \in answered}
<1>2. N \in SUBSET Nat /\ N # {}
  BY <1>1, PositionAssumption
<1>3. PICK n \in N : \A m \in N : n <= m
  BY <1>2, LeastNat
<1>4. Min(N) \in N
  BY <1>3 DEF Min
<1>5. PICK e \in answered : Position[e] = Min(N)
  BY <1>4
<1>6. e \in Selected /\ e \in busy /\ Selected \subseteq Device
  BY <1>1, <1>5 DEF Selected
<1>7. \E d \in Selected : d \in Receivers <=> \A t \in Selected \ Receivers : t \notin busy
  <2>1. CASE e \notin Receivers
    BY <1>6, <2>1
  <2>2. CASE e \in Receivers /\ \A t \in Selected \ Receivers : t \notin busy
    BY <1>6, <2>2
  <2>3. CASE \E t \in Selected \ Receivers : t \in busy
    BY <2>3
  <2> QED
    BY <2>1, <2>2, <2>3
<1>8. Chosen \in Selected
  BY <1>7 DEF Chosen
<1> QED
  BY <1>6, <1>8

(* An acknowledgement ends the work of a device that has answered. *)
LEMMA AcknowledgeStep ==
  ASSUME LineInv, NEW d, Acknowledge(d)
  PROVE  busy' \in SUBSET Device /\ answered' \subseteq busy'
BY DEF Acknowledge, LineInv, IInv, TypeOK

(* Lines 3 to 7. *)
LEMMA DeviceLineStep ==
  ASSUME LineInv, DeviceLine
  PROVE  LineInv' /\ Abstract!Next
<1> DEFINE d == Chosen
<1>1. /\ Taken /\ answered # {} /\ Signal(d) /\ Acknowledge(d)
  BY DEF DeviceLine, SelectsDevice
<1>2. d \in Device /\ mode \in {"run", "wait"}
  BY <1>1, ChosenIsDevice DEF Taken
<1> HIDE DEF d
<1>3. busy' \in SUBSET Device /\ answered' \subseteq busy'
  BY <1>1, AcknowledgeStep
<1>4. IInv'
  BY <1>1, <1>2, <1>3, SignalStep DEF LineInv
<1>5. Abstract!Answer(d)
  BY <1>1, <1>2, <1>4, SignalAnswers DEF LineInv
<1> QED
  BY <1>2, <1>3, <1>4, <1>5 DEF LineInv, Abstract!Next

(* Every other step is one of the nucleus, or none. *)
LEMMA OtherLineStep ==
  ASSUME [LineNext]_lineVars, ~ DeviceLine
  PROVE  [Next]_vars
<1>1. Call \/ (\E d \in Device : WaitIO(d) \/ Command(d)) => Next
  BY DEF Call, WaitIO, Command, Next
<1>2. Line1 \/ Line2 => Next
  BY DEF Line1, Line2, Next
<1>3. QuantumEnds \/ ClockEnds \/ (\E d \in Device : Answers(d)) => UNCHANGED vars
  BY DEF QuantumEnds, ClockEnds, Answers
<1>4. UNCHANGED lineVars => UNCHANGED vars
  BY DEF lineVars
<1> QED
  BY <1>1, <1>2, <1>3, <1>4 DEF LineNext

(* No device stops to work before its answer is acknowledged. *)
LEMMA AnsweredStep ==
  ASSUME LineInv, [LineNext]_lineVars
  PROVE  answered' \subseteq busy'
<1>1. answered \subseteq busy
  BY DEF LineInv
<1>2. CASE DeviceLine
  BY <1>2, AcknowledgeStep DEF DeviceLine
<1>3. CASE UNCHANGED lineVars
  BY <1>1, <1>3 DEF lineVars, vars
<1>4. Terminate => busy' = busy
  BY DEF Terminate, KillEverything
<1>5. CASE Call
  BY <1>1, <1>4, <1>5
     DEF Call, SysCall1, SysCall2, SysCall3, SysCall4, SysCall7
<1>6. CASE \E d \in Device : WaitIO(d) \/ Command(d) \/ Answers(d)
  BY <1>1, <1>6 DEF WaitIO, Command, Answers, SysCall8, StartIO, vars
<1>7. CASE QuantumEnds \/ ClockEnds
  BY <1>1, <1>7 DEF QuantumEnds, ClockEnds, vars
<1>8. CASE Line1 \/ Line2
  BY <1>1, <1>8 DEF Line1, Line2, LocalTimer, IntervalTimer
<1> QED
  BY <1>2, <1>3, <1>5, <1>6, <1>7, <1>8 DEF LineNext

LEMMA LineStep ==
  ASSUME LineInv, [LineNext]_lineVars
  PROVE  LineInv' /\ [Abstract!Next]_(Abstract!vars)
<1>1. CASE DeviceLine
  BY <1>1, DeviceLineStep
<1>2. CASE ~ DeviceLine
  <2>1. [Next]_vars
    BY <1>2, OtherLineStep
  <2>2. IInv'
    BY <2>1, NextStep DEF LineInv
  <2>3. [Abstract!Next]_(Abstract!vars)
    BY <2>1, <2>2, StepMaps DEF LineInv
  <2> QED
    BY <2>2, <2>3, AnsweredStep DEF LineInv
<1> QED
  BY <1>1, <1>2

(* The invariant of the nucleus, with every line pending or not. *)
THEOREM LineInvariance == LineSpec => []LineInv
<1>1. LineInit => LineInv
  BY InitStep DEF LineInit, LineInv
<1>2. LineInv /\ [LineNext]_lineVars => LineInv'
  BY LineStep
<1> QED
  BY <1>1, <1>2, PTL DEF LineSpec

(* Whatever lines are pending together, and whichever half of a terminal is   *)
(* signalled, the processes see what Lifecycle says.                          *)
THEOREM LineImplementation == LineSpec => ImplementsLifecycle
<1>1. LineInit => Abstract!Init
  BY InitMaps DEF LineInit
<1>2. LineInv /\ [LineNext]_lineVars => [Abstract!Next]_(Abstract!vars)
  BY LineStep
<1> QED
  BY <1>1, <1>2, LineInvariance, PTL DEF LineSpec, Abstract!Spec, ImplementsLifecycle

------------------------------------------------------------------------------
(* Processor time. *)

(* Every step around a handler of the nucleus is a step of the nucleus. *)
LEMMA TimeStepIsStep == [TimeNext]_timeVars => [Next]_vars
<1>1. SysCall1 \/ SysCall2 \/ SysCall7 \/ LocalTimer \/ IntervalTimer => Next
  BY DEF Next
<1>2. \A s \in Mutex : SysCall3(s) \/ SysCall4(s) => Next
  BY DEF Next
<1>3. Compute \/ (\E c \in 0 .. MaxHandler : SysCall6(c)) => UNCHANGED vars
  BY DEF Compute, SysCall6
<1>4. ASSUME NEW c \in 0 .. MaxHandler,
             Create(c) \/ End(c) \/ WaitsForClock(c) \/ Preempt(c) \/ Tick(c)
      PROVE  Next
  BY <1>1, <1>4 DEF Create, End, WaitsForClock, Preempt, Tick
<1>5. ASSUME NEW c \in 0 .. MaxHandler, NEW s \in Mutex, Signals(c, s) \/ Waits(c, s)
      PROVE  Next
  BY <1>2, <1>5 DEF Signals, Waits
<1>6. UNCHANGED timeVars => UNCHANGED vars
  BY DEF timeVars
<1> QED
  BY <1>3, <1>4, <1>5, <1>6 DEF TimeNext

(* The theorems about the nucleus hold here too. *)
THEOREM TimeSpecIsSpec == TimeSpec => Spec
<1>1. TimeInit => Init
  BY DEF TimeInit
<1> QED
  BY <1>1, TimeStepIsStep, PTL DEF TimeSpec, Spec

------------------------------------------------------------------------------
(* A process that runs after scheduler() was dispatched when it returned. *)
LEMMA Dispatched ==
  ASSUME IInv', mode' # "broken", Dispatch
  PROVE  \A p \in Pcb : p = currentProcess' => startTOD' = now'
<1>1. mode' \in Modes /\ mode' # "returned"
  BY DEF IInv, TypeOK, VerdictIsRight
<1>2. mode' = "run" \/ currentProcess' = NULL
  BY <1>1 DEF IInv, ModeAgrees, Modes
<1> QED
  BY <1>2, PcbAssumption DEF Dispatch

(* A handler that ends in scheduler() and charges the processes that live on   *)
(* with what they used, and nothing but the time since their creation.         *)
LEMMA HandlerStep ==
  ASSUME TimeInv, IInv', mode' # "broken", Dispatch,
         NEW c \in Nat, now' = now + c,
         p_time' \in [Pcb -> Int], twice' \in [Pcb -> Int], used' = used, born' = born,
         \A p \in Pcb \ free' : /\ used[p] <= p_time'[p]
                                /\ p_time'[p] - twice'[p] <= now + c - born[p]
  PROVE  TimeInv'
<1>1. /\ now \in Nat /\ startTOD \in Nat /\ startTOD <= now
      /\ used \in [Pcb -> Int] /\ born \in [Pcb -> Int]
  BY DEF TimeInv
<1>2. now' \in Nat /\ startTOD' \in Nat /\ startTOD' <= now'
  BY <1>1 DEF Dispatch
<1>3. \A p \in Pcb : CpuTime(p)' = p_time'[p]
  BY <1>2, Dispatched DEF CpuTime
<1>4. EnoughCpuTime' /\ ChargedOnce'
  BY <1>1, <1>3 DEF EnoughCpuTime, ChargedOnce
<1> QED
  BY <1>1, <1>2, <1>4 DEF TimeInv

(* What TimeInv says of a live process, running or not. *)
LEMMA TimeFacts ==
  ASSUME TimeInv
  PROVE  /\ now \in Nat /\ startTOD \in Nat /\ startTOD <= now
         /\ p_time \in [Pcb -> Int] /\ twice \in [Pcb -> Int]
         /\ used \in [Pcb -> Int] /\ born \in [Pcb -> Int]
         /\ \A p \in Pcb \ free : p # currentProcess =>
               used[p] <= p_time[p] /\ p_time[p] - twice[p] <= now - born[p]
         /\ \A p \in Pcb \ free : p = currentProcess =>
               /\ used[p] <= p_time[p] + (now - startTOD)
               /\ p_time[p] - twice[p] <= startTOD - born[p]
<1>1. /\ now \in Nat /\ startTOD \in Nat /\ startTOD <= now
      /\ p_time \in [Pcb -> Int] /\ twice \in [Pcb -> Int]
      /\ used \in [Pcb -> Int] /\ born \in [Pcb -> Int]
  BY DEF TimeInv
<1>2. ASSUME NEW p \in Pcb \ free
      PROVE  /\ p # currentProcess =>
                   used[p] <= p_time[p] /\ p_time[p] - twice[p] <= now - born[p]
             /\ p = currentProcess =>
                   /\ used[p] <= p_time[p] + (now - startTOD)
                   /\ p_time[p] - twice[p] <= startTOD - born[p]
  BY <1>1, <1>2 DEF TimeInv, EnoughCpuTime, ChargedOnce, CpuTime
<1> QED
  BY <1>1, <1>2

------------------------------------------------------------------------------
(* One lemma for each kind of step: it preserves TimeInv. *)

(* The running process uses a tick, and pays for it later. *)
LEMMA ComputeStep ==
  ASSUME TimeInv, IInv, Compute
  PROVE  TimeInv'
<1>1. /\ mode = "run" /\ now' = now + 1 /\ free' = free
      /\ currentProcess' = currentProcess
      /\ startTOD' = startTOD /\ p_time' = p_time /\ twice' = twice /\ born' = born
      /\ used' = [used EXCEPT ![currentProcess] = @ + 1]
  BY DEF Compute, Takes, vars
<1>2. currentProcess \in Pcb
  BY <1>1 DEF IInv, ModeAgrees
<1>3. EnoughCpuTime' /\ ChargedOnce'
  BY <1>1, <1>2, TimeFacts DEF EnoughCpuTime, ChargedOnce, CpuTime
<1> QED
  BY <1>1, <1>2, <1>3, TimeFacts DEF TimeInv

(* A handler that resumes its caller and charges nobody. *)
LEMMA ResumedStep ==
  ASSUME TimeInv, NEW c \in Nat, now' = now + c, free \subseteq free',
         currentProcess' = currentProcess,
         UNCHANGED <<startTOD, p_time, twice, used, born>>
  PROVE  TimeInv'
<1>1. EnoughCpuTime' /\ ChargedOnce'
  BY TimeFacts DEF EnoughCpuTime, ChargedOnce, CpuTime
<1> QED
  BY <1>1, TimeFacts DEF TimeInv

(* SYS1: a process starts with nothing charged. *)
LEMMA CreateStep ==
  ASSUME TimeInv, IInv, NEW c \in Nat, Create(c)
  PROVE  TimeInv'
<1>1. PICK new \in free : free' = free \ {new}
  BY DEF Create, SysCall1
<1>2. /\ now' = now + c /\ currentProcess' = currentProcess /\ startTOD' = startTOD
      /\ mode = "run"
  BY DEF Create, Takes, SysCall1, Resume
<1>3. free \in SUBSET Pcb /\ currentProcess \in Pcb \ free
  BY <1>2, StateFacts DEF IInv, TypeOK, NoProcessLost, Live
<1>4. free \ free' = {new} /\ new \in Pcb /\ new # currentProcess
  BY <1>1, <1>3
<1>5. /\ p_time' = [p \in Pcb |-> IF p = new THEN 0 ELSE p_time[p]]
      /\ twice' = [p \in Pcb |-> IF p = new THEN 0 ELSE twice[p]]
      /\ used' = [p \in Pcb |-> IF p = new THEN 0 ELSE used[p]]
      /\ born' = [p \in Pcb |-> IF p = new THEN now' ELSE born[p]]
  BY <1>4 DEF Create
<1>6. now' \in Nat /\ startTOD' <= now'
  BY <1>2, TimeFacts
<1>7. ASSUME NEW p \in Pcb \ free'
      PROVE  CpuTime(p)' >= used'[p] /\ CpuTime(p)' - twice'[p] <= now' - born'[p]
  <2>1. CASE p = new
    BY <1>2, <1>4, <1>5, <1>6, <2>1 DEF CpuTime
  <2>2. CASE p # new
    <3>1. p \in Pcb \ free
      BY <1>1, <2>2
    <3> QED
      BY <1>2, <1>5, <2>2, <3>1, TimeFacts DEF CpuTime
  <2> QED
    BY <2>1, <2>2
<1> QED
  BY <1>2, <1>5, <1>6, <1>7, TimeFacts DEF TimeInv, EnoughCpuTime, ChargedOnce

(* SYS2: what others were charged stays as it is. *)
LEMMA EndStep ==
  ASSUME TimeInv, IInv, IInv', NEW c \in Nat, End(c)
  PROVE  TimeInv'
<1>1. /\ now' = now + c /\ mode = "run" /\ Terminate /\ Dispatch
      /\ p_time' = p_time /\ twice' = twice /\ used' = used /\ born' = born
  BY DEF End, Takes, SysCall2
<1>2. CASE mode' = "broken"
  <2>1. free' = free /\ currentProcess' = currentProcess
    BY <1>1, <1>2 DEF Terminate, KillEverything, Scheduler
  <2>2. startTOD' = startTOD
    BY <1>1, <1>2 DEF Dispatch
  <2> QED
    BY <1>1, <2>1, <2>2, ResumedStep
<1>3. CASE mode' # "broken"
  <2>1. KillEverything(Subtree(currentProcess))
    BY <1>1, <1>3 DEF Terminate
  <2>2. currentProcess \in Pcb /\ currentProcess \in Subtree(currentProcess)
    BY <1>1, Killed, StateFacts DEF IInv
  <2>3. free' = free \cup Subtree(currentProcess)
    BY <2>1 DEF KillEverything
  <2>4. \A p \in Pcb \ free' : p \in Pcb \ free /\ p # currentProcess
    BY <2>2, <2>3
  <2>5. \A p \in Pcb \ free' : /\ used[p] <= p_time'[p]
                               /\ p_time'[p] - twice'[p] <= now + c - born[p]
    BY <1>1, <2>4, TimeFacts
  <2> QED
    BY <1>1, <1>3, <2>5, HandlerStep, TimeFacts
<1> QED
  BY <1>2, <1>3

(* SYS4: the caller pays, twice if it waits. *)
LEMMA WaitsStep ==
  ASSUME TimeInv, IInv, IInv', NEW c \in Nat, NEW s \in Mutex, Waits(c, s)
  PROVE  TimeInv'
<1>1. /\ now' = now + c /\ mode = "run" /\ SysCall4(s) /\ free' = free
      /\ used' = used /\ born' = born
  BY DEF Waits, Takes, SysCall4
<1>2. currentProcess \in Pcb
  BY <1>1, StateFacts
<1>3. CASE sem'[s] < 0
  <2>1. PICK k \in 0 .. c :
          /\ p_time' = [p_time EXCEPT ![currentProcess] = @ + (Elapsed(k) + Elapsed(c))]
          /\ twice' = [twice EXCEPT ![currentProcess] = @ + Elapsed(k)]
    BY <1>3 DEF Waits, Charge
  <2>2. Dispatch
    BY <1>3 DEF Waits
  <2>3. mode' # "broken"
    <3>1. sem[s] \in Int /\ sem'[s] < 0 /\ ~ (sem'[s] >= 0)
      <4>1. s \in Sem /\ sem' = [sem EXCEPT ![s] = @ - 1]
        BY <1>1, SemFacts DEF SysCall4
      <4> QED
        BY <1>3, <4>1, StateFacts
    <3>2. Scheduler(readyQ, processCount, softBlockCount)
      BY <1>1, <3>1 DEF SysCall4
    <3> QED
      BY <3>2, StateFacts DEF Scheduler
  <2>4. Elapsed(k) \in Int /\ Elapsed(c) \in Int /\ Elapsed(k) >= 0 /\ Elapsed(c) = now + c - startTOD
        /\ k \in Nat
    BY <2>1, TimeFacts DEF Elapsed
  <2>5. p_time' \in [Pcb -> Int] /\ twice' \in [Pcb -> Int]
    BY <1>2, <2>1, <2>4, TimeFacts
  <2>6. ASSUME NEW p \in Pcb \ free'
        PROVE  /\ used[p] <= p_time'[p]
               /\ p_time'[p] - twice'[p] <= now + c - born[p]
    <3>1. CASE p = currentProcess
      BY <1>1, <1>2, <2>1, <2>4, <3>1, TimeFacts
    <3>2. CASE p # currentProcess
      BY <1>1, <2>1, <3>2, TimeFacts
    <3> QED
      BY <3>1, <3>2
  <2> QED
    BY <1>1, <2>2, <2>3, <2>5, <2>6, HandlerStep
<1>4. CASE ~ (sem'[s] < 0)
  <2>1. p_time' = p_time /\ twice' = twice /\ startTOD' = startTOD
    BY <1>4 DEF Waits
  <2>2. currentProcess' = currentProcess
    BY <1>1, <1>4 DEF SysCall4, Resume
  <2> QED
    BY <1>1, <2>1, <2>2, ResumedStep
<1> QED
  BY <1>3, <1>4

(* SYS3: whoever is released was charged when it began to wait. *)
LEMMA SignalsStep ==
  ASSUME TimeInv, IInv, NEW c \in Nat, NEW s \in Mutex, Signals(c, s)
  PROVE  TimeInv'
<1>1. /\ now' = now + c /\ free' = free /\ currentProcess' = currentProcess
      /\ UNCHANGED <<startTOD, p_time, twice, used, born>>
  BY DEF Signals, Takes, SysCall3, Resume
<1> QED
  BY <1>1, ResumedStep

(* SYS6: whatever the answer charges up to the first reading of the clock, the *)
(* new interval begins no earlier than that.                                   *)
LEMMA SysCall6Step ==
  ASSUME TimeInv, IInv, NEW c \in Nat, SysCall6(c)
  PROVE  TimeInv'
<1>1. PICK k \in 0 .. c : p_time' = [p_time EXCEPT ![currentProcess] = @ + Elapsed(k)]
  BY DEF SysCall6, Charge
<1>2. /\ mode = "run" /\ now' = now + c /\ startTOD' = now'
      /\ free' = free /\ currentProcess' = currentProcess
      /\ twice' = twice /\ used' = used /\ born' = born
  BY DEF SysCall6, Takes, vars
<1>3. currentProcess \in Pcb
  BY <1>2, StateFacts
<1>4. k \in Nat /\ k <= c /\ Elapsed(k) = now + k - startTOD
  BY DEF Elapsed
<1>5. ASSUME NEW p \in Pcb \ free
      PROVE  CpuTime(p)' >= used'[p] /\ CpuTime(p)' - twice'[p] <= now' - born'[p]
  <2>1. CASE p = currentProcess
    BY <1>1, <1>2, <1>3, <1>4, <2>1, TimeFacts DEF CpuTime
  <2>2. CASE p # currentProcess
    BY <1>1, <1>2, <1>3, <1>4, <2>2, TimeFacts DEF CpuTime
  <2> QED
    BY <2>1, <2>2
<1> QED
  BY <1>1, <1>2, <1>3, <1>4, <1>5, TimeFacts DEF TimeInv, EnoughCpuTime, ChargedOnce

(* SYS7: the caller pays for its interval before it waits. *)
LEMMA WaitsForClockStep ==
  ASSUME TimeInv, IInv, IInv', NEW c \in Nat, WaitsForClock(c)
  PROVE  TimeInv'
<1>1. /\ now' = now + c /\ mode = "run" /\ free' = free
      /\ p_time' = [p_time EXCEPT ![currentProcess] = @ + Elapsed(c)]
      /\ Dispatch /\ twice' = twice /\ used' = used /\ born' = born
  BY DEF WaitsForClock, Takes, SysCall7, Charge
<1>2. currentProcess \in Pcb
  BY <1>1, StateFacts
<1>3. mode' # "broken"
  BY StateFacts DEF WaitsForClock, SysCall7, Scheduler
<1>4. Elapsed(c) = now + c - startTOD /\ Elapsed(c) \in Int
  BY TimeFacts DEF Elapsed
<1>5. ASSUME NEW p \in Pcb \ free'
      PROVE  used[p] <= p_time'[p] /\ p_time'[p] - twice'[p] <= now + c - born[p]
  <2>1. CASE p = currentProcess
    BY <1>1, <1>2, <1>4, <2>1, TimeFacts
  <2>2. CASE p # currentProcess
    BY <1>1, <2>2, TimeFacts
  <2> QED
    BY <2>1, <2>2
<1>6. p_time' \in [Pcb -> Int] /\ twice' \in [Pcb -> Int]
  BY <1>1, <1>2, <1>4, TimeFacts
<1> QED
  BY <1>1, <1>3, <1>5, <1>6, HandlerStep

(* Line 1: the interrupted process pays up to the interrupt. *)
LEMMA PreemptStep ==
  ASSUME TimeInv, IInv, IInv', NEW c \in Nat, Preempt(c)
  PROVE  TimeInv'
<1>1. /\ now' = now + c /\ free' = free /\ LocalTimer
      /\ Dispatch /\ twice' = twice /\ used' = used /\ born' = born
  BY DEF Preempt, Takes, LocalTimer
<1>2. mode' # "broken"
  BY <1>1, StateFacts DEF LocalTimer, Done, Scheduler
<1>3. Interrupted(c) = now - startTOD /\ Interrupted(c) \in Int
  BY TimeFacts DEF Interrupted, Elapsed
<1>4. IF currentProcess = NULL THEN p_time' = p_time
      ELSE p_time' = [p_time EXCEPT ![currentProcess] = @ + Interrupted(c)]
  BY DEF Preempt, Charge
<1>5. p_time' \in [Pcb -> Int] /\ twice' \in [Pcb -> Int]
  <2>1. currentProcess # NULL => currentProcess \in Pcb
    BY StateFacts
  <2>2. CASE currentProcess = NULL
    BY <1>1, <1>4, <2>2, TimeFacts
  <2>3. CASE currentProcess # NULL
    BY <1>1, <1>3, <1>4, <2>1, <2>3, TimeFacts
  <2> QED
    BY <2>2, <2>3
<1>6. ASSUME NEW p \in Pcb \ free'
      PROVE  used[p] <= p_time'[p] /\ p_time'[p] - twice'[p] <= now + c - born[p]
  <2>1. p # NULL
    BY PcbAssumption
  <2>2. CASE p = currentProcess
    BY <1>1, <1>3, <1>4, <2>1, <2>2, TimeFacts
  <2>3. CASE p # currentProcess
    <3>1. p_time'[p] = p_time[p]
      BY <1>4, <2>3, TimeFacts
    <3> QED
      BY <1>1, <2>3, <3>1, TimeFacts
  <2> QED
    BY <2>2, <2>3
<1> QED
  BY <1>1, <1>2, <1>5, <1>6, HandlerStep

(* Line 2: those it releases share the time of the handler, and the process it *)
(* interrupts is not one of them.                                              *)
LEMMA TickStep ==
  ASSUME TimeInv, IInv, IInv', NEW c \in Nat, Tick(c)
  PROVE  TimeInv'
<1> DEFINE W == Range(semQ[Clock])
<1>1. /\ now' = now + c /\ free' = free /\ IntervalTimer
      /\ Dispatch /\ twice' = twice /\ used' = used /\ born' = born
  BY DEF Tick, Takes, IntervalTimer
<1>2. mode' # "broken"
  BY <1>1, StateFacts DEF IntervalTimer, Done, Scheduler
<1>3. Interrupted(c) = now - startTOD /\ Interrupted(c) \in Int
  BY TimeFacts DEF Interrupted, Elapsed
<1>4. currentProcess \notin W
  BY SemFacts DEF IInv, NoProcessLost, Blocked
<1> HIDE DEF W
<1>5. PICK share \in [W -> 0 .. c] :
        p_time' = [p \in Pcb |-> IF p \in W THEN p_time[p] + share[p]
                                 ELSE IF p = currentProcess THEN p_time[p] + Interrupted(c)
                                 ELSE p_time[p]]
  BY DEF Tick, W
<1>6. \A p \in W : share[p] \in Nat /\ share[p] <= c
  OBVIOUS
<1>7. p_time' \in [Pcb -> Int] /\ twice' \in [Pcb -> Int]
  BY <1>1, <1>3, <1>5, <1>6, TimeFacts
<1>8. ASSUME NEW p \in Pcb \ free'
      PROVE  used[p] <= p_time'[p] /\ p_time'[p] - twice'[p] <= now + c - born[p]
  <2>1. CASE p \in W
    BY <1>1, <1>4, <1>5, <1>6, <2>1, TimeFacts
  <2>2. CASE p = currentProcess
    BY <1>1, <1>3, <1>4, <1>5, <2>2, TimeFacts
  <2>3. CASE p \notin W /\ p # currentProcess
    <3>1. p_time'[p] = p_time[p]
      BY <1>5, <2>3
    <3> QED
      BY <1>1, <2>3, <3>1, TimeFacts
  <2> QED
    BY <2>1, <2>2, <2>3
<1> QED
  BY <1>1, <1>2, <1>7, <1>8, HandlerStep

------------------------------------------------------------------------------
(* TimeInv is inductive, with the invariant of the nucleus beside it. *)

LEMMA TimeInitStep ==
  ASSUME TimeInit
  PROVE  TimeInv
<1>1. /\ now = 0 /\ startTOD = 0
      /\ \A p \in Pcb : p_time[p] = 0 /\ twice[p] = 0 /\ used[p] = 0 /\ born[p] = 0
      /\ p_time \in [Pcb -> Int] /\ twice \in [Pcb -> Int]
      /\ used \in [Pcb -> Int] /\ born \in [Pcb -> Int]
  BY DEF TimeInit
<1> QED
  BY <1>1 DEF TimeInv, EnoughCpuTime, ChargedOnce, CpuTime

LEMMA TimeNextStep ==
  ASSUME TimeInv, IInv, IInv', [TimeNext]_timeVars
  PROVE  TimeInv'
<1>1. CASE UNCHANGED timeVars
  BY <1>1 DEF timeVars, vars, TimeInv, EnoughCpuTime, ChargedOnce, CpuTime
<1>2. CASE Compute
  BY <1>2, ComputeStep
<1>3. ASSUME NEW c \in 0 .. MaxHandler,
             Create(c) \/ End(c) \/ SysCall6(c) \/ WaitsForClock(c) \/ Preempt(c) \/ Tick(c)
      PROVE  TimeInv'
  <2>1. c \in Nat
    BY TimeAssumption
  <2> QED
    BY <1>3, <2>1, CreateStep, EndStep, SysCall6Step, WaitsForClockStep, PreemptStep, TickStep
<1>4. ASSUME NEW c \in 0 .. MaxHandler, NEW s \in Mutex, Signals(c, s) \/ Waits(c, s)
      PROVE  TimeInv'
  <2>1. c \in Nat
    BY TimeAssumption
  <2> QED
    BY <1>4, <2>1, SignalsStep, WaitsStep
<1> QED
  BY <1>1, <1>2, <1>3, <1>4 DEF TimeNext

(* Of the nucleus and its clock, in every state they reach. *)
THEOREM TimeInvariance == TimeSpec => []TimeInv
<1>1. TimeInit => TimeInv
  BY TimeInitStep
<1>2. TimeInv /\ IInv /\ IInv' /\ [TimeNext]_timeVars => TimeInv'
  BY TimeNextStep
<1>3. TimeSpec => []IInv
  BY TimeSpecIsSpec, Invariance, PTL
<1> QED
  BY <1>1, <1>2, <1>3, PTL DEF TimeSpec

(* Whatever interrupts a process and whatever it waits for, it is charged for *)
(* every tick its instructions took.                                          *)
THEOREM NothingForgotten == TimeSpec => []EnoughCpuTime
<1>1. TimeInv => EnoughCpuTime
  BY DEF TimeInv
<1> QED
  BY <1>1, TimeInvariance, PTL

(* And for no more than the time since it was created, but for the interval *)
(* that SYS4 charges and scheduler() charges again.                         *)
THEOREM NothingTwice == TimeSpec => []ChargedOnce
<1>1. TimeInv => ChargedOnce
  BY DEF TimeInv
<1> QED
  BY <1>1, TimeInvariance, PTL
===============================================================================
