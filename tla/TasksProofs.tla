---------------------------- MODULE TasksProofs ----------------------------
(* Proofs about Tasks, for every table size, time slice and workload. *)
EXTENDS Tasks, TLAPS, WellFoundedInduction

-----------------------------------------------------------------------------
(* The run queue *)

Injective(q) == \A i, j \in 1 .. Len(q) : q[i] = q[j] => i = j
Elements(q) == {q[i] : i \in 1 .. Len(q)}

\* move_to_tail permutes the list: it keeps its length, holds each task once
\* and holds the same tasks, t as its last one if it holds t at all.
LEMMA MoveToTailPermutes ==
  ASSUME NEW q \in Seq(Pid), NEW t, Injective(q)
  PROVE  /\ MoveToTail(q, t) \in Seq(Pid)
         /\ Len(MoveToTail(q, t)) = Len(q)
         /\ Injective(MoveToTail(q, t))
         /\ Elements(MoveToTail(q, t)) = Elements(q)
         /\ t \in Elements(q) => MoveToTail(q, t)[Len(q)] = t
<1>1. CASE ~ \E i \in 1 .. Len(q) : q[i] = t
  BY <1>1 DEF MoveToTail, Elements
<1>2. CASE \E i \in 1 .. Len(q) : q[i] = t
  <2> DEFINE i == CHOOSE k \in 1 .. Len(q) : q[k] = t
             m == [j \in 1 .. Len(q) |-> IF j < i THEN q[j]
                                  ELSE IF j < Len(q) THEN q[j + 1] ELSE t]
  <2>1. i \in 1 .. Len(q) /\ q[i] = t
    BY <1>2
  <2>2. MoveToTail(q, t) = m
    BY <1>2 DEF MoveToTail
  <2> HIDE DEF i
  <2>3. \A j \in 1 .. Len(q) : m[j] \in Pid
    BY <2>1
  <2>4. m \in Seq(Pid) /\ Len(m) = Len(q)
    <3>1. Len(q) \in Nat
      OBVIOUS
    <3>2. m \in [1 .. Len(q) -> Pid]
      BY <2>3
    <3> QED
      BY <3>1, <3>2
  <2>5. Injective(m)
    <3> SUFFICES ASSUME NEW a \in 1 .. Len(q), NEW b \in 1 .. Len(q),
                        m[a] = m[b]
                 PROVE  a = b
      BY <2>4 DEF Injective
    <3> DEFINE pos(j) == IF j < i THEN j
                         ELSE IF j < Len(q) THEN j + 1 ELSE i
    <3>1. \A j \in 1 .. Len(q) : pos(j) \in 1 .. Len(q) /\ m[j] = q[pos(j)]
      BY <2>1
    <3>2. pos(a) = pos(b)
      BY <3>1, Zenon DEF Injective
    <3> QED
      BY <3>2, <2>1
  <2>6. Elements(m) = Elements(q)
    <3>1. ASSUME NEW j \in 1 .. Len(q)
          PROVE  m[j] \in Elements(q)
      BY <2>1 DEF Elements
    <3>2. ASSUME NEW j \in 1 .. Len(q)
          PROVE  q[j] \in Elements(m)
      <4> DEFINE k == IF j < i THEN j ELSE IF j = i THEN Len(q) ELSE j - 1
      <4>1. k \in 1 .. Len(q) /\ m[k] = q[j]
        BY <2>1
      <4> QED
        BY <4>1, <2>4 DEF Elements
    <3> QED
      BY <3>1, <3>2, <2>4, Zenon DEF Elements
  <2>7. m[Len(q)] = t
    BY <2>1
  <2> QED
    BY <2>2, <2>4, <2>5, <2>6, <2>7
<1> QED
  BY <1>1, <1>2

\* A non-empty set of naturals has a least element.
LEMMA LeastNat ==
  ASSUME NEW T \in SUBSET Nat, T # {}
  PROVE  \E x \in T : \A y \in T : x <= y
<1>1. PICK R : /\ IsWellFoundedOn(R, Nat)
               /\ \A x, y \in Nat : y < x => <<y, x>> \in R
  <2>1. \A x, y \in Nat : y < x => <<y, x>> \in OpToRel(<, Nat)
    BY DEF OpToRel
  <2> QED
    BY <2>1, NatLessThanWellFounded, Zenon
<1>2. PICK x \in T : \A y \in T : ~ (<<y, x>> \in R)
  BY <1>1, WFMin, Zenon
<1>3. \A y \in T : x <= y
  <2> SUFFICES ASSUME NEW y \in T PROVE ~ (y < x)
    OBVIOUS
  <2> QED
    BY <1>1, <1>2, Zenon
<1> QED
  BY <1>3

\* The scan of schedule() finds the first READY task of the list, if any.
LEMMA FirstReadyFinds ==
  ASSUME NEW q \in Seq(Pid), NEW st \in [Pid -> State]
  PROVE  \/ /\ FirstReady(q, st) = NoPid
            /\ \A p \in Elements(q) : st[p] # "READY"
         \/ \E i \in 1 .. Len(q) :
              /\ FirstReady(q, st) = q[i]
              /\ st[q[i]] = "READY"
              /\ \A j \in 1 .. i - 1 : st[q[j]] # "READY"
<1> DEFINE Is(i) == st[q[i]] = "READY"
           T == {i \in 1 .. Len(q) : Is(i)}
<1>1. CASE T = {}
  BY <1>1, SMTT(30) DEF FirstReady, Elements
<1>2. CASE T # {}
  <2>1. PICK x \in T : \A y \in T : x <= y
    <3>1. T \in SUBSET Nat
      OBVIOUS
    <3> HIDE DEF T
    <3> QED
      BY <3>1, <1>2, LeastNat
  <2>2. /\ x \in 1 .. Len(q)
        /\ st[q[x]] = "READY"
        /\ \A j \in 1 .. x - 1 : st[q[j]] # "READY"
    BY <2>1
  <2> DEFINE i == CHOOSE k \in 1 .. Len(q) :
                    /\ st[q[k]] = "READY"
                    /\ \A j \in 1 .. k - 1 : st[q[j]] # "READY"
  <2>3. /\ i \in 1 .. Len(q)
        /\ st[q[i]] = "READY"
        /\ \A j \in 1 .. i - 1 : st[q[j]] # "READY"
    BY <2>2, Zenon
  <2>4. FirstReady(q, st) = q[i]
    BY <2>2 DEF FirstReady
  <2> QED
    BY <2>3, <2>4, Zenon
<1> QED
  BY <1>1, <1>2

-----------------------------------------------------------------------------
(* What schedule() does, without the list *)

\* schedule() leaves a list of the same tasks, and either the caller keeps the
\* CPU because no other task of the list is READY, or a READY task gets it.
LEMMA ScheduleEffect ==
  ASSUME TypeOK, RunQueueOK, NEW st \in [Pid -> State], Schedule(st)
  PROVE  /\ queue' \in Seq(Pid)
         /\ Injective(queue')
         /\ Elements(queue') = Queued
         /\ state' \in [Pid -> State]
         /\ \/ /\ current' = current
               /\ state' = Preempted(st)
               /\ \A q \in Queued : q # current => st[q] # "READY"
            \/ /\ current' \in Queued
               /\ current' \in Pid
               /\ current' # current
               /\ st[current'] = "READY"
               /\ state' = [Preempted(st) EXCEPT ![current'] = "RUNNING"]
<1> DEFINE st1 == Preempted(st)
           q1 == IF current # NoPid /\ st1[current] # "EXITED"
                 THEN MoveToTail(queue, current) ELSE queue
           next == FirstReady(q1, st1)
<1>1. queue \in Seq(Pid) /\ Injective(queue) /\ Elements(queue) = Queued
  BY SMTT(30) DEF TypeOK, RunQueueOK, Injective, Elements, Queued
<1>2. /\ q1 \in Seq(Pid) /\ Injective(q1) /\ Elements(q1) = Queued
      /\ (current # NoPid /\ current \in Queued /\ st1[current] # "EXITED")
           => q1[Len(q1)] = current
  BY <1>1, MoveToTailPermutes
<1>3. st1 \in [Pid -> State]
  BY DEF Preempted, State, TypeOK
<1>4. \A q \in Pid : q # current => st1[q] = st[q]
  BY DEF Preempted
<1>5. \/ next = NoPid /\ \A p \in Queued : st1[p] # "READY"
      \/ \E i \in 1 .. Len(q1) :
           /\ next = q1[i]
           /\ st1[q1[i]] = "READY"
           /\ \A j \in 1 .. i - 1 : st1[q1[j]] # "READY"
  <2> HIDE DEF q1, st1
  <2> QED
    BY <1>2, <1>3, FirstReadyFinds
<1>6. /\ queue' = q1
      /\ IF next \in {NoPid, current}
         THEN state' = st1 /\ current' = current
         ELSE state' = [st1 EXCEPT ![next] = "RUNNING"] /\ current' = next
  BY DEF Schedule
<1>7. Queued \subseteq Pid
  BY <1>1 DEF Elements
<1>8. NoPid \notin Pid
  BY TasksAssumption DEF NoPid, Pid
<1> HIDE DEF next, q1, st1
<1>9. CASE next \in {NoPid, current}
  <2>1. \A q \in Queued : q # current => st[q] # "READY"
    <3>1. CASE next = NoPid
      BY <3>1, <1>2, <1>4, <1>5, <1>7, <1>8 DEF Elements
    <3>2. CASE next = current /\ next # NoPid
      <4>1. PICK i \in 1 .. Len(q1) :
              /\ current = q1[i]
              /\ st1[q1[i]] = "READY"
              /\ \A j \in 1 .. i - 1 : st1[q1[j]] # "READY"
        BY <3>2, <1>5
      <4>2. current \in Queued
        BY <4>1, <1>2 DEF Elements
      <4>3. i = Len(q1)
        BY <4>1, <4>2, <3>2, <1>2 DEF Injective
      <4>4. \A q \in Queued : q # current => st1[q] # "READY"
        BY <4>1, <4>3, <1>2 DEF Elements
      <4> QED
        BY <4>4, <1>4, <1>7
    <3> QED
      BY <1>9, <3>1, <3>2
  <2> QED
    BY <2>1, <1>2, <1>3, <1>6, <1>9 DEF st1
<1>10. CASE next \notin {NoPid, current}
  <2>1. next \in Queued /\ st1[next] = "READY"
    BY <1>10, <1>5, <1>2 DEF Elements
  <2>2. st[next] = "READY"
    BY <2>1, <1>4, <1>7, <1>10
  <2> QED
    BY <2>1, <2>2, <1>2, <1>3, <1>6, <1>7, <1>10 DEF st1, State
<1> QED
  BY <1>9, <1>10

-----------------------------------------------------------------------------
(* The inductive invariant *)

\* The states the kernel starts in.
LEMMA InitExitInv == Init => ExitInv
<1> SUFFICES ASSUME Init PROVE ExitInv
  OBVIOUS
<1> USE TasksAssumption
<1>1. TypeOK
  BY DEF Init, TypeOK, Pid, State, Sig, Loc, NoPid, NoAlarm, InitPid,
         WaiterPid, AnyChild
<1>2. RunQueueOK
  BY DEF Init, RunQueueOK, Queued, Pid, InitPid, WaiterPid
<1>3. SoleRunner
  BY DEF Init, SoleRunner
<1>4. SlotsOK
  BY DEF Init, SlotsOK, Pid, InitPid, WaiterPid
<1>5. ParentsOK
  BY DEF Init, ParentsOK, Pid, InitPid, WaiterPid, NoPid
<1>6. ZombiesOK
  BY DEF Init, ZombiesOK
<1> QED
  BY <1>1, <1>2, <1>3, <1>4, <1>5, <1>6 DEF ExitInv

\* The pids with a role.
LEMMA Pids ==
  /\ WaiterPid \in Pid /\ InitPid \in Pid /\ InitPid # WaiterPid
  /\ NoPid \notin Pid
BY TasksAssumption DEF Pid, NoPid, InitPid, WaiterPid

\* TypeOK without the variables that schedule() writes.
TypeRest ==
  /\ next_pid \in 2 .. MAX_TASKS
  /\ parent \in [Pid -> Pid \cup {NoPid}]
  /\ pending \in [Pid -> SUBSET Sig]
  /\ mask \in [Pid -> SUBSET Sig]
  /\ wakeup \in [Pid -> NoAlarm .. MaxSleep]
  /\ slice \in 0 .. TIME_SLICE - 1
  /\ pc \in [Pid -> Loc]
  /\ irq \in [Pid -> BOOLEAN]
  /\ target \in [Pid -> {AnyChild} \cup 1 .. MAX_TASKS - 1]
  /\ interrupts \in BOOLEAN

\* What most steps do up to their call of schedule(), if they make one: the
\* current task moves on, others are woken at most.
Moves(st) ==
  /\ next_pid' = next_pid /\ parent' = parent
  /\ \A q \in Pid : (pc'[q] = "none") <=> (pc[q] = "none")
  /\ \A q \in Pid : q # current =>
       /\ pc'[q] = pc[q]
       /\ st[q] = state[q] \/ (state[q] = "BLOCKED" /\ st[q] = "READY")
  /\ pc'[WaiterPid] \in {"waitpid", "block", "panic"}
  /\ st[WaiterPid] # "EXITED"

\* A step that does not call schedule().
LEMMA LocalStep ==
  ASSUME ExitInv, TypeOK', Moves(state'),
         queue' = queue, current' = current,
         \A q \in Pid : (q = current /\ state'[q] = "EXITED") =>
            \/ pc'[q] = "wake"
            \/ pc'[q] = "yield" /\ state'[parent[q]] \in {"READY", "EXITED"}
            \/ state'[parent[q]] = "EXITED"
  PROVE  ExitInv'
<1> USE DEF ExitInv, Moves
<1>1. RunQueueOK'
  BY DEF RunQueueOK, Queued
<1>2. SoleRunner'
  BY DEF SoleRunner
<1>3. SlotsOK'
  BY DEF SlotsOK, TypeOK
<1>4. ParentsOK'
  BY SMTT(30) DEF ParentsOK, TypeOK
<1>5. ZombiesOK'
  BY DEF ZombiesOK
<1> QED
  BY <1>1, <1>2, <1>3, <1>4, <1>5

\* A step that ends in schedule().
LEMMA SwitchStep ==
  ASSUME ExitInv, TypeRest', NEW st \in [Pid -> State], Moves(st),
         Schedule(st),
         \A q \in Pid : (q = current /\ st[q] = "EXITED") =>
            pc'[q] = "wake" \/ st[parent[q]] \in {"READY", "EXITED"}
  PROVE  ExitInv'
<1> USE Pids DEF ExitInv, Moves
<1>0. /\ queue' \in Seq(Pid)
      /\ Injective(queue')
      /\ Elements(queue') = Queued
      /\ state' \in [Pid -> State]
      /\ \/ /\ current' = current
            /\ state' = Preempted(st)
            /\ \A q \in Queued : q # current => st[q] # "READY"
         \/ /\ current' \in Queued
            /\ current' \in Pid
            /\ current' # current
            /\ st[current'] = "READY"
            /\ state' = [Preempted(st) EXCEPT ![current'] = "RUNNING"]
  BY ScheduleEffect
<1>1. TypeOK'
  <2>1. current' \in Pid \cup {NoPid}
    BY <1>0 DEF TypeOK
  <2> QED
    BY <1>0, <2>1, SMTT(30) DEF TypeOK, TypeRest
<1>2. RunQueueOK'
  BY <1>0, Zenon DEF RunQueueOK, Queued, Injective, Elements
<1>3. SoleRunner'
  <2> SUFFICES ASSUME NEW q \in Pid, state'[q] = "RUNNING"
               PROVE  q = current'
    BY DEF SoleRunner
  <2>1. st[q] = "RUNNING" => q = current
    BY DEF SoleRunner
  <2>2. Preempted(st)[q] = "RUNNING" => FALSE
    BY <2>1 DEF Preempted
  <2> QED
    BY <1>0, <2>2
<1>4. SlotsOK'
  <2>1. state'[WaiterPid] # "EXITED"
    BY <1>0 DEF Preempted
  <2>2. current' # NoPid => pc'[current'] # "none"
    BY <1>0 DEF SlotsOK, RunQueueOK, TypeOK
  <2> QED
    BY <2>1, <2>2 DEF SlotsOK
<1>5. ParentsOK'
  BY <1>0, SMTT(30) DEF ParentsOK, Preempted, TypeOK
<1>6. ZombiesOK'
  <2> SUFFICES ASSUME NEW q \in Pid, q = current', state'[q] = "EXITED",
                      pc'[q] # "wake"
               PROVE  state'[parent[q]] = "EXITED"
    BY DEF ZombiesOK
  <2>1. /\ q = current
        /\ state' = st
        /\ st[q] = "EXITED"
        /\ \A r \in Queued : r # current => st[r] # "READY"
    BY <1>0 DEF Preempted
  <2>2. parent[q] \in Pid /\ parent[q] # q
    BY <2>1 DEF ParentsOK, TypeOK
  <2>3. parent[q] \in Queued
    BY <2>1, <2>2 DEF ParentsOK, SlotsOK, RunQueueOK
  <2> QED
    BY <2>1, <2>2, <2>3
<1> QED
  BY <1>1, <1>2, <1>3, <1>4, <1>5, <1>6

-----------------------------------------------------------------------------
(* The steps, one lemma for each action or group of actions *)

\* task_wake and signal_send keep the types and touch a BLOCKED task at most.
LEMMA WokenEffect ==
  ASSUME NEW st \in [Pid -> State], NEW q
  PROVE  /\ Woken(st, q) \in [Pid -> State]
         /\ \A r \in Pid :
              \/ Woken(st, q)[r] = st[r]
              \/ st[r] = "BLOCKED" /\ Woken(st, q)[r] = "READY"
         /\ (q \in Pid /\ q < next_pid) => Woken(st, q)[q] # "BLOCKED"
BY DEF Woken, State

\* signal_send keeps the pending sets well formed.
LEMMA SentType ==
  ASSUME TypeOK, NEW st, NEW q, NEW sig \in Sig
  PROVE  Sent(st, q, sig) \in [Pid -> SUBSET Sig]
BY DEF Sent, TypeOK

\* signal_check_and_deliver: an exit begins, or the task goes to ring 3.
LEMMA DeliverStep ==
  ASSUME ExitInv, NEW p \in Pid, current = p, Deliver(p),
         pc[p] \in {"sysret", "user"},
         next_pid' = next_pid, parent' = parent, mask' = mask,
         wakeup' = wakeup, queue' = queue, current' = current,
         slice' = slice, target' = target, irq' \in [Pid -> BOOLEAN]
  PROVE  ExitInv'
<1> USE Pids DEF ExitInv, Deliver
<1>1. TypeOK'
  <2>1. PICK X : pending' = [pending EXCEPT ![p] = @ \ X]
    BY Zenon
  <2>2. pending' \in [Pid -> SUBSET Sig]
    BY <2>1 DEF TypeOK
  <2>3. state' \in [Pid -> State] /\ pc' \in [Pid -> Loc]
    BY Zenon DEF TypeOK, State, Loc
  <2>4. interrupts' \in BOOLEAN
    BY Zenon DEF TypeOK
  <2> QED
    BY <2>2, <2>3, <2>4 DEF TypeOK
<1>2. p # WaiterPid
  BY DEF SlotsOK
<1>3. Moves(state')
  BY <1>2 DEF Moves, TypeOK, SlotsOK
<1>4. state'[p] = "EXITED" =>
        pc'[p] = "wake" \/ state'[parent[p]] = "EXITED"
  BY DEF ZombiesOK, TypeOK
<1> QED
  BY <1>1, <1>3, <1>4, LocalStep

\* The way out of a system call.
LEMMA SysRetStep ==
  ASSUME ExitInv, NEW p \in Pid, SysRet(p) PROVE ExitInv'
BY DeliverStep DEF SysRet, At, ExitInv, TypeOK

\* The way out of an interrupt, to ring 3 or back into the kernel.
LEMMA IrqReturnStep ==
  ASSUME ExitInv, NEW p \in Pid, IrqReturn(p) PROVE ExitInv'
<1> USE DEF IrqReturn
<1>0. irq' \in [Pid -> BOOLEAN]
  BY DEF ExitInv, TypeOK
<1>1. CASE pc[p] = "user"
  BY <1>0, <1>1, DeliverStep
<1>2. CASE pc[p] # "user"
  <2>1. TypeOK'
    BY <1>0, <1>2 DEF ExitInv, TypeOK
  <2>2. Moves(state')
    BY <1>2 DEF ExitInv, Moves, SlotsOK
  <2>3. state'[p] = "EXITED" =>
          \/ pc'[p] = "wake"
          \/ pc'[p] = "yield" /\ state'[parent[p]] \in {"READY", "EXITED"}
          \/ state'[parent[p]] = "EXITED"
    BY <1>2 DEF ExitInv, ZombiesOK
  <2> QED
    BY <1>2, <2>1, <2>2, <2>3, LocalStep
<1> QED
  BY <1>1, <1>2

\* The current task moves from one place of the kernel, or ring 3, to another
\* one, and nothing that matters to the invariant changes.
LEMMA GotoStep ==
  ASSUME ExitInv, TypeOK', NEW p \in Pid, NEW l \in Loc \ {"none"},
         current = p, pc' = [pc EXCEPT ![p] = l],
         pc[p] \notin {"wake", "yield"},
         p = WaiterPid => l \in {"waitpid", "block", "panic"},
         next_pid' = next_pid, parent' = parent, state' = state,
         queue' = queue, current' = current
  PROVE  ExitInv'
<1> USE Pids DEF ExitInv
<1>1. Moves(state')
  BY SMTT(30) DEF Moves, SlotsOK, TypeOK
<1>2. state'[p] = "EXITED" => state'[parent[p]] = "EXITED"
  BY DEF ZombiesOK
<1> QED
  BY <1>1, <1>2, LocalStep

\* The way out through fork_return.
LEMMA IretStep ==
  ASSUME ExitInv, NEW p \in Pid, Iret(p) PROVE ExitInv'
<1> USE DEF Iret, At
<1>1. TypeOK'
  BY DEF ExitInv, TypeOK, Loc
<1>2. p # WaiterPid
  BY DEF ExitInv, SlotsOK
<1> QED
  BY <1>1, <1>2, GotoStep, Zenon DEF Loc

\* task_exit after it has marked the task EXITED: the parent is woken.
LEMMA ExitWakeStep ==
  ASSUME ExitInv, NEW p \in Pid, ExitWake(p) PROVE ExitInv'
<1> USE Pids DEF ExitInv, ExitWake, At
<1>1. /\ state' \in [Pid -> State]
      /\ \A r \in Pid : \/ state'[r] = state[r]
                        \/ state[r] = "BLOCKED" /\ state'[r] = "READY"
      /\ parent[p] \in Pid /\ parent[p] < next_pid
           => state'[parent[p]] # "BLOCKED"
  <2>1. state \in [Pid -> State] /\ state' = Woken(state, parent[p])
    BY DEF TypeOK
  <2> QED
    BY ONLY <2>1, WokenEffect
<1>2. TypeOK'
  <2>1. pending' \in [Pid -> SUBSET Sig]
    BY SentType DEF Sig
  <2> QED
    BY <2>1, <1>1 DEF TypeOK, Loc
<1>3. p # WaiterPid
  BY DEF SlotsOK
<1>4. Moves(state')
  BY <1>1, <1>3 DEF Moves, SlotsOK, TypeOK
<1>5. state'[p] = "EXITED" => state'[parent[p]] \in {"READY", "EXITED"}
  <2> SUFFICES ASSUME state'[p] = "EXITED"
               PROVE  state'[parent[p]] \in {"READY", "EXITED"}
    OBVIOUS
  <2>1. parent[p] \in Pid /\ parent[p] # p /\ pc[parent[p]] # "none"
    BY <1>3 DEF ParentsOK, TypeOK
  <2>2. parent[p] < next_pid
    BY <2>1 DEF SlotsOK
  <2>3. state'[parent[p]] # "RUNNING"
    BY <2>1, <1>1 DEF SoleRunner
  <2> QED
    BY <2>1, <2>2, <2>3, <1>1 DEF State
<1>6. pc'[p] = "yield"
  BY DEF TypeOK
<1> QED
  BY <1>2, <1>4, <1>5, <1>6, LocalStep

\* task_exit from signal delivery calls schedule().
LEMMA ExitYieldStep ==
  ASSUME ExitInv, NEW p \in Pid, ExitYield(p) PROVE ExitInv'
<1> USE Pids DEF ExitInv, ExitYield, At
<1>1. TypeRest'
  BY DEF TypeOK, TypeRest, Loc
<1>2. p # WaiterPid
  BY DEF SlotsOK
<1>3. Moves(state)
  BY <1>2 DEF Moves, SlotsOK, TypeOK
<1>4. state[p] = "EXITED" => state[parent[p]] \in {"READY", "EXITED"}
  BY DEF ZombiesOK
<1> QED
  BY <1>1, <1>3, <1>4, SwitchStep, SMTT(30) DEF TypeOK

\* sys_exit
LEMMA ExitStep ==
  ASSUME ExitInv, NEW p \in Pid, Exit(p) PROVE ExitInv'
<1> USE Pids DEF ExitInv, Exit, Enter, At, Goto
<1> DEFINE ex == [state EXCEPT ![p] = "EXITED"]
           st == Woken(ex, parent[p])
<1>0. ex \in [Pid -> State]
  BY DEF TypeOK, State
<1>1. /\ st \in [Pid -> State]
      /\ \A r \in Pid : \/ st[r] = ex[r]
                        \/ ex[r] = "BLOCKED" /\ st[r] = "READY"
      /\ parent[p] \in Pid /\ parent[p] < next_pid
           => st[parent[p]] # "BLOCKED"
  BY <1>0, WokenEffect, Zenon
<1>2. TypeRest'
  <2>1. pending' \in [Pid -> SUBSET Sig]
    BY SentType DEF Sig
  <2> QED
    BY <2>1, Zenon DEF TypeOK, TypeRest, Loc
<1>3. p # WaiterPid
  BY DEF SlotsOK
<1>4. Moves(st)
  BY <1>1, <1>3, Zenon DEF Moves, SlotsOK, TypeOK
<1>5. st[parent[p]] \in {"READY", "EXITED"}
  <2>1. parent[p] \in Pid /\ parent[p] # p /\ pc[parent[p]] # "none"
    BY <1>3 DEF ParentsOK, TypeOK
  <2>2. parent[p] < next_pid
    BY <2>1 DEF SlotsOK
  <2>3. st[parent[p]] # "RUNNING"
    BY <2>1, <1>1, Zenon DEF SoleRunner, TypeOK
  <2> QED
    BY <2>1, <2>2, <2>3, <1>1, Zenon DEF State
<1>6. Schedule(st)
  OBVIOUS
<1> HIDE DEF st
<1> QED
  BY <1>1, <1>2, <1>4, <1>5, <1>6, SwitchStep

\* scheduler_add_task puts a new task at the end of the list.
LEMMA AppendQueue ==
  ASSUME NEW q \in Seq(Pid), NEW t \in Pid, Injective(q), t \notin Elements(q)
  PROVE  /\ Append(q, t) \in Seq(Pid)
         /\ Injective(Append(q, t))
         /\ Elements(Append(q, t)) = Elements(q) \cup {t}
<1> DEFINE a == Append(q, t)
<1>1. /\ a \in Seq(Pid) /\ Len(a) = Len(q) + 1
      /\ \A i \in 1 .. Len(q) : a[i] = q[i]
      /\ a[Len(q) + 1] = t
  OBVIOUS
<1>2. Len(q) \in Nat
  OBVIOUS
<1> HIDE DEF a
<1>3. Injective(a)
  BY <1>1, <1>2 DEF Injective, Elements
<1>4. Elements(a) = Elements(q) \cup {t}
  BY <1>1, <1>2, SMTT(30) DEF Elements
<1> QED
  BY <1>1, <1>3, <1>4 DEF a

\* task_alloc hands out a slot that nothing refers to.
LEMMA FreeSlot ==
  ASSUME ExitInv, TaskAllocOK
  PROVE  /\ next_pid \in Pid /\ pc[next_pid] = "none"
         /\ next_pid \notin {current, InitPid, WaiterPid}
         /\ next_pid \notin Queued
         /\ \A q \in Pid : pc[q] # "none" => parent[q] # next_pid
<1> USE TasksAssumption DEF ExitInv
<1>1. next_pid \in Pid /\ next_pid # InitPid /\ next_pid # WaiterPid
  BY DEF TypeOK, TaskAllocOK, Pid, InitPid, WaiterPid
<1>2. pc[next_pid] = "none"
  BY <1>1 DEF SlotsOK, Pid
<1>3. next_pid # current /\ next_pid \notin Queued
  BY <1>1, <1>2, Pids DEF SlotsOK, RunQueueOK
<1>4. \A q \in Pid : pc[q] # "none" => parent[q] # next_pid
  BY <1>1, <1>2, Pids DEF ParentsOK
<1> QED
  BY <1>1, <1>2, <1>3, <1>4

\* A slot is taken for a child of p: by a fork, with or without success.
LEMMA ForkFailStep ==
  ASSUME ExitInv, NEW p \in Pid, ForkFail(p) PROVE ExitInv'
<1> USE DEF ExitInv, ForkFail, Enter, At, Goto
<1>0. /\ next_pid \in Pid /\ pc[next_pid] = "none"
      /\ next_pid \notin {current, InitPid, WaiterPid}
      /\ \A q \in Pid : pc[q] # "none" => parent[q] # next_pid
  BY FreeSlot
<1>1. TypeOK'
  <2>1. next_pid' \in 2 .. MAX_TASKS
    BY TasksAssumption DEF TypeOK, TaskAllocOK
  <2> QED
    BY <2>1, Zenon DEF TypeOK, State, Loc
<1>2. RunQueueOK'
  BY DEF RunQueueOK, Queued, TypeOK
<1>3. SoleRunner'
  BY DEF SoleRunner, TypeOK
<1>4. SlotsOK'
  <2>1. next_pid \in Int /\ Pid \subseteq Int
    BY DEF TypeOK, Pid
  <2> QED
    BY <1>0, <2>1, Pids, SMTT(30) DEF SlotsOK, TypeOK
<1>5. ParentsOK'
  BY <1>0, Pids, SMTT(30) DEF ParentsOK, SlotsOK, TypeOK
<1>6. ZombiesOK'
  BY <1>0 DEF ZombiesOK, TypeOK
<1> QED
  BY <1>1, <1>2, <1>3, <1>4, <1>5, <1>6

\* A fork that succeeds.
LEMMA ForkStep ==
  ASSUME ExitInv, NEW p \in Pid, Fork(p) PROVE ExitInv'
<1> USE DEF ExitInv, Fork, Enter, At
<1>0. /\ next_pid \in Pid /\ pc[next_pid] = "none"
      /\ next_pid \notin {current, InitPid, WaiterPid}
      /\ next_pid \notin Queued
      /\ \A q \in Pid : pc[q] # "none" => parent[q] # next_pid
  BY FreeSlot
<1>1. /\ queue' \in Seq(Pid) /\ Injective(queue')
      /\ Elements(queue') = Queued \cup {next_pid}
  BY <1>0, AppendQueue, SMTT(30) DEF RunQueueOK, TypeOK, Injective, Elements, Queued
<1>2. TypeOK'
  <2>1. next_pid' \in 2 .. MAX_TASKS
    BY TasksAssumption DEF TypeOK, TaskAllocOK
  <2> QED
    BY <1>0, <1>1, <2>1, Zenon DEF TypeOK, State, Loc
<1>3. RunQueueOK'
  <2>1. \A q \in Pid : (pc'[q] # "none") <=> (pc[q] # "none" \/ q = next_pid)
    BY <1>0 DEF TypeOK
  <2>2. Queued' = Queued \cup {next_pid}
    BY <1>1 DEF Queued, Elements
  <2>3. Queued = {q \in Pid : pc[q] # "none"}
    BY DEF RunQueueOK
  <2>4. Queued' = {q \in Pid : pc'[q] # "none"}
    BY <1>0, <2>1, <2>2, <2>3, Zenon
  <2> QED
    BY <1>1, <2>4 DEF RunQueueOK, Injective
<1>4. SoleRunner'
  BY DEF SoleRunner, TypeOK
<1>5. SlotsOK'
  <2>1. next_pid \in Int /\ Pid \subseteq Int
    BY DEF TypeOK, Pid
  <2> QED
    BY <1>0, <2>1, Pids, SMTT(30) DEF SlotsOK, TypeOK
<1>6. ParentsOK'
  BY <1>0, Pids, Zenon DEF ParentsOK, SlotsOK, TypeOK
<1>7. ZombiesOK'
  BY <1>0 DEF ZombiesOK, TypeOK
<1> QED
  BY <1>2, <1>3, <1>4, <1>5, <1>6, <1>7

\* A fork when the table is full.
LEMMA ForkNoSlotStep ==
  ASSUME ExitInv, NEW p \in Pid, ForkNoSlot(p) PROVE ExitInv'
<1> USE DEF ForkNoSlot, Enter, At, Goto
<1>1. TypeOK' /\ p # WaiterPid
  BY Zenon DEF ExitInv, TypeOK, Loc, SlotsOK
<1> QED
  BY <1>1, GotoStep, Zenon DEF Loc

\* sys_waitpid enters the loop of task_waitpid.
LEMMA WaitpidStep ==
  ASSUME ExitInv, NEW p \in Pid, NEW t \in {AnyChild} \cup 1 .. MAX_TASKS - 1,
         Waitpid(p, t)
  PROVE  ExitInv'
<1> USE DEF Waitpid, Enter, At, Goto
<1>1. TypeOK' /\ p # WaiterPid
  BY Zenon DEF ExitInv, TypeOK, Loc, SlotsOK
<1> QED
  BY <1>1, GotoStep, Zenon DEF Loc

\* task_waitpid finds a child: it is not the caller, and is not on the CPU.
LEMMA ReapedChild ==
  ASSUME ExitInv, NEW p \in Pid, current = p, NEW t, NEW c \in ExitedChild(p, t),
         NEW l \in Loc \ {"none"}, TypeOK',
         parent' = [parent EXCEPT ![c] = NoPid], pc' = [pc EXCEPT ![p] = l],
         pc[p] \notin {"wake", "yield"},
         p = WaiterPid => l \in {"waitpid", "block", "panic"},
         next_pid' = next_pid, state' = state, queue' = queue,
         current' = current
  PROVE  ExitInv'
<1> USE DEF ExitInv
<1>1. c \in Pid /\ c # p /\ state[c] = "EXITED" /\ parent[c] = p
  BY DEF ExitedChild, ParentsOK
<1>2. RunQueueOK'
  <2>1. \A q \in Pid : (pc'[q] # "none") <=> (pc[q] # "none")
    BY Pids, SMTT(30) DEF TypeOK, SlotsOK
  <2> QED
    BY <2>1 DEF RunQueueOK, Queued
<1>3. SoleRunner'
  BY DEF SoleRunner
<1>4. SlotsOK'
  BY Pids, SMTT(30) DEF SlotsOK, TypeOK
<1>5. ParentsOK'
  BY <1>1, Pids, SMTT(30) DEF ParentsOK, TypeOK, SlotsOK
<1>6. ZombiesOK'
  BY <1>1, SMTT(30) DEF ZombiesOK, TypeOK
<1> QED
  BY <1>2, <1>3, <1>4, <1>5, <1>6

\* task_waitpid returns a child.
LEMMA ReapStep ==
  ASSUME ExitInv, NEW p \in Pid, Reap(p) PROVE ExitInv'
<1> USE DEF Reap, At, Goto
<1>1. PICK c \in ExitedChild(p, target[p]) :
         parent' = [parent EXCEPT ![c] = NoPid]
  BY Zenon
<1>2. TypeOK'
  BY <1>1, Zenon DEF ExitInv, TypeOK, Loc
<1>3. CASE p = WaiterPid
  BY <1>1, <1>2, <1>3, ReapedChild, Zenon DEF Loc
<1>4. CASE p # WaiterPid
  BY <1>1, <1>2, <1>4, ReapedChild, Zenon DEF Loc
<1> QED
  BY <1>3, <1>4

\* task_waitpid with WNOHANG.
LEMMA WaitNoHangStep ==
  ASSUME ExitInv, NEW p \in Pid, NEW t, WaitNoHang(p, t) PROVE ExitInv'
<1> USE DEF WaitNoHang, Enter, At, Goto
<1>1. p # WaiterPid
  BY DEF ExitInv, SlotsOK
<1>2. CASE \E c \in ExitedChild(p, t) : parent' = [parent EXCEPT ![c] = NoPid]
  <2>1. PICK c \in ExitedChild(p, t) : parent' = [parent EXCEPT ![c] = NoPid]
    BY <1>2, Zenon
  <2>2. TypeOK'
    BY <2>1, Zenon DEF ExitInv, TypeOK, Loc
  <2> QED
    BY <1>1, <2>1, <2>2, ReapedChild, Zenon DEF Loc
<1>3. CASE parent' = parent
  <2>1. TypeOK'
    BY <1>3, Zenon DEF ExitInv, TypeOK, Loc
  <2> QED
    BY <1>1, <1>3, <2>1, GotoStep, Zenon DEF Loc
<1> QED
  BY <1>2, <1>3

\* task_waitpid finds no child.
LEMMA NoneExitedStep ==
  ASSUME ExitInv, NEW p \in Pid, NoneExited(p) PROVE ExitInv'
<1> USE DEF NoneExited, At, Goto
<1>1. TypeOK'
  BY DEF ExitInv, TypeOK, Loc
<1> QED
  BY <1>1, GotoStep, Zenon DEF Loc

\* task_block
LEMMA BlockStep ==
  ASSUME ExitInv, NEW p \in Pid, Block(p) PROVE ExitInv'
<1> USE Pids DEF ExitInv, Block, At, Goto
<1> DEFINE st == [state EXCEPT ![p] = "BLOCKED"]
<1>1. TypeRest' /\ st \in [Pid -> State] /\ st[p] # "EXITED"
  BY DEF TypeOK, TypeRest, Loc, State
<1>2. Moves(st)
  BY DEF Moves, SlotsOK, TypeOK
<1>3. Schedule(st)
  OBVIOUS
<1> HIDE DEF st
<1> QED
  BY <1>1, <1>2, <1>3, SwitchStep

\* sys_yield
LEMMA YieldStep ==
  ASSUME ExitInv, NEW p \in Pid, Yield(p) PROVE ExitInv'
<1> USE Pids DEF ExitInv, Yield, Enter, At, Goto
<1>1. TypeRest' /\ p # WaiterPid
  BY Zenon DEF TypeOK, TypeRest, Loc, SlotsOK
<1>2. Moves(state)
  BY <1>1 DEF Moves, SlotsOK, TypeOK
<1>3. state[p] = "EXITED" => state[parent[p]] = "EXITED"
  BY DEF ZombiesOK
<1> QED
  BY <1>1, <1>2, <1>3, SwitchStep, SMTT(30) DEF TypeOK

\* sys_kill wakes its target at most.
LEMMA KillStep ==
  ASSUME ExitInv, NEW p \in Pid, NEW q, NEW sig \in Sig, Kill(p, q, sig)
  PROVE  ExitInv'
<1> USE Pids DEF ExitInv, Kill, Enter, At, Goto
<1>1. /\ state' \in [Pid -> State]
      /\ \A r \in Pid : \/ state'[r] = state[r]
                        \/ state[r] = "BLOCKED" /\ state'[r] = "READY"
  <2>1. state \in [Pid -> State] /\ state' = Woken(state, q)
    BY DEF TypeOK
  <2> QED
    BY ONLY <2>1, WokenEffect
<1>2. TypeOK' /\ p # WaiterPid
  <2>1. pending' \in [Pid -> SUBSET Sig]
    BY SentType
  <2> QED
    BY <2>1, <1>1, Zenon DEF TypeOK, Loc, SlotsOK
<1>3. Moves(state')
  BY <1>1, <1>2 DEF Moves, SlotsOK, TypeOK
<1>4. state'[p] = "EXITED" => state'[parent[p]] = "EXITED"
  <2>1. state[p] = "EXITED" => parent[p] \in Pid
    BY <1>2 DEF ParentsOK, TypeOK
  <2> QED
    BY <1>1, <2>1 DEF ZombiesOK
<1> QED
  BY <1>2, <1>3, <1>4, LocalStep

\* Ctrl+C, in an interrupt on top of whatever the current task was doing.
LEMMA CtrlCStep ==
  ASSUME ExitInv, CtrlC PROVE ExitInv'
<1> USE Pids DEF ExitInv, CtrlC
<1> DEFINE p == current
<1>0. p \in Pid
  BY DEF TypeOK
<1>1. /\ state' \in [Pid -> State]
      /\ \A r \in Pid : \/ state'[r] = state[r]
                        \/ state[r] = "BLOCKED" /\ state'[r] = "READY"
  <2>1. state \in [Pid -> State] /\ state' = Woken(state, current)
    BY DEF TypeOK
  <2> QED
    BY ONLY <2>1, WokenEffect
<1>2. TypeOK'
  <2>1. pending' \in [Pid -> SUBSET Sig]
    BY SentType DEF Sig
  <2> QED
    BY <2>1, <1>1, Zenon DEF TypeOK, Loc
<1>3. Moves(state')
  BY <1>0, <1>1, <1>2 DEF Moves, SlotsOK, TypeOK
<1>4. state'[p] = "EXITED" =>
        \/ pc'[p] = "wake"
        \/ pc'[p] = "yield" /\ state'[parent[p]] \in {"READY", "EXITED"}
        \/ state'[parent[p]] = "EXITED"
  <2>1. state[p] = "EXITED" => parent[p] \in Pid
    BY <1>0 DEF ParentsOK, TypeOK, SlotsOK
  <2>2. pc[p] \in {"wake", "yield"} => pc'[p] = pc[p]
    BY <1>0 DEF TypeOK
  <2> QED
    BY <1>0, <1>1, <2>1, <2>2 DEF ZombiesOK
<1> QED
  BY <1>2, <1>3, <1>4, LocalStep

\* sys_rt_sigprocmask
LEMMA SigprocmaskStep ==
  ASSUME ExitInv, NEW p \in Pid, NEW m \in SUBSET Sig, Sigprocmask(p, m)
  PROVE  ExitInv'
<1> USE DEF Sigprocmask, Enter, At, Goto
<1>1. TypeOK' /\ p # WaiterPid
  BY Zenon DEF ExitInv, TypeOK, Loc, SlotsOK
<1> QED
  BY <1>1, GotoStep, Zenon DEF Loc

\* sys_nanosleep up to the head of its loop.
LEMMA NanosleepStep ==
  ASSUME ExitInv, NEW p \in Pid, NEW n \in 1 .. MaxSleep, Nanosleep(p, n)
  PROVE  ExitInv'
<1> USE Pids DEF ExitInv, Nanosleep, Enter, At, Goto
<1>1. TypeOK' /\ p # WaiterPid
  <2>1. wakeup' \in [Pid -> NoAlarm .. MaxSleep]
    BY TasksAssumption DEF TypeOK, NoAlarm
  <2> QED
    BY <2>1, Zenon DEF TypeOK, Loc, State, SlotsOK
<1>2. Moves(state') /\ state'[p] # "EXITED"
  BY <1>1 DEF Moves, SlotsOK, TypeOK
<1> QED
  BY <1>1, <1>2, LocalStep

\* The end of sys_nanosleep.
LEMMA SleepDoneStep ==
  ASSUME ExitInv, NEW p \in Pid, SleepDone(p) PROVE ExitInv'
<1> USE Pids DEF ExitInv, SleepDone, At, Goto
<1>1. TypeOK' /\ p # WaiterPid
  BY DEF TypeOK, Loc, State, SlotsOK
<1>2. Moves(state') /\ state'[p] # "EXITED"
  BY <1>1 DEF Moves, SlotsOK, TypeOK
<1> QED
  BY <1>1, <1>2, LocalStep

\* schedule() in the loop of sys_nanosleep.
LEMMA SleepScheduleStep ==
  ASSUME ExitInv, NEW p \in Pid, SleepSchedule(p) PROVE ExitInv'
<1> USE Pids DEF ExitInv, SleepSchedule, At, Goto
<1>1. TypeRest' /\ p # WaiterPid
  BY DEF TypeOK, TypeRest, Loc, SlotsOK
<1>2. Moves(state)
  BY <1>1 DEF Moves, SlotsOK, TypeOK
<1>3. state[p] = "EXITED" => state[parent[p]] = "EXITED"
  BY DEF ZombiesOK
<1> QED
  BY <1>1, <1>2, <1>3, SwitchStep, SMTT(30) DEF TypeOK

\* sti; hlt in the loop of sys_nanosleep.
LEMMA SleepHaltStep ==
  ASSUME ExitInv, NEW p \in Pid, SleepHalt(p) PROVE ExitInv'
<1> USE DEF SleepHalt, At, Goto
<1>1. TypeOK' /\ p # WaiterPid
  BY Zenon DEF ExitInv, TypeOK, Loc, SlotsOK
<1> QED
  BY <1>1, GotoStep DEF Loc

\* An exception in ring 3.
LEMMA FaultStep ==
  ASSUME ExitInv, NEW p \in Pid, Fault(p) PROVE ExitInv'
<1> USE DEF Fault, Enter, At
<1>1. TypeOK' /\ p # WaiterPid
  <2>1. pending' \in [Pid -> SUBSET Sig]
    BY DEF ExitInv, TypeOK, Sig
  <2>2. irq' \in [Pid -> BOOLEAN]
    BY DEF ExitInv, TypeOK
  <2> QED
    BY <2>1, <2>2, Zenon DEF ExitInv, TypeOK, SlotsOK
<1>2. pc' = [pc EXCEPT ![p] = "user"]
  BY DEF ExitInv, TypeOK
<1> QED
  BY <1>1, <1>2, GotoStep, Zenon DEF Loc

\* The timer interrupt: it wakes tasks, and at the end of a slice it calls
\* schedule() on top of whatever the current task was doing.
LEMMA TickStep ==
  ASSUME ExitInv, Tick PROVE ExitInv'
<1> USE Pids DEF ExitInv
<1> DEFINE left == [p \in Pid |-> IF wakeup[p] > 0 THEN wakeup[p] - 1
                                  ELSE wakeup[p]]
           due(p) == state[p] = "BLOCKED" /\ left[p] = 0
           st == [p \in Pid |-> IF due(p) THEN "READY" ELSE state[p]]
           s == (slice + 1) % TIME_SLICE
<1>1. /\ wakeup' = [p \in Pid |-> IF due(p) THEN NoAlarm ELSE left[p]]
      /\ slice' = s
      /\ IF s = 0 THEN Schedule(st)
                  ELSE state' = st /\ queue' = queue /\ current' = current
  BY DEF Tick
<1>2. /\ st \in [Pid -> State]
      /\ \A r \in Pid : \/ st[r] = state[r]
                        \/ state[r] = "BLOCKED" /\ st[r] = "READY"
  BY DEF TypeOK, State
<1>3. TypeRest'
  <2>1. wakeup' \in [Pid -> NoAlarm .. MaxSleep]
    BY <1>1, TasksAssumption DEF TypeOK, NoAlarm
  <2>2. slice' \in 0 .. TIME_SLICE - 1
    BY <1>1, TasksAssumption DEF TypeOK
  <2>3. irq' \in [Pid -> BOOLEAN] /\ interrupts' \in BOOLEAN
    BY Zenon DEF Tick, TypeOK
  <2>4. pc' \in [Pid -> Loc]
    BY Zenon DEF Tick, TypeOK, Loc
  <2> QED
    BY <2>1, <2>2, <2>3, <2>4 DEF Tick, TypeOK, TypeRest
<1> HIDE DEF st, s
<1>4. /\ \A q \in Pid : q # current => pc'[q] = pc[q]
      /\ \A q \in Pid : pc'[q] = pc[q] \/ (pc[q] = "hlt" /\ pc'[q] = "sleep")
  BY Zenon DEF Tick, TypeOK
<1>5. Moves(st)
  BY <1>2, <1>4 DEF Moves, SlotsOK, Tick
<1>6. ASSUME NEW q \in Pid, q = current, st[q] = "EXITED"
      PROVE  \/ pc'[q] = "wake"
             \/ pc'[q] = "yield" /\ st[parent[q]] \in {"READY", "EXITED"}
             \/ st[parent[q]] = "EXITED"
  <2>1. parent[q] \in Pid
    BY <1>2, <1>6 DEF ParentsOK, TypeOK, SlotsOK
  <2> QED
    BY <1>2, <1>4, <1>6, <2>1 DEF ZombiesOK
<1>7. CASE s = 0
  BY <1>1, <1>2, <1>3, <1>5, <1>6, <1>7, SwitchStep
<1>8. CASE s # 0
  <2>1. state' = st /\ queue' = queue /\ current' = current
    BY <1>1, <1>8
  <2>2. TypeOK'
    BY <1>2, <1>3, <2>1, SMTT(30) DEF TypeOK, TypeRest
  <2> QED
    BY <1>5, <1>6, <2>1, <2>2, LocalStep
<1> QED
  BY <1>7, <1>8

\* Every step keeps the invariant.
LEMMA ExitInvInductive == ExitInv /\ [Next]_vars => ExitInv'
<1> SUFFICES ASSUME ExitInv, [Next]_vars PROVE ExitInv'
  OBVIOUS
<1>1. CASE Tick
  BY <1>1, TickStep
<1>2. CASE CtrlC
  BY <1>2, CtrlCStep
<1>3. ASSUME NEW p \in Pid, IrqReturn(p) PROVE ExitInv'
  BY <1>3, IrqReturnStep
<1>4. ASSUME NEW p \in Pid, KernelStep(p) PROVE ExitInv'
  BY <1>4, SysRetStep, IretStep, ExitWakeStep, ExitYieldStep, ReapStep,
     NoneExitedStep, BlockStep, SleepDoneStep, SleepScheduleStep,
     SleepHaltStep DEF KernelStep
<1>5. ASSUME NEW p \in Pid, UserStep(p) PROVE ExitInv'
  BY <1>5, ForkStep, ForkFailStep, ForkNoSlotStep, ExitStep, YieldStep,
     FaultStep, WaitpidStep, WaitNoHangStep, KillStep, SigprocmaskStep,
     NanosleepStep DEF UserStep
<1>6. CASE UNCHANGED vars
  <2>1. TypeOK'
    BY <1>6 DEF vars, ExitInv, TypeOK
  <2>2. RunQueueOK'
    <3>1. queue' = queue /\ pc' = pc
      BY <1>6 DEF vars
    <3>2. Queued' = Queued
      BY <3>1 DEF Queued
    <3> QED BY <3>1, <3>2 DEF ExitInv, RunQueueOK
  <2>3. SoleRunner'
    BY <1>6 DEF vars, ExitInv, SoleRunner
  <2>4. SlotsOK'
    BY <1>6 DEF vars, ExitInv, SlotsOK
  <2>5. ParentsOK'
    BY <1>6 DEF vars, ExitInv, ParentsOK
  <2>6. ZombiesOK'
    BY <1>6 DEF vars, ExitInv, ZombiesOK
  <2> QED
    BY <2>1, <2>2, <2>3, <2>4, <2>5, <2>6 DEF ExitInv
<1> QED
  BY <1>1, <1>2, <1>3, <1>4, <1>5, <1>6 DEF Next, Panic

-----------------------------------------------------------------------------
(* The results *)

\* The invariant holds in every reachable state: the steps of any number of
\* tasks, interrupts included, keep what task_exit and waitpid rely on.
THEOREM ExitInvariant == Spec => []ExitInv
<1>1. Init => ExitInv
  BY InitExitInv
<1>2. ExitInv /\ [Next]_vars => ExitInv'
  BY ExitInvInductive
<1> QED
  BY <1>1, <1>2, PTL DEF Spec

\* For every table size, slice length and workload, every variable keeps its
\* type: task_alloc never leaves the table, no tick takes an alarm or the
\* slice counter out of range.
THEOREM TypeCorrect == Spec => []TypeOK
<1>1. ExitInv => TypeOK
  BY DEF ExitInv
<1> QED
  BY <1>1, ExitInvariant, PTL

\* The linked run queue always holds each task that has a context, once.
THEOREM RunQueueCorrect == Spec => []RunQueueOK
<1>1. ExitInv => RunQueueOK
  BY DEF ExitInv
<1> QED
  BY <1>1, ExitInvariant, PTL

\* schedule() never leaves a second task marked RUNNING.
THEOREM OneRunner == Spec => []SoleRunner
<1>1. ExitInv => SoleRunner
  BY DEF ExitInv
<1> QED
  BY <1>1, ExitInvariant, PTL

\* task_exit comes back to ring 3 only in a task whose parent exited first.
THEOREM ZombiesAreOrphans == Spec => []ZombieOnlyIfOrphan
<1>1. ExitInv => ZombieOnlyIfOrphan
  BY Pids DEF ExitInv, ZombieOnlyIfOrphan, ZombiesOK, ParentsOK, SlotsOK, At
<1> QED
  BY <1>1, ExitInvariant, PTL

\* The parent link is set by fork and cleared once, by the parent's waitpid,
\* when the child has exited.
THEOREM ReapedOnce == Spec => ReapedOnceByParent
<1> DEFINE A == \A c \in Pid : parent'[c] # parent[c] =>
                  \/ c = next_pid
                  \/ /\ parent'[c] = NoPid
                     /\ state[c] = "EXITED"
                     /\ parent[c] = current
<1>1. ExitInv /\ [Next]_vars => [A]_vars
  <2> SUFFICES ASSUME ExitInv, Next PROVE A
    OBVIOUS
  <2>1. CASE Tick \/ CtrlC
    BY <2>1 DEF Tick, CtrlC
  <2>2. ASSUME NEW p \in Pid, IrqReturn(p) \/ Panic(p) PROVE A
    BY <2>2 DEF IrqReturn, Panic, vars
  <2>3. ASSUME NEW p \in Pid, KernelStep(p) PROVE A
    BY <2>3 DEF KernelStep, SysRet, Iret, ExitWake, ExitYield, Reap,
                NoneExited, Block, SleepDone, SleepSchedule, SleepHalt,
                ExitedChild, At, ExitInv, TypeOK
  <2>4. ASSUME NEW p \in Pid, UserStep(p) PROVE A
    BY <2>4 DEF UserStep, Fork, ForkFail, ForkNoSlot, Exit, Yield, Fault,
                Waitpid, WaitNoHang, Kill, Sigprocmask, Nanosleep, Enter,
                ExitedChild, At, ExitInv, TypeOK
  <2> QED
    BY <2>1, <2>2, <2>3, <2>4 DEF Next
<1> QED
  BY <1>1, ExitInvariant, PTL DEF Spec, ReapedOnceByParent

-----------------------------------------------------------------------------
(* The loop of task_waitpid *)

\* Whoever has the CPU after a call of schedule() that switched is RUNNING.
LEMMA SwitchedRuns ==
  ASSUME TypeOK, RunQueueOK, NEW st \in [Pid -> State], Schedule(st)
  PROVE  current' = current \/ state'[current'] = "RUNNING"
<1>1. \/ current' = current
      \/ /\ current' \in Pid
         /\ state' = [Preempted(st) EXCEPT ![current'] = "RUNNING"]
  BY ScheduleEffect, Zenon
<1>2. Preempted(st) \in [Pid -> State]
  BY DEF Preempted, State, TypeOK
<1> QED BY <1>1, <1>2

\* task_block keeps the CPU only when no task of the list is READY.
LEMMA BlockIdle ==
  ASSUME ExitInv, NEW p \in Pid, Block(p), current' = p
  PROVE  \A q \in Queued' : state'[q] # "READY"
<1> DEFINE st == [state EXCEPT ![p] = "BLOCKED"]
<1>1. TypeOK /\ RunQueueOK /\ current = p /\ p \in Pid /\ Schedule(st)
  BY DEF ExitInv, Block, At
<1>2. st \in [Pid -> State] /\ st[p] = "BLOCKED"
  BY DEF ExitInv, TypeOK, State
<1> HIDE DEF st
<1>3. /\ Elements(queue') = Queued
      /\ \/ /\ state' = Preempted(st)
            /\ \A q \in Queued : q # current => st[q] # "READY"
         \/ current' # current
  BY <1>1, <1>2, ScheduleEffect, Zenon
<1>4. Preempted(st) = st
  BY <1>1, <1>2 DEF Preempted
<1>5. Queued' = Queued
  BY <1>3 DEF Elements, Queued
<1> QED BY <1>1, <1>2, <1>3, <1>4, <1>5

\* A step of the current task leads to the head of the loop, BLOCKED and with
\* interrupts off, only from task_block or from a waitpid made by a task that
\* was BLOCKED before.
LEMMA SpinsIdleStep ==
  ASSUME ExitInv, BlockedNotInRing3, SpinsIdle, [Next]_vars
  PROVE  SpinsIdle'
<1> SUFFICES ASSUME NEW p \in Pid, At(p, "waitpid")', state'[p] = "BLOCKED", ~interrupts'
             PROVE  \A q \in Queued' : state'[q] # "READY"
  BY Zenon DEF SpinsIdle
<1>0. current' = p /\ ~irq'[p] /\ pc'[p] = "waitpid"
  BY DEF At
<1>t. TypeOK /\ RunQueueOK
  BY DEF ExitInv
<1>1. CASE UNCHANGED vars
  BY <1>1 DEF vars, SpinsIdle, At, Queued
<1>2. CASE Tick
  <2>1. current # NoPid
    BY <1>2 DEF Tick
  <2>2. irq'[current]
    BY <1>2, <1>t, <2>1 DEF Tick, TypeOK
  <2>3. current' # current
    BY <1>0, <2>2
  <2>4. PICK st \in [Pid -> State] : Schedule(st)
    <3> DEFINE left == [q \in Pid |-> IF wakeup[q] > 0 THEN wakeup[q] - 1 ELSE wakeup[q]]
               st == [q \in Pid |-> IF state[q] = "BLOCKED" /\ left[q] = 0
                                    THEN "READY" ELSE state[q]]
    <3>1. st \in [Pid -> State]
      BY <1>t DEF TypeOK, State
    <3>2. Schedule(st)
      BY <1>2, <2>3, Zenon DEF Tick
    <3> QED BY <3>1, <3>2, Zenon
  <2>5. state'[p] = "RUNNING"
    BY <1>0, <1>t, <2>3, <2>4, SwitchedRuns, Zenon
  <2> QED BY <2>5
<1>3. CASE CtrlC
  BY <1>0, <1>3, <1>t DEF CtrlC, TypeOK
<1>4. ASSUME NEW r \in Pid, IrqReturn(r) PROVE FALSE
  <2>1. r = p /\ current = p
    BY <1>0, <1>4 DEF IrqReturn
  <2>2. pc[p] # "user" => interrupts'
    BY <1>4, <2>1 DEF IrqReturn
  <2>3. pc[p] = "user" => pc'[p] # "waitpid"
    BY <1>4, <1>t, <2>1 DEF IrqReturn, Deliver, TypeOK
  <2> QED BY <1>0, <2>2, <2>3
<1>5. ASSUME NEW r \in Pid, Block(r) PROVE \A q \in Queued' : state'[q] # "READY"
  <2> DEFINE st == [state EXCEPT ![r] = "BLOCKED"]
  <2>1. st \in [Pid -> State] /\ Schedule(st) /\ current = r
    BY <1>5, <1>t DEF Block, At, TypeOK, State
  <2>2. current' = current
    BY <1>0, <1>t, <2>1, SwitchedRuns, Zenon
  <2> QED BY <1>5, <2>1, <2>2, BlockIdle, Zenon
<1>6. ASSUME NEW r \in Pid, ExitYield(r) \/ SleepSchedule(r) \/ Yield(r) PROVE FALSE
  <2>1. Schedule(state) /\ state \in [Pid -> State] /\ current = r
    BY <1>6, <1>t DEF ExitYield, SleepSchedule, Yield, Enter, At, TypeOK
  <2>2. current' = current
    BY <1>0, <1>t, <2>1, SwitchedRuns, Zenon
  <2> QED BY <1>0, <1>6, <1>t, <2>1, <2>2 DEF ExitYield, SleepSchedule, Yield, Goto, TypeOK
<1>7. ASSUME NEW r \in Pid, Exit(r) PROVE FALSE
  <2> DEFINE st == Woken([state EXCEPT ![r] = "EXITED"], parent[r])
  <2>1. st \in [Pid -> State] /\ Schedule(st) /\ current = r
    BY <1>7, <1>t DEF Exit, Enter, At, Woken, TypeOK, State
  <2>2. current' = current
    BY <1>0, <1>t, <2>1, SwitchedRuns, Zenon
  <2> QED BY <1>0, <1>7, <1>t, <2>1, <2>2 DEF Exit, Goto, TypeOK
<1>8. ASSUME NEW r \in Pid, SysRet(r) \/ Iret(r) \/ ExitWake(r) \/ Reap(r) \/ NoneExited(r)
                            \/ SleepDone(r) \/ SleepHalt(r)
      PROVE  FALSE
  BY <1>0, <1>8, <1>t DEF SysRet, Deliver, Iret, ExitWake, Reap, NoneExited, SleepDone,
                          SleepHalt, At, Goto, TypeOK
<1>9. ASSUME NEW r \in Pid, Fork(r) \/ ForkFail(r) \/ ForkNoSlot(r) PROVE FALSE
  BY <1>0, <1>9, <1>t DEF Fork, ForkFail, ForkNoSlot, Enter, At, Goto, TypeOK
<1>10. ASSUME NEW r \in Pid, Fault(r) PROVE FALSE
  BY <1>0, <1>10, <1>t DEF Fault, Enter, At, TypeOK
<1>11. ASSUME NEW r \in Pid, NEW t, Waitpid(r, t) PROVE FALSE
  BY <1>0, <1>11 DEF Waitpid, Enter, At, BlockedNotInRing3
<1>12. ASSUME NEW r \in Pid, NEW t, WaitNoHang(r, t) PROVE FALSE
  BY <1>0, <1>12, <1>t DEF WaitNoHang, Enter, At, Goto, TypeOK
<1>13. ASSUME NEW r \in Pid, NEW q, NEW sig, Kill(r, q, sig) PROVE FALSE
  BY <1>0, <1>13, <1>t DEF Kill, Enter, At, Goto, TypeOK
<1>14. ASSUME NEW r \in Pid, NEW m, Sigprocmask(r, m) PROVE FALSE
  BY <1>0, <1>14, <1>t DEF Sigprocmask, Enter, At, Goto, TypeOK
<1>15. ASSUME NEW r \in Pid, NEW n, Nanosleep(r, n) PROVE FALSE
  BY <1>0, <1>15, <1>t DEF Nanosleep, Enter, At, Goto, TypeOK
<1>16. ASSUME NEW r \in Pid, KernelStep(r) PROVE \A q \in Queued' : state'[q] # "READY"
  BY <1>5, <1>6, <1>8, <1>16, Zenon DEF KernelStep
<1>17. ASSUME NEW r \in Pid, UserStep(r) PROVE FALSE
  BY <1>6, <1>7, <1>9, <1>10, <1>11, <1>12, <1>13, <1>14, <1>15, <1>17, Zenon DEF UserStep
<1> QED BY <1>1, <1>2, <1>3, <1>4, <1>16, <1>17, Zenon DEF Next, Panic

\* For any number of tasks: as long as no program runs in a task marked
\* BLOCKED, a BLOCKED task that loops in task_waitpid with interrupts off
\* keeps no READY task from the CPU.
THEOREM SpinsOnlyIdle == Spec => SpinsOnlyWhenIdle
<1>1. Init => SpinsIdle
  BY DEF Init, SpinsIdle
<1>2. ExitInv /\ BlockedNotInRing3 /\ SpinsIdle /\ [Next]_vars => SpinsIdle'
  BY SpinsIdleStep
<1> QED BY <1>1, <1>2, ExitInvariant, PTL DEF Spec, SpinsOnlyWhenIdle

-----------------------------------------------------------------------------
(* Without nanosleep, kernel code runs with interrupts off *)

\* Interrupts are on at boot and in ring 3 only.
KernelUninterrupted ==
  current # NoPid /\ interrupts => pc[current] = "user" /\ ~irq[current]

\* kernel_main's idle loop goes on to the init process.
BootsToInit ==
  current = NoPid =>
    /\ queue # <<>> /\ queue[1] = InitPid
    /\ state[InitPid] = "READY" /\ pc[InitPid] = "user" /\ ~irq[InitPid]

\* Between the search of task_waitpid and its task_block no child exits, so
\* that a task that blocks there has none to collect.
WaitsForChild ==
  /\ \A p \in Pid : p # current => pc[p] # "block"
  /\ current # NoPid /\ pc[current] = "block" => ExitedChild(current, target[current]) = {}
  /\ current # NoPid /\ state[current] = "BLOCKED" =>
       /\ InWaitpid(current)
       /\ ExitedChild(current, target[current]) = {}

\* The inductive invariant: nobody is in nanosleep, and interrupt handlers
\* are on top of ring 3.
QuietInv ==
  /\ KernelUninterrupted /\ BootsToInit /\ WaitsForChild
  /\ \A p \in Pid : ~InSleep(p) /\ (irq[p] => pc[p] = "user")

\* A step of the current task that keeps the CPU.
LEMMA QuietStays ==
  ASSUME NEW p \in Pid, current' = p,
         interrupts' => pc'[p] = "user" /\ ~irq'[p],
         \A q \in Pid : pc'[q] \notin {"sleep", "check", "hlt"} /\ (irq'[q] => pc'[q] = "user"),
         \A q \in Pid : q # p => pc'[q] # "block",
         pc'[p] = "block" => ExitedChild(p, target[p])' = {},
         state'[p] = "BLOCKED" => pc'[p] \in {"waitpid", "block"}
                                  /\ ExitedChild(p, target[p])' = {}
  PROVE  QuietInv'
<1>1. current' # NoPid
  BY Pids
<1>2. KernelUninterrupted' /\ BootsToInit'
  BY <1>1 DEF KernelUninterrupted, BootsToInit
<1>3. WaitsForChild'
  BY <1>1 DEF WaitsForChild, InWaitpid, ExitedChild
<1> QED BY <1>2, <1>3 DEF QuietInv, InSleep

\* A step of the current task that ends in schedule(), with interrupts off.
LEMMA QuietSwitches ==
  ASSUME TypeOK, RunQueueOK, NEW p \in Pid, current = p, NEW st \in [Pid -> State],
         Schedule(st), ~interrupts', UNCHANGED <<next_pid, parent, target>>,
         \A q \in Pid : pc'[q] \notin {"block", "sleep", "check", "hlt"}
                        /\ (irq'[q] => pc'[q] = "user"),
         st[p] = "BLOCKED" =>
           /\ pc'[p] = "waitpid"
           /\ \A c \in ExitedChild(p, target[p]) : st[c] # "EXITED"
           /\ \A c \in Pid : st[c] = "EXITED" => state[c] = "EXITED"
  PROVE  QuietInv'
<1>1. \/ current' = p /\ state' = Preempted(st)
      \/ current' \in Pid /\ state'[current'] = "RUNNING"
  <2>1. \/ current' = p /\ state' = Preempted(st)
        \/ /\ current' \in Pid
           /\ state' = [Preempted(st) EXCEPT ![current'] = "RUNNING"]
    BY ScheduleEffect, Zenon
  <2>2. Preempted(st) \in [Pid -> State]
    BY DEF Preempted, State
  <2> QED BY <2>1, <2>2
<1>2. current' \in Pid /\ current' # NoPid
  BY <1>1, Pids
<1>3. state'[current'] = "BLOCKED" =>
        /\ current' = p /\ pc'[p] = "waitpid"
        /\ ExitedChild(p, target[p])' = {}
  <2> SUFFICES ASSUME state'[current'] = "BLOCKED"
               PROVE  /\ current' = p /\ pc'[p] = "waitpid"
                      /\ ExitedChild(p, target[p])' = {}
    OBVIOUS
  <2>1. current' = p /\ state' = Preempted(st)
    BY <1>1
  <2>2. st[p] = "BLOCKED"
    BY <2>1 DEF Preempted
  <2>3. state' = st
    BY <2>1, <2>2 DEF Preempted
  <2> QED BY <2>1, <2>2, <2>3 DEF ExitedChild
<1>4. KernelUninterrupted' /\ BootsToInit'
  BY <1>2 DEF KernelUninterrupted, BootsToInit
<1>5. WaitsForChild'
  BY <1>2, <1>3 DEF WaitsForChild, InWaitpid, ExitedChild
<1> QED BY <1>4, <1>5 DEF QuietInv, InSleep

\* What the invariant says of the task that acts.
LEMMA QuietHere ==
  ASSUME ExitInv, QuietInv, NEW p \in Pid, current = p
  PROVE  /\ TypeOK /\ RunQueueOK /\ p < next_pid
         /\ \A q \in Pid : pc[q] \notin {"sleep", "check", "hlt"} /\ (irq[q] => pc[q] = "user")
         /\ \A q \in Pid : q # p => pc[q] # "block"
         /\ pc[p] # "user" \/ irq[p] => ~interrupts
         /\ pc[p] \notin {"waitpid", "block"} => state[p] # "BLOCKED"
         /\ pc[p] = "block" \/ state[p] = "BLOCKED" => ExitedChild(p, target[p]) = {}
<1>1. current # NoPid
  BY Pids
<1>2. TypeOK /\ RunQueueOK /\ p < next_pid
  BY <1>1 DEF ExitInv, SlotsOK
<1>3. pc[p] # "user" \/ irq[p] => ~interrupts
  BY <1>1 DEF QuietInv, KernelUninterrupted
<1>4. /\ \A q \in Pid : q # p => pc[q] # "block"
      /\ pc[p] \notin {"waitpid", "block"} => state[p] # "BLOCKED"
      /\ pc[p] = "block" \/ state[p] = "BLOCKED" => ExitedChild(p, target[p]) = {}
  BY <1>1 DEF QuietInv, WaitsForChild, InWaitpid
<1> QED BY <1>2, <1>3, <1>4 DEF QuietInv, InSleep

\* The first switch, out of kernel_main's idle loop, is to the init process.
LEMMA QuietBoots ==
  ASSUME ExitInv, QuietInv, current = NoPid, Tick
  PROVE  QuietInv'
<1> DEFINE left == [q \in Pid |-> IF wakeup[q] > 0 THEN wakeup[q] - 1 ELSE wakeup[q]]
           st == [q \in Pid |-> IF state[q] = "BLOCKED" /\ left[q] = 0
                                THEN "READY" ELSE state[q]]
<1>1. /\ TypeOK /\ irq' = irq /\ pc' = pc /\ target' = target
      /\ \/ Schedule(st)
         \/ state' = st /\ queue' = queue /\ current' = current
  BY DEF Tick, ExitInv
<1>2. /\ queue # <<>> /\ queue[1] = InitPid
      /\ state[InitPid] = "READY" /\ pc[InitPid] = "user" /\ ~irq[InitPid]
  BY DEF QuietInv, BootsToInit
<1>3. \A q \in Pid : pc[q] # "block"
  BY Pids DEF QuietInv, WaitsForChild
<1>4. st \in [Pid -> State] /\ st[InitPid] = "READY"
  BY <1>1, <1>2, Pids DEF TypeOK, State
<1> HIDE DEF st
<1>5. CASE state' = st /\ queue' = queue /\ current' = current
  <2>1. KernelUninterrupted' /\ WaitsForChild'
    BY <1>1, <1>3, <1>5 DEF KernelUninterrupted, WaitsForChild
  <2>2. BootsToInit'
    BY <1>1, <1>2, <1>4, <1>5 DEF BootsToInit
  <2> QED BY <1>1, <2>1, <2>2 DEF QuietInv, InSleep
<1>6. CASE Schedule(st)
  <2>1. Preempted(st) = st
    BY DEF Preempted
  <2>2. queue \in Seq(Pid) /\ Injective(queue) /\ Len(queue) \in Nat /\ Len(queue) > 0
    <3>1. queue \in Seq(Pid) /\ queue # <<>>
      BY <1>1, <1>2 DEF TypeOK
    <3>2. Injective(queue)
      BY Zenon DEF ExitInv, RunQueueOK, Injective
    <3> QED BY <3>1, <3>2
  <2>3. FirstReady(queue, st) = InitPid
    <3>1. 1 \in 1 .. Len(queue) /\ st[queue[1]] = "READY"
      BY <1>2, <1>4, <2>2
    <3>2. \/ FirstReady(queue, st) = NoPid /\ \A p \in Elements(queue) : st[p] # "READY"
          \/ \E i \in 1 .. Len(queue) :
               /\ FirstReady(queue, st) = queue[i]
               /\ st[queue[i]] = "READY"
               /\ \A j \in 1 .. i - 1 : st[queue[j]] # "READY"
      BY <1>4, <2>2, FirstReadyFinds
    <3>3. queue[1] \in Elements(queue)
      BY <3>1 DEF Elements
    <3>4. PICK i \in 1 .. Len(queue) :
            /\ FirstReady(queue, st) = queue[i]
            /\ \A j \in 1 .. i - 1 : st[queue[j]] # "READY"
      BY <3>1, <3>2, <3>3, Zenon
    <3>5. i = 1
      BY <2>2, <3>1, <3>4
    <3> QED BY <1>2, <3>4, <3>5
  <2>4. current' = InitPid /\ state' = [st EXCEPT ![InitPid] = "RUNNING"]
    BY <1>6, <2>1, <2>3, Pids DEF Schedule
  <2>5. current' # NoPid /\ state'[current'] = "RUNNING"
    BY <1>4, <2>4, Pids
  <2>6. KernelUninterrupted' /\ BootsToInit'
    BY <1>1, <1>2, <2>4, <2>5 DEF KernelUninterrupted, BootsToInit
  <2>7. WaitsForChild'
    BY <1>1, <1>2, <1>3, <2>4, <2>5 DEF WaitsForChild
  <2> QED BY <1>1, <2>6, <2>7 DEF QuietInv, InSleep
<1> QED BY <1>1, <1>5, <1>6

\* Interrupts come in ring 3, where the task is not BLOCKED.
LEMMA QuietInterrupts ==
  ASSUME ExitInv, QuietInv, NEW p \in Pid, current = p, Tick \/ CtrlC
  PROVE  QuietInv'
<1> USE QuietHere, Pids
<1>1. TypeOK /\ RunQueueOK /\ current # NoPid
  OBVIOUS
<1>2. pc[p] = "user" /\ ~irq[p] /\ state[p] # "BLOCKED"
  BY DEF Tick, CtrlC
<1>3. pc' = pc /\ irq' = [irq EXCEPT ![p] = TRUE] /\ ~interrupts'
  BY <1>1, <1>2 DEF Tick, CtrlC, TypeOK
<1>4. \A q \in Pid : pc'[q] \notin {"block", "sleep", "check", "hlt"}
                     /\ (irq'[q] => pc'[q] = "user")
  BY <1>1, <1>2, <1>3 DEF TypeOK
<1>5. CASE CtrlC
  <2>1. current' = p /\ state' = Woken(state, p)
    BY <1>5 DEF CtrlC
  <2>2. state'[p] # "BLOCKED"
    BY <1>2, <2>1 DEF Woken
  <2> QED BY <1>2, <1>3, <1>4, <2>1, <2>2, QuietStays
<1>6. CASE Tick
  <2> DEFINE left == [q \in Pid |-> IF wakeup[q] > 0 THEN wakeup[q] - 1 ELSE wakeup[q]]
             st == [q \in Pid |-> IF state[q] = "BLOCKED" /\ left[q] = 0
                                  THEN "READY" ELSE state[q]]
  <2>1. /\ UNCHANGED <<next_pid, parent, target>>
        /\ \/ Schedule(st)
           \/ state' = st /\ current' = current
    BY <1>6 DEF Tick
  <2>2. st \in [Pid -> State] /\ st[p] # "BLOCKED"
    BY <1>1, <1>2 DEF TypeOK, State
  <2> HIDE DEF st
  <2>3. CASE Schedule(st)
    BY <1>1, <1>3, <1>4, <2>1, <2>2, <2>3, QuietSwitches, Zenon
  <2>4. CASE state' = st /\ current' = current
    BY <1>2, <1>3, <1>4, <2>2, <2>4, QuietStays
  <2> QED BY <2>1, <2>3, <2>4
<1> QED BY <1>5, <1>6

\* The kernel's own steps.
LEMMA QuietKernel ==
  ASSUME ExitInv, QuietInv, NEW p \in Pid, IrqReturn(p) \/ KernelStep(p)
  PROVE  QuietInv'
<1>0. current = p
  BY DEF IrqReturn, KernelStep, SysRet, Iret, ExitWake, ExitYield, Reap, NoneExited, Block,
         SleepDone, SleepSchedule, SleepHalt, At
<1>1. /\ TypeOK /\ RunQueueOK
      /\ \A q \in Pid : pc[q] \notin {"sleep", "check", "hlt"} /\ (irq[q] => pc[q] = "user")
      /\ \A q \in Pid : q # p => pc[q] # "block"
      /\ pc[p] # "user" \/ irq[p] => ~interrupts
      /\ pc[p] \notin {"waitpid", "block"} => state[p] # "BLOCKED"
      /\ pc[p] = "block" \/ state[p] = "BLOCKED" => ExitedChild(p, target[p]) = {}
  BY <1>0, QuietHere, Zenon
<1>2. CASE IrqReturn(p) \/ SysRet(p) \/ Iret(p)
  <2>1. ~interrupts /\ state[p] # "BLOCKED" /\ (irq[p] => pc[p] = "user")
    BY <1>1, <1>2 DEF IrqReturn, SysRet, Iret, At
  <2>2. /\ current' = p /\ ~irq'[p] /\ state'[p] # "BLOCKED"
        /\ pc'[p] \in {"user", "wake"} /\ (interrupts' => pc'[p] = "user")
        /\ \A q \in Pid : q # p => pc'[q] = pc[q] /\ irq'[q] = irq[q]
    BY <1>1, <1>2, <2>1 DEF IrqReturn, SysRet, Iret, Deliver, At, TypeOK
  <2> QED BY <1>1, <2>2, QuietStays
<1>3. CASE ExitWake(p) \/ Reap(p)
  <2>1. /\ ~interrupts /\ ~irq[p]
        /\ Reap(p) => ExitedChild(p, target[p]) # {}
    BY <1>1, <1>3 DEF ExitWake, Reap, At
  <2>2. state[p] # "BLOCKED"
    BY <1>1, <1>3, <2>1 DEF ExitWake, At
  <2>3. /\ current' = p /\ irq' = irq /\ ~interrupts' /\ state'[p] # "BLOCKED"
        /\ pc'[p] \in {"yield", "sysret", "panic"}
        /\ \A q \in Pid : q # p => pc'[q] = pc[q]
    BY <1>1, <1>3, <2>1, <2>2 DEF ExitWake, Reap, Woken, Goto, At, TypeOK
  <2> QED BY <1>1, <2>1, <2>3, QuietStays
<1>4. CASE NoneExited(p)
  <2>1. /\ ~interrupts /\ ~irq[p] /\ ExitedChild(p, target[p]) = {}
        /\ UNCHANGED <<next_pid, parent, state, target>>
    BY <1>1, <1>4 DEF NoneExited, At
  <2>2. ExitedChild(p, target[p])' = {}
    BY <2>1 DEF ExitedChild
  <2>3. /\ current' = p /\ irq' = irq /\ ~interrupts' /\ pc'[p] = "block"
        /\ \A q \in Pid : q # p => pc'[q] = pc[q]
    BY <1>1, <1>4, <2>1 DEF NoneExited, Goto, At, TypeOK
  <2> QED BY <1>1, <2>1, <2>2, <2>3, QuietStays
<1>5. CASE ExitYield(p)
  <2>1. /\ Schedule(state) /\ state \in [Pid -> State] /\ ~interrupts' /\ irq' = irq /\ ~irq[p]
        /\ state[p] # "BLOCKED" /\ UNCHANGED <<next_pid, parent, target>>
    BY <1>1, <1>5 DEF ExitYield, At, TypeOK
  <2>2. pc'[p] = "iret" /\ \A q \in Pid : q # p => pc'[q] = pc[q]
    BY <1>1, <1>5 DEF ExitYield, TypeOK
  <2>3. \A q \in Pid : pc'[q] \notin {"block", "sleep", "check", "hlt"}
                       /\ (irq'[q] => pc'[q] = "user")
    BY <1>1, <2>1, <2>2
  <2> QED BY <1>0, <1>1, <2>1, <2>3, QuietSwitches, Zenon
<1>6. CASE Block(p)
  <2> DEFINE st == [state EXCEPT ![p] = "BLOCKED"]
  <2>1. /\ Schedule(st) /\ ~interrupts' /\ irq' = irq /\ ~irq[p]
        /\ ExitedChild(p, target[p]) = {} /\ UNCHANGED <<next_pid, parent, target>>
    BY <1>1, <1>6 DEF Block, At
  <2>2. pc'[p] = "waitpid" /\ \A q \in Pid : q # p => pc'[q] = pc[q]
    BY <1>1, <1>6 DEF Block, Goto, TypeOK
  <2>3. \A q \in Pid : pc'[q] \notin {"block", "sleep", "check", "hlt"}
                       /\ (irq'[q] => pc'[q] = "user")
    BY <1>1, <2>1, <2>2
  <2>4. st \in [Pid -> State] /\ \A c \in Pid : st[c] = "EXITED" => state[c] = "EXITED"
    BY <1>1 DEF TypeOK, State
  <2> HIDE DEF st
  <2>5. \A c \in ExitedChild(p, target[p]) : st[c] # "EXITED"
    BY <2>1
  <2> QED BY <1>0, <1>1, <2>1, <2>2, <2>3, <2>4, <2>5, QuietSwitches, Zenon
<1>7. CASE SleepDone(p) \/ SleepSchedule(p) \/ SleepHalt(p)
  BY <1>1, <1>7 DEF SleepDone, SleepSchedule, SleepHalt, At
<1> QED BY <1>2, <1>3, <1>4, <1>5, <1>6, <1>7, Zenon DEF KernelStep

\* System calls and faults, but for nanosleep.
LEMMA QuietUser ==
  ASSUME "sleep" \notin Workload, ExitInv, QuietInv, NEW p \in Pid, UserStep(p)
  PROVE  QuietInv'
<1>0. At(p, "user") /\ ~interrupts'
  BY DEF UserStep, Fork, ForkFail, ForkNoSlot, Exit, Yield, Fault, Waitpid, WaitNoHang, Kill,
         Sigprocmask, Nanosleep, Enter
<1>1. /\ TypeOK /\ RunQueueOK /\ p < next_pid /\ current = p
      /\ \A q \in Pid : pc[q] \notin {"sleep", "check", "hlt"} /\ (irq[q] => pc[q] = "user")
      /\ \A q \in Pid : q # p => pc[q] # "block"
      /\ pc[p] = "user" /\ ~irq[p] /\ state[p] # "BLOCKED"
  BY <1>0, QuietHere DEF At
<1>2. ASSUME current' = p, state'[p] # "BLOCKED", irq' = irq, pc'[p] \in {"sysret", "waitpid"},
             \A q \in Pid : q # p => pc'[q] = pc[q] \/ (pc[q] = "none" /\ pc'[q] = "iret")
      PROVE  QuietInv'
  BY <1>0, <1>1, <1>2, QuietStays
<1>3. ASSUME NEW st \in [Pid -> State], Schedule(st), st[p] # "BLOCKED", irq' = irq,
             Goto(p, "sysret"), UNCHANGED <<next_pid, parent, target>>
      PROVE  QuietInv'
  <2>1. \A q \in Pid : pc'[q] \notin {"block", "sleep", "check", "hlt"}
                       /\ (irq'[q] => pc'[q] = "user")
    BY <1>1, <1>3 DEF Goto, TypeOK
  <2> QED BY <1>0, <1>1, <1>3, <2>1, QuietSwitches, Zenon
<1>4. CASE Fork(p)
  <2>1. next_pid \in Pid /\ next_pid # p /\ pc[next_pid] = "none"
    BY <1>1, <1>4, FreeSlot, Zenon DEF Fork
  <2>2. /\ current' = p /\ state'[p] # "BLOCKED" /\ irq' = irq /\ pc'[p] = "sysret"
        /\ \A q \in Pid : q # p => pc'[q] = pc[q] \/ (pc[q] = "none" /\ pc'[q] = "iret")
    BY <1>1, <1>4, <2>1 DEF Fork, TypeOK
  <2> QED BY <1>2, <2>2
<1>5. CASE ForkFail(p) \/ ForkNoSlot(p)
  <2>1. /\ current' = p /\ state'[p] # "BLOCKED" /\ irq' = irq /\ pc'[p] = "sysret"
        /\ \A q \in Pid : q # p => pc'[q] = pc[q]
    BY <1>1, <1>5 DEF ForkFail, ForkNoSlot, Goto, TypeOK
  <2> QED BY <1>2, <2>1
<1>6. CASE Exit(p)
  <2> DEFINE st == Woken([state EXCEPT ![p] = "EXITED"], parent[p])
  <2>1. st \in [Pid -> State] /\ st[p] # "BLOCKED"
    BY <1>1 DEF Woken, TypeOK, State
  <2>2. Schedule(st) /\ irq' = irq /\ Goto(p, "sysret") /\ UNCHANGED <<next_pid, parent, target>>
    BY <1>6 DEF Exit
  <2> HIDE DEF st
  <2> QED BY <1>3, <2>1, <2>2
<1>7. CASE Yield(p)
  <2>1. /\ state \in [Pid -> State] /\ Schedule(state) /\ irq' = irq /\ Goto(p, "sysret")
        /\ UNCHANGED <<next_pid, parent, target>>
    BY <1>1, <1>7 DEF Yield, TypeOK
  <2> QED BY <1>1, <1>3, <2>1
<1>8. CASE Fault(p)
  <2>1. /\ current' = p /\ state' = state /\ pc' = pc
        /\ \A q \in Pid : q # p => irq'[q] = irq[q]
    BY <1>1, <1>8 DEF Fault, TypeOK
  <2> QED BY <1>0, <1>1, <2>1, QuietStays
<1>9. ASSUME NEW t, Waitpid(p, t) \/ WaitNoHang(p, t) PROVE QuietInv'
  <2>1. /\ current' = p /\ state' = state /\ irq' = irq /\ pc'[p] \in {"sysret", "waitpid"}
        /\ \A q \in Pid : q # p => pc'[q] = pc[q]
    BY <1>1, <1>9 DEF Waitpid, WaitNoHang, Goto, TypeOK
  <2> QED BY <1>1, <1>2, <2>1
<1>10. ASSUME NEW q, NEW sig, Kill(p, q, sig) PROVE QuietInv'
  <2>1. /\ current' = p /\ state'[p] # "BLOCKED" /\ irq' = irq /\ pc'[p] = "sysret"
        /\ \A r \in Pid : r # p => pc'[r] = pc[r]
    BY <1>1, <1>10 DEF Kill, Woken, Goto, TypeOK
  <2> QED BY <1>2, <2>1
<1>11. ASSUME NEW m, Sigprocmask(p, m) PROVE QuietInv'
  <2>1. /\ current' = p /\ state' = state /\ irq' = irq /\ pc'[p] = "sysret"
        /\ \A q \in Pid : q # p => pc'[q] = pc[q]
    BY <1>1, <1>11 DEF Sigprocmask, Goto, TypeOK
  <2> QED BY <1>1, <1>2, <2>1
<1>12. ASSUME NEW n, Nanosleep(p, n) PROVE FALSE
  BY <1>12 DEF Nanosleep, Enter
<1> QED BY <1>4, <1>5, <1>6, <1>7, <1>8, <1>9, <1>10, <1>11, <1>12, Zenon DEF UserStep

\* Without nanosleep interrupts are on in ring 3 only, and no program runs in
\* a task marked BLOCKED: every system call runs to its schedule() or to its
\* end without a tick, as the code of waitpid, pipes and files relies on.
THEOREM KernelRunsUninterrupted ==
  ASSUME "sleep" \notin Workload
  PROVE  Spec => [](KernelUninterrupted /\ BlockedNotInRing3)
<1>1. Init => QuietInv
  <2> SUFFICES ASSUME Init PROVE QuietInv
    OBVIOUS
  <2>1. /\ current = NoPid /\ queue = <<InitPid, WaiterPid>> /\ state[InitPid] = "READY"
        /\ pc[InitPid] = "user"
        /\ \A p \in Pid : ~irq[p] /\ pc[p] \in {"none", "user", "waitpid"}
    BY Pids DEF Init
  <2>2. KernelUninterrupted /\ WaitsForChild
    BY <2>1 DEF KernelUninterrupted, WaitsForChild
  <2>3. BootsToInit
    BY <2>1, Pids DEF BootsToInit
  <2> QED BY <2>1, <2>2, <2>3 DEF QuietInv, InSleep
<1>2. ExitInv /\ QuietInv /\ [Next]_vars => QuietInv'
  <2> SUFFICES ASSUME ExitInv, QuietInv, [Next]_vars PROVE QuietInv'
    OBVIOUS
  <2>1. CASE UNCHANGED vars
    BY <2>1 DEF vars, QuietInv, KernelUninterrupted, BootsToInit, WaitsForChild, InSleep,
                InWaitpid, ExitedChild
  <2>2. CASE Tick \/ CtrlC
    <3>1. CASE current = NoPid
      BY <2>2, <3>1, QuietBoots DEF CtrlC
    <3>2. CASE current # NoPid
      <4>1. current \in Pid
        BY <3>2 DEF ExitInv, TypeOK
      <4> QED BY <2>2, <4>1, QuietInterrupts, Zenon
    <3> QED BY <3>1, <3>2
  <2>3. ASSUME NEW p \in Pid, IrqReturn(p) \/ KernelStep(p) PROVE QuietInv'
    BY <2>3, QuietKernel
  <2>4. ASSUME NEW p \in Pid, UserStep(p) PROVE QuietInv'
    BY <2>4, QuietUser
  <2> QED BY <2>1, <2>2, <2>3, <2>4 DEF Next, Panic
<1>3. ExitInv /\ QuietInv => KernelUninterrupted /\ BlockedNotInRing3
  BY Pids DEF QuietInv, WaitsForChild, InWaitpid, BlockedNotInRing3, At
<1> QED BY <1>1, <1>2, <1>3, ExitInvariant, PTL DEF Spec

\* Without nanosleep, then, the CPU never loops in task_waitpid while a task is
\* READY.
THEOREM SpinsIdleWithoutSleep ==
  ASSUME "sleep" \notin Workload
  PROVE  Spec => []SpinsIdle
BY KernelRunsUninterrupted, SpinsOnlyIdle, PTL DEF SpinsOnlyWhenIdle
=============================================================================
