------------------------------- MODULE Tasks -------------------------------
(***************************************************************************)
(* Tasks and the round-robin scheduler: kernel/task.c, kernel/scheduler.c, *)
(* the waitpid, nanosleep, exit, fork, kill and yield system calls, and    *)
(* the way arch/i386/isrs.S and context_switch.S treat the interrupt flag. *)
(*                                                                         *)
(* One CPU.  A step is a stretch of kernel code between two points where   *)
(* the timer may come in or where schedule() may switch.  Every gate of    *)
(* the IDT is an interrupt gate, so kernel code runs with interrupts off,  *)
(* except after the "sti; hlt" of sys_nanosleep: switch_context does not   *)
(* save eflags, so whatever task is resumed next inside the kernel runs    *)
(* with interrupts on.  The variable interrupts is that CPU flag.          *)
(***************************************************************************)
EXTENDS Integers, Sequences, FiniteSets

CONSTANTS
  MAX_TASKS,    \* size of the static task table
  TIME_SLICE,   \* ticks between two preemptions
  MaxSleep,     \* longest sleep a program asks for, in ticks
  Workload      \* the system calls and events that happen in a run

Events == {"fork", "forkfail", "exit", "waitpid", "nohang", "yield",
           "sleep", "kill", "mask", "fault", "ctrl_c"}

ASSUME TasksAssumption ==
  /\ MAX_TASKS \in Nat /\ MAX_TASKS >= 2
  /\ TIME_SLICE \in Nat \ {0}
  /\ MaxSleep \in Nat \ {0}
  /\ Workload \subseteq Events

Pid == 0 .. MAX_TASKS - 1
NoPid == -1            \* "no task": parent_pid = -1, current_task = 0
NoAlarm == -1          \* wakeup_tick = 0
InitPid == 0           \* setup_main_task
WaiterPid == 1         \* init_waiter
AnyChild == -1         \* waitpid's pid <= 0

\* SIGTERM stands for every signal whose default action terminates and that
\* a mask may hold back, SIGCHLD for the ones whose default is to ignore.
Sig == {"SIGTERM", "SIGCHLD"}

State == {"READY", "RUNNING", "BLOCKED", "EXITED"}

\* Where a task stands.  none: no context yet.  user: ring 3.  iret, sysret:
\* about to leave the kernel, without and with a look at pending signals.
\* waitpid, block: head of task_waitpid's loop, and its call of task_block.
\* sleep, check, hlt: head of sys_nanosleep's loop, the test after its
\* schedule(), and the hlt.  wake, yield: inside task_exit.  panic: panic().
Loc == {"none", "user", "iret", "sysret", "waitpid", "block", "sleep",
        "check", "hlt", "wake", "yield", "panic"}

VARIABLES
  next_pid,    \* slots handed out so far, never reused
  state, parent, pending, mask,
  wakeup,      \* wakeup_tick - tick_count, 0 when due, NoAlarm when cleared
  queue,       \* the linked run queue, from head to tail
  current,     \* current_task
  slice,       \* tick_count % TIME_SLICE
  pc,          \* Loc of each task
  irq,         \* is the task inside irq_handler, on top of pc?
  target,      \* the pid its waitpid asked for
  interrupts   \* the CPU's IF

vars == <<next_pid, state, parent, pending, mask, wakeup, queue, current,
          slice, pc, irq, target, interrupts>>

Queued == {queue[i] : i \in 1 .. Len(queue)}
-----------------------------------------------------------------------------
(* The scheduler *)

\* Mutant: t stays where it is.
MoveNothing(q, t) == q

\* move_to_tail: unlink t and link it after the tail; nothing when t is the
\* tail already, or is not in the list.
MoveToTail(q, t) ==
  IF \E i \in 1 .. Len(q) : q[i] = t
  THEN LET i == CHOOSE k \in 1 .. Len(q) : q[k] = t
       IN  [j \in 1 .. Len(q) |-> IF j < i THEN q[j]
                                  ELSE IF j < Len(q) THEN q[j + 1] ELSE t]
  ELSE q

\* Mutant: only the head of the list is looked at.
HeadIfReady(q, st) ==
  IF q # <<>> /\ st[Head(q)] = "READY" THEN Head(q) ELSE NoPid

\* The first READY task from the head of q, NoPid when there is none.
FirstReady(q, st) ==
  IF \E i \in 1 .. Len(q) : st[q[i]] = "READY"
  THEN q[CHOOSE i \in 1 .. Len(q) :
           /\ st[q[i]] = "READY"
           /\ \A j \in 1 .. i - 1 : st[q[j]] # "READY"]
  ELSE NoPid

\* A RUNNING task that calls schedule() becomes READY.
Preempted(st) ==
  IF current # NoPid /\ st[current] = "RUNNING"
  THEN [st EXCEPT ![current] = "READY"] ELSE st

\* schedule(), called when the task states are st.  A task that finds no
\* other READY task goes on running, in whatever state it is.
Schedule(st) ==
  LET st1  == Preempted(st)
      q1   == IF current # NoPid /\ st1[current] # "EXITED"
              THEN MoveToTail(queue, current) ELSE queue
      next == FirstReady(q1, st1)
  IN  /\ queue' = q1
      /\ IF next \in {NoPid, current}
         THEN state' = st1 /\ UNCHANGED current
         ELSE state' = [st1 EXCEPT ![next] = "RUNNING"] /\ current' = next

\* Mutant: nobody is woken.
WokenNobody(st, q) == st

\* task_wake(q) on the states st.
Woken(st, q) ==
  IF q \in Pid /\ q < next_pid /\ st[q] = "BLOCKED"
  THEN [st EXCEPT ![q] = "READY"] ELSE st

\* The pending sets after signal_send(q, sig) in task states st; the wake it
\* does as well is Woken.
Sent(st, q, sig) ==
  IF q \in Pid /\ q < next_pid /\ st[q] # "EXITED"
  THEN [pending EXCEPT ![q] = @ \cup {sig}] ELSE pending

\* scheduler_tick() in the timer interrupt.  At boot there is no current task
\* and kernel_main's idle loop is left for good at the first switch, by an
\* iret to the init process.
Tick ==
  /\ interrupts
  /\ LET left   == [p \in Pid |-> IF wakeup[p] > 0 THEN wakeup[p] - 1
                                  ELSE wakeup[p]]
         due(p) == state[p] = "BLOCKED" /\ left[p] = 0
         st     == [p \in Pid |-> IF due(p) THEN "READY" ELSE state[p]]
         s      == (slice + 1) % TIME_SLICE
     IN  /\ wakeup' = [p \in Pid |-> IF due(p) THEN NoAlarm ELSE left[p]]
         /\ slice' = s
         /\ IF s = 0 THEN Schedule(st)
                     ELSE state' = st /\ UNCHANGED <<queue, current>>
  /\ IF current = NoPid
     THEN UNCHANGED <<irq, pc, interrupts>>
     ELSE /\ irq' = [irq EXCEPT ![current] = TRUE]
          /\ pc' = [pc EXCEPT ![current] = IF @ = "hlt" THEN "sleep" ELSE @]
          /\ interrupts' = FALSE
  /\ UNCHANGED <<next_pid, parent, pending, mask, target>>
-----------------------------------------------------------------------------
(* Leaving the kernel *)

\* signal_check_and_deliver for a task without handlers: SIGTERM (15) comes
\* before SIGCHLD (17) and starts task_exit, SIGCHLD is dropped.  Then iret,
\* which turns interrupts on.
Deliver(p) ==
  LET unmasked == pending[p] \ mask[p]
  IN  IF "SIGTERM" \in unmasked
      THEN /\ pending' = [pending EXCEPT ![p] = @ \ {"SIGTERM"}]
           /\ state' = [state EXCEPT ![p] = "EXITED"]
           /\ pc' = [pc EXCEPT ![p] = "wake"]
           /\ UNCHANGED interrupts
      ELSE /\ pending' = [pending EXCEPT ![p] = @ \ unmasked]
           /\ pc' = [pc EXCEPT ![p] = "user"]
           /\ interrupts' = TRUE
           /\ UNCHANGED state

\* The end of irq_handler: only a return to ring 3 looks at signals.
IrqReturn(p) ==
  /\ current = p /\ irq[p]
  /\ irq' = [irq EXCEPT ![p] = FALSE]
  /\ IF pc[p] = "user"
     THEN Deliver(p)
     ELSE interrupts' = TRUE /\ UNCHANGED <<pending, state, pc>>
  /\ UNCHANGED <<next_pid, parent, mask, wakeup, queue, current, slice, target>>

At(p, l) == current = p /\ ~irq[p] /\ pc[p] = l

\* The end of syscall_handler.
SysRet(p) ==
  /\ At(p, "sysret")
  /\ Deliver(p)
  /\ UNCHANGED <<next_pid, parent, mask, wakeup, queue, current, slice, irq,
                 target>>

\* fork_return, and the way back of a task_exit that schedule() returned to.
Iret(p) ==
  /\ At(p, "iret")
  /\ pc' = [pc EXCEPT ![p] = "user"]
  /\ interrupts' = TRUE
  /\ UNCHANGED <<next_pid, state, parent, pending, mask, wakeup, queue,
                 current, slice, irq, target>>

\* task_exit from signal delivery, after state = EXITED: wake and signal the
\* parent, then schedule().
ExitWake(p) ==
  /\ At(p, "wake")
  /\ state' = Woken(state, parent[p])
  /\ pending' = Sent(state, parent[p], "SIGCHLD")
  /\ pc' = [pc EXCEPT ![p] = "yield"]
  /\ UNCHANGED <<next_pid, parent, mask, wakeup, queue, current, slice, irq,
                 target, interrupts>>

ExitYield(p) ==
  /\ At(p, "yield")
  /\ Schedule(state)
  /\ pc' = [pc EXCEPT ![p] = "iret"]
  /\ UNCHANGED <<next_pid, parent, pending, mask, wakeup, slice, irq, target,
                 interrupts>>
-----------------------------------------------------------------------------
(* System calls.  int 0x80 turns interrupts off and is made from ring 3. *)

Enter(p, call) ==
  /\ call \in Workload
  /\ At(p, "user")
  /\ interrupts' = FALSE

Goto(p, l) == pc' = [pc EXCEPT ![p] = l]

\* task_alloc finds a slot.
TaskAllocOK == next_pid < MAX_TASKS

\* task_fork when every allocation succeeds: the child gets the next slot,
\* default signal state and a context that leaves through fork_return.
Fork(p) ==
  /\ Enter(p, "fork")
  /\ TaskAllocOK
  /\ next_pid' = next_pid + 1
  /\ state' = [state EXCEPT ![next_pid] = "READY"]
  /\ parent' = [parent EXCEPT ![next_pid] = p]
  /\ pending' = [pending EXCEPT ![next_pid] = {}]
  /\ mask' = [mask EXCEPT ![next_pid] = {}]
  /\ queue' = Append(queue, next_pid)
  /\ pc' = [pc EXCEPT ![p] = "sysret", ![next_pid] = "iret"]
  /\ UNCHANGED <<wakeup, current, slice, irq, target>>

\* task_fork when mm_clone_pdir fails: the slot stays taken, READY and with
\* its parent, but without context and outside the run queue.
ForkFail(p) ==
  /\ Enter(p, "forkfail")
  /\ TaskAllocOK
  /\ next_pid' = next_pid + 1
  /\ state' = [state EXCEPT ![next_pid] = "READY"]
  /\ parent' = [parent EXCEPT ![next_pid] = p]
  /\ pending' = [pending EXCEPT ![next_pid] = {}]
  /\ mask' = [mask EXCEPT ![next_pid] = {}]
  /\ Goto(p, "sysret")
  /\ UNCHANGED <<wakeup, queue, current, slice, irq, target>>

\* task_fork when the table is full.
ForkNoSlot(p) ==
  /\ Enter(p, "fork")
  /\ ~TaskAllocOK
  /\ Goto(p, "sysret")
  /\ UNCHANGED <<next_pid, state, parent, pending, mask, wakeup, queue,
                 current, slice, irq, target>>

\* sys_exit: task_exit with interrupts off throughout.
Exit(p) ==
  /\ Enter(p, "exit")
  /\ LET st == [state EXCEPT ![p] = "EXITED"]
     IN  /\ pending' = Sent(st, parent[p], "SIGCHLD")
         /\ Schedule(Woken(st, parent[p]))
  /\ Goto(p, "sysret")
  /\ UNCHANGED <<next_pid, parent, mask, wakeup, slice, irq, target>>

\* Mutant: the state of the child is not looked at.
AnyChildOf(p, t) ==
  {c \in Pid : c < next_pid /\ parent[c] = p /\ (t <= 0 \/ c = t)}

\* task_find_child_exited_pid
ExitedChild(p, t) ==
  {c \in Pid : /\ c < next_pid /\ parent[c] = p /\ state[c] = "EXITED"
               /\ t <= 0 \/ c = t}

\* sys_waitpid up to the head of task_waitpid's loop.
Waitpid(p, t) ==
  /\ Enter(p, "waitpid")
  /\ target' = [target EXCEPT ![p] = t]
  /\ Goto(p, "waitpid")
  /\ UNCHANGED <<next_pid, state, parent, pending, mask, wakeup, queue,
                 current, slice, irq>>

\* The child found is the one in the lowest slot; init_waiter goes on to panic.
Reap(p) ==
  /\ At(p, "waitpid")
  /\ \E c \in ExitedChild(p, target[p]) :
       /\ \A d \in ExitedChild(p, target[p]) : c <= d
       /\ parent' = [parent EXCEPT ![c] = NoPid]
  /\ Goto(p, IF p = WaiterPid THEN "panic" ELSE "sysret")
  /\ UNCHANGED <<next_pid, state, pending, mask, wakeup, queue, current,
                 slice, irq, target, interrupts>>

NoneExited(p) ==
  /\ At(p, "waitpid")
  /\ ExitedChild(p, target[p]) = {}
  /\ Goto(p, "block")
  /\ UNCHANGED <<next_pid, state, parent, pending, mask, wakeup, queue,
                 current, slice, irq, target, interrupts>>

\* task_block, called by task_waitpid.
Block(p) ==
  /\ At(p, "block")
  /\ Schedule([state EXCEPT ![p] = "BLOCKED"])
  /\ Goto(p, "waitpid")
  /\ UNCHANGED <<next_pid, parent, pending, mask, wakeup, slice, irq, target,
                 interrupts>>

\* sys_waitpid with WNOHANG.
WaitNoHang(p, t) ==
  /\ Enter(p, "nohang")
  /\ \/ \E c \in ExitedChild(p, t) :
          /\ \A d \in ExitedChild(p, t) : c <= d
          /\ parent' = [parent EXCEPT ![c] = NoPid]
     \/ ExitedChild(p, t) = {} /\ UNCHANGED parent
  /\ Goto(p, "sysret")
  /\ UNCHANGED <<next_pid, state, pending, mask, wakeup, queue, current,
                 slice, irq, target>>

Yield(p) ==
  /\ Enter(p, "yield")
  /\ Schedule(state)
  /\ Goto(p, "sysret")
  /\ UNCHANGED <<next_pid, parent, pending, mask, wakeup, slice, irq, target>>

\* sys_kill: pid 0 is refused, a pid that is not a task is accepted.
Kill(p, q, sig) ==
  /\ Enter(p, "kill")
  /\ pending' = Sent(state, q, sig)
  /\ state' = Woken(state, q)
  /\ Goto(p, "sysret")
  /\ UNCHANGED <<next_pid, parent, mask, wakeup, queue, current, slice, irq,
                 target>>

\* sys_rt_sigprocmask with SIG_SETMASK.
Sigprocmask(p, m) ==
  /\ Enter(p, "mask")
  /\ mask' = [mask EXCEPT ![p] = m]
  /\ Goto(p, "sysret")
  /\ UNCHANGED <<next_pid, state, parent, pending, wakeup, queue, current,
                 slice, irq, target>>
-----------------------------------------------------------------------------
(* sys_nanosleep *)

Nanosleep(p, n) ==
  /\ Enter(p, "sleep")
  /\ wakeup' = [wakeup EXCEPT ![p] = n]
  /\ state' = [state EXCEPT ![p] = "BLOCKED"]
  /\ Goto(p, "sleep")
  /\ UNCHANGED <<next_pid, parent, pending, mask, queue, current, slice, irq,
                 target>>

\* The loop is over: the time has come, or the tick cleared wakeup_tick, or a
\* signal that is not masked ends the sleep and leaves wakeup_tick as it is.
SleepDone(p) ==
  /\ At(p, "sleep")
  /\ wakeup[p] <= 0 \/ pending[p] \ mask[p] # {}
  /\ state' = [state EXCEPT ![p] = "RUNNING"]
  /\ Goto(p, "sysret")
  /\ UNCHANGED <<next_pid, parent, pending, mask, wakeup, queue, current,
                 slice, irq, target, interrupts>>

SleepSchedule(p) ==
  /\ At(p, "sleep")
  /\ wakeup[p] > 0 /\ pending[p] \ mask[p] = {}
  /\ Schedule(state)
  /\ Goto(p, "check")
  /\ UNCHANGED <<next_pid, parent, pending, mask, wakeup, slice, irq, target,
                 interrupts>>

\* Mutant: the loop goes round without sti and hlt.
SleepSpins(p) ==
  /\ At(p, "check")
  /\ Goto(p, "sleep")
  /\ UNCHANGED <<next_pid, state, parent, pending, mask, wakeup, queue,
                 current, slice, irq, target, interrupts>>

\* sti; hlt, left by the next interrupt; or no hlt when the time has come.
SleepHalt(p) ==
  /\ At(p, "check")
  /\ IF wakeup[p] > 0
     THEN interrupts' = TRUE /\ Goto(p, "hlt")
     ELSE Goto(p, "sleep") /\ UNCHANGED interrupts
  /\ UNCHANGED <<next_pid, state, parent, pending, mask, wakeup, queue,
                 current, slice, irq, target>>
-----------------------------------------------------------------------------
(* Exceptions, the keyboard, and the end of init *)

\* common_handler: a fault in ring 3 makes its signal pending and delivers.
Fault(p) ==
  /\ Enter(p, "fault")
  /\ pending' = [pending EXCEPT ![p] = @ \cup {"SIGTERM"}]
  /\ irq' = [irq EXCEPT ![p] = TRUE]
  /\ UNCHANGED <<next_pid, state, parent, mask, wakeup, queue, current, slice,
                 pc, target>>

\* kbd_process_scancode on Ctrl+C: SIGINT to whatever task is current.
CtrlC ==
  /\ "ctrl_c" \in Workload
  /\ interrupts /\ current # NoPid
  /\ pending' = Sent(state, current, "SIGTERM")
  /\ state' = Woken(state, current)
  /\ irq' = [irq EXCEPT ![current] = TRUE]
  /\ pc' = [pc EXCEPT ![current] = IF @ = "hlt" THEN "sleep" ELSE @]
  /\ interrupts' = FALSE
  /\ UNCHANGED <<next_pid, parent, mask, wakeup, queue, current, slice, target>>

\* panic() is hlt in a loop; it does not turn interrupts off.
Panic(p) ==
  /\ At(p, "panic")
  /\ UNCHANGED vars
-----------------------------------------------------------------------------
\* kernel_main up to sti: the init task and its waiter are queued, no task is
\* current, every other slot is zero (READY, parent_pid 0, no context).
Init ==
  /\ next_pid = 2
  /\ state = [p \in Pid |-> "READY"]
  /\ parent = [p \in Pid |-> IF p = InitPid THEN WaiterPid
                             ELSE IF p = WaiterPid THEN NoPid ELSE 0]
  /\ pending = [p \in Pid |-> {}]
  /\ mask = [p \in Pid |-> {}]
  /\ wakeup = [p \in Pid |-> NoAlarm]
  /\ queue = <<InitPid, WaiterPid>>
  /\ current = NoPid
  /\ slice = 0
  /\ pc = [p \in Pid |-> IF p = InitPid THEN "user"
                         ELSE IF p = WaiterPid THEN "waitpid" ELSE "none"]
  /\ irq = [p \in Pid |-> FALSE]
  /\ target = [p \in Pid |-> AnyChild]
  /\ interrupts = TRUE

\* What the kernel does on its own for the current task, apart from the end
\* of an interrupt handler.
KernelStep(p) ==
  \/ SysRet(p) \/ Iret(p) \/ ExitWake(p) \/ ExitYield(p)
  \/ Reap(p) \/ NoneExited(p) \/ Block(p)
  \/ SleepDone(p) \/ SleepSchedule(p) \/ SleepHalt(p)

\* What programs choose to do.
UserStep(p) ==
  \/ Fork(p) \/ ForkFail(p) \/ ForkNoSlot(p) \/ Exit(p) \/ Yield(p) \/ Fault(p)
  \/ \E t \in {AnyChild} \cup 1 .. MAX_TASKS - 1 :
       Waitpid(p, t) \/ WaitNoHang(p, t)
  \/ \E q \in 1 .. MAX_TASKS - 1, sig \in Sig : Kill(p, q, sig)
  \/ \E m \in SUBSET Sig : Sigprocmask(p, m)
  \/ \E n \in 1 .. MaxSleep : Nanosleep(p, n)

Next ==
  \/ Tick
  \/ CtrlC
  \/ \E p \in Pid : IrqReturn(p) \/ KernelStep(p) \/ UserStep(p) \/ Panic(p)

\* The CPU executes the kernel code it has reached: a handler returns, and
\* ticks do not come so fast that the interrupted code never moves.  The PIC
\* latches the timer interrupt, so a tick that comes while interrupts are off
\* is taken when they are next on.  Programs promise nothing.
Fairness ==
  /\ \A p \in Pid : WF_vars(IrqReturn(p)) /\ SF_vars(KernelStep(p))
  /\ SF_vars(Tick)

Spec == Init /\ [][Next]_vars
FairSpec == Spec /\ Fairness
-----------------------------------------------------------------------------
(* Properties *)

\* Every variable has its type: in particular the table never overflows
\* (next_pid) and no alarm or slice counter leaves its range.
TypeOK ==
  /\ next_pid \in 2 .. MAX_TASKS
  /\ state \in [Pid -> State]
  /\ parent \in [Pid -> Pid \cup {NoPid}]
  /\ pending \in [Pid -> SUBSET Sig]
  /\ mask \in [Pid -> SUBSET Sig]
  /\ wakeup \in [Pid -> NoAlarm .. MaxSleep]
  /\ queue \in Seq(Pid)
  /\ current \in Pid \cup {NoPid}
  /\ slice \in 0 .. TIME_SLICE - 1
  /\ pc \in [Pid -> Loc]
  /\ irq \in [Pid -> BOOLEAN]
  /\ target \in [Pid -> {AnyChild} \cup 1 .. MAX_TASKS - 1]
  /\ interrupts \in BOOLEAN

\* The run queue holds every task that has a context, once, and no other
\* slot: move_to_tail and scheduler_add_task neither lose, duplicate nor
\* invent a task, however forks, exits and preemptions interleave.
RunQueueOK ==
  /\ \A i, j \in 1 .. Len(queue) : queue[i] = queue[j] => i = j
  /\ Queued = {p \in Pid : pc[p] # "none"}

\* Only the current task is RUNNING: schedule() never leaves two tasks
\* marked as running, and nothing marks a task that is not on the CPU.
SoleRunner == \A p \in Pid : state[p] = "RUNNING" => p = current

\* Only slots that task_alloc handed out have a context, the task on the CPU
\* has one, and init_waiter, which has no user mode, never exits.
SlotsOK ==
  /\ \A p \in Pid : pc[p] # "none" => p < next_pid
  /\ current # NoPid => pc[current] # "none"
  /\ pc[WaiterPid] \in {"waitpid", "block", "panic"}
  /\ state[WaiterPid] # "EXITED"

\* The parent of a task with a context has a context, is another task, and
\* is there as long as the task has not exited and left the CPU.
ParentsOK ==
  \A p \in Pid :
    /\ parent[p] # p
    /\ (pc[p] # "none" /\ parent[p] # NoPid) => pc[parent[p]] # "none"
    /\ parent[p] = NoPid => \/ p = WaiterPid
                            \/ state[p] = "EXITED" /\ p # current

\* An exited task that still has the CPU has woken its parent once it is past
\* task_wake, and has an exited parent once it is past task_exit.
ZombiesOK ==
  \A p \in Pid : (p = current /\ state[p] = "EXITED") =>
    /\ pc[p] = "yield" => state[parent[p]] \in {"READY", "EXITED"}
    /\ pc[p] \notin {"wake", "yield"} => state[parent[p]] = "EXITED"

\* The inductive invariant that the safety properties below follow from:
\* which tasks can be on the CPU after task_exit, and why.
ExitInv ==
  TypeOK /\ RunQueueOK /\ SoleRunner /\ SlotsOK /\ ParentsOK /\ ZombiesOK

\* A task goes back to ring 3 after its task_exit only when its parent had
\* exited before it: otherwise task_exit makes the parent READY and schedule()
\* leaves the exited task for good.
ZombieOnlyIfOrphan ==
  \A p \in Pid : (At(p, "user") /\ state[p] = "EXITED")
                   => /\ parent[p] # NoPid
                      /\ state[parent[p]] = "EXITED"

\* Programs do not run in a task that is marked BLOCKED.
BlockedNotInRing3 == \A p \in Pid : At(p, "user") => state[p] # "BLOCKED"

SpinsIdle ==
  \A p \in Pid : (At(p, "waitpid") /\ state[p] = "BLOCKED" /\ ~interrupts)
                   => \A q \in Queued : state[q] # "READY"

\* The CPU goes round task_waitpid's loop with interrupts off, in a task that
\* is BLOCKED, only when no queued task is READY.  Exception: where interrupts
\* leaked into task_waitpid a child may exit before its parent's task_block,
\* and the parent goes back to ring 3 marked BLOCKED, into its next waitpid.
SpinsOnlyWhenIdle == []BlockedNotInRing3 => []SpinsIdle

\* A task's parent link changes twice at most: fork sets it, and a waitpid
\* of that very parent clears it, after the task has exited.
ReapedOnceByParent ==
  [][\A c \in Pid : parent'[c] # parent[c] =>
       \/ c = next_pid
       \/ /\ parent'[c] = NoPid
          /\ state[c] = "EXITED"
          /\ parent[c] = current]_vars

InSleep(p) == pc[p] \in {"sleep", "check", "hlt"}
InWaitpid(p) == pc[p] \in {"waitpid", "block"}

\* The machine is stuck: the CPU loops in waitpid, with interrupts off.
Frozen ==
  /\ current # NoPid /\ ~interrupts
  /\ InWaitpid(current)
  /\ state[current] = "BLOCKED"

Panicked == current = WaiterPid /\ pc[WaiterPid] = "panic"

\* Round robin starves nobody: a READY task gets the CPU.
ReadyRuns ==
  \A p \in Pid : (pc[p] # "none" /\ state[p] = "READY")
                   ~> (current = p \/ Panicked)

\* A parent in waitpid collects a child that has exited.
WaitpidReturns ==
  \A p \in Pid : (InWaitpid(p) /\ ExitedChild(p, target[p]) # {})
                   ~> (~InWaitpid(p) \/ Panicked)

\* A task in nanosleep comes back.
SleepersWake ==
  \A p \in Pid : InSleep(p) ~> (~InSleep(p) \/ Panicked)

\* A task in nanosleep comes back unless the machine freezes in waitpid.
SleepersWakeOrFreeze ==
  \A p \in Pid : InSleep(p) ~> (~InSleep(p) \/ Panicked \/ Frozen)
=============================================================================
