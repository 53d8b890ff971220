------------------------------- MODULE Signals ------------------------------
(***************************************************************************)
(* Signals of one user task with handlers: kernel/signal.c, the exceptions *)
(* of arch/i386/interrupts.c, and what fork and exec do to signals.  Tasks *)
(* models a task that has no handlers, with the scheduler around it.       *)
(*                                                                         *)
(* The task is a record and an operation maps it to the next one: what a   *)
(* system call does comes first, then signal_check_and_deliver on the way  *)
(* back to user mode.  The user stack is the sequence of the signal frames *)
(* on it: the code that runs is the program when it is empty, and else the *)
(* handler that the last frame called.  slot is task->signal_sigframe, as  *)
(* the place of a frame in that sequence, 0 for none.                      *)
(*                                                                         *)
(* status is "run", "dead", "derailed" (a handler came back through a      *)
(* sigreturn that refused, and runs on behind its trampoline) or "halted"  *)
(* (the kernel faulted while it left an exception and stopped).            *)
(*                                                                         *)
(* Frames are in user memory.  Of what a program can write there, the      *)
(* model has the saved mask; the saved context stays what it was.          *)
(*                                                                         *)
(* History: base is the mask that the program last chose for itself,       *)
(* outside its handlers or in the frame that leads back to it; sent counts *)
(* signals, killed says that SIGKILL was one; events are "nested", a       *)
(* handler returned into another, "forked", a child was born inside a      *)
(* handler, "opened", a handler unblocked signals, and "edited", a program *)
(* wrote over a saved mask.                                                *)
(***************************************************************************)
EXTENDS Integers, Sequences, FiniteSets, FiniteSetsExt

CONSTANTS
  Sig,        \* signal numbers in use
  Actions,    \* bound: what programs install for which signal
  Masks,      \* bound: the sets that programs pass to sigprocmask
  MaxDepth,   \* bound: frames on the user stack
  MaxSent     \* bound: signals and exceptions of a behaviour

SIGINT == 2
SIGKILL == 9
SIGSEGV == 11
SIGCHLD == 17
SIGCONT == 18
SIGSTOP == 19

Uncatchable == {SIGKILL, SIGSTOP}
Default == [handler |-> "SIG_DFL", mask |-> {}, nodefer |-> FALSE]

Sigactions == [handler : {"SIG_DFL", "SIG_IGN", "user"},
               mask : SUBSET Sig, nodefer : BOOLEAN]

ASSUME SignalsAssumption ==
  /\ Sig \subseteq 1 .. 31 /\ SIGSEGV \in Sig
  /\ Actions \subseteq Sig \X Sigactions
  /\ Masks \subseteq SUBSET Sig
  /\ MaxDepth \in Nat \ {0} /\ MaxSent \in Nat

VARIABLE task
vars == <<task>>

\* signal_init_task
InitTask(k) ==
  [k EXCEPT !.pending = {}, !.mask = {}, !.slot = 0,
            !.action = [s \in Sig |-> Default]]

Init ==
  task = InitTask([pending |-> {}, mask |-> {}, action |-> <<>>, slot |-> 0,
                   stack |-> <<>>, status |-> "run", base |-> {},
                   events |-> {}, sent |-> 0, killed |-> FALSE])

-----------------------------------------------------------------------------
(* signal_check_and_deliver.                                                *)

\* Dropped: SIG_IGN, or SIG_DFL of a signal that does not terminate.
Dropped(k, s) ==
  /\ s \notin Uncatchable
  /\ \/ k.action[s].handler = "SIG_IGN"
     \/ k.action[s].handler = "SIG_DFL" /\ s \in {SIGCHLD, SIGCONT}

Fatal(k, s) == s \in Uncatchable \/ k.action[s].handler = "SIG_DFL"

\* Mutant: the frame has the mask of the handler, not the one before it.
EnterSavesLate(k, s) ==
  LET a == k.action[s]
      m == (k.mask \cup a.mask \cup (IF a.nodefer THEN {} ELSE {s})) \ Uncatchable
  IN [k EXCEPT !.stack = Append(@, [sig |-> s, mask |-> m, nodefer |-> a.nodefer]),
               !.slot = Len(k.stack) + 1, !.mask = m]

\* Mutant: the signal that is handled is not blocked.
EnterUnblocked(k, s) ==
  LET a == k.action[s]
  IN [k EXCEPT !.stack = Append(@, [sig |-> s, mask |-> k.mask, nodefer |-> a.nodefer]),
               !.slot = Len(k.stack) + 1, !.mask = (@ \cup a.mask) \ Uncatchable]

\* Mutant: the address of the frame is not recorded.
EnterNoSlot(k, s) ==
  LET a == k.action[s]
  IN [k EXCEPT !.stack = Append(@, [sig |-> s, mask |-> k.mask, nodefer |-> a.nodefer]),
               !.mask = (@ \cup a.mask \cup (IF a.nodefer THEN {} ELSE {s}))
                        \ Uncatchable]

\* A user handler: the frame saves the context and the mask, the only slot
\* takes its address, whatever was in it.
Enter(k, s) ==
  LET a == k.action[s]
  IN [k EXCEPT !.stack = Append(@, [sig |-> s, mask |-> k.mask, nodefer |-> a.nodefer]),
               !.slot = Len(k.stack) + 1,
               !.mask = (@ \cup a.mask \cup (IF a.nodefer THEN {} ELSE {s}))
                        \ Uncatchable]

\* Mutant: a signal that has a handler takes those behind it with it.
DeliverClearsAll(k) ==
  LET ready == k.pending \ k.mask
      stop  == {s \in ready : ~Dropped(k, s)}
      s     == Min(stop)
      rest  == [k EXCEPT !.pending = @ \ ready]
  IN IF k.status # "run" THEN k
     ELSE IF stop = {} THEN rest
     ELSE IF Fatal(k, s) THEN [rest EXCEPT !.status = "dead"]
     ELSE Enter(rest, s)

\* In the order of their numbers, until one ends the task or has a handler.
Deliver(k) ==
  LET ready == k.pending \ k.mask
      stop  == {s \in ready : ~Dropped(k, s)}
      s     == Min(stop)
      rest  == [k EXCEPT !.pending = @ \ {x \in ready : stop = {} \/ x <= s}]
  IN IF k.status # "run" THEN k
     ELSE IF stop = {} THEN rest
     ELSE IF Fatal(k, s) THEN [rest EXCEPT !.status = "dead"]
     ELSE Enter(rest, s)

-----------------------------------------------------------------------------
(* The system calls and the events.                                         *)

\* sys_rt_sigaction, and sys_signal with an action that keeps mask and flags.
Sigaction(k, s, a) ==
  IF s \in Uncatchable THEN k ELSE [k EXCEPT !.action[s] = a]

Signal(k, s, h) ==
  IF s \in Uncatchable THEN k ELSE [k EXCEPT !.action[s].handler = h]

\* Mutant: every signal can be blocked.
ChosenMaskAll(k, how, set) ==
  CASE how = "SIG_BLOCK"   -> k.mask \cup set
    [] how = "SIG_UNBLOCK" -> k.mask \ set
    [] how = "SIG_SETMASK" -> set

\* The mask that sys_rt_sigprocmask sets.
ChosenMask(k, how, set) ==
  (CASE how = "SIG_BLOCK"   -> k.mask \cup set
     [] how = "SIG_UNBLOCK" -> k.mask \ set
     [] how = "SIG_SETMASK" -> set) \ Uncatchable

Sigprocmask(k, how, set) ==
  LET m == ChosenMask(k, how, set)
  IN [k EXCEPT !.mask = m,
               !.base = IF k.stack = <<>> THEN m ELSE @,
               !.events = IF k.stack = <<>> \/ k.mask \subseteq m THEN @
                          ELSE @ \cup {"opened"}]

\* A program writes m over the mask that frame i saved.
Rewrite(k, i, m) ==
  [k EXCEPT !.stack[i].mask = m,
            !.base = IF i = 1 THEN m ELSE @,
            !.events = @ \cup {"edited"}
                         \cup (IF k.stack[i].mask \subseteq m THEN {} ELSE {"opened"})]

\* sys_rt_sigreturn, which the trampoline of the last frame calls: it
\* restores the frame in the slot, with whatever mask is there, and refuses
\* when the slot is empty.
Sigreturn(k) ==
  IF k.slot = 0 THEN [k EXCEPT !.status = "derailed"]
  ELSE [k EXCEPT !.stack = SubSeq(@, 1, k.slot - 1), !.slot = 0,
                 !.mask = k.stack[k.slot].mask,
                 !.events = IF k.slot = 1 THEN @ ELSE @ \cup {"nested"}]

Send(k, s) ==
  [k EXCEPT !.pending = @ \cup {s}, !.sent = @ + 1, !.killed = @ \/ s = SIGKILL]

\* sys_exec: the new program starts on an empty stack, and forgets the
\* signals that were pending.
Exec(k) ==
  [InitTask(k) EXCEPT !.stack = <<>>, !.base = {}, !.events = {}, !.killed = FALSE]

\* task_fork, seen by the child: the user stack is copied, signals are not.
Forked(k) ==
  [InitTask(k) EXCEPT !.base = {}, !.killed = FALSE,
                        !.events = IF k.stack = <<>> THEN @ ELSE @ \cup {"forked"}]

\* An exception in user mode.  The stub of an exception with an error code
\* takes the code off the stack twice over, so when the handler comes back
\* iretl finds no valid frame, and the kernel stops at the fault it makes.
Trapped(k, code) ==
  LET d == Deliver(Send(k, SIGSEGV))
  IN IF code /\ d.status = "run" THEN [d EXCEPT !.status = "halted"] ELSE d

-----------------------------------------------------------------------------
Fits == Len(task'.stack) <= MaxDepth
Running == task.status = "run"
MaySend == task.sent < MaxSent

SetAction == \E x \in Actions : task' = Deliver(Sigaction(task, x[1], x[2]))
SetHandler == \E x \in Actions : task' = Deliver(Signal(task, x[1], x[2].handler))
SetMask ==
  \E how \in {"SIG_BLOCK", "SIG_UNBLOCK", "SIG_SETMASK"}, set \in Masks :
    task' = Deliver(Sigprocmask(task, how, set))
RewritesFrame ==
  \E i \in DOMAIN task.stack, m \in Masks : task' = Rewrite(task, i, m)
HandlerReturns == task.stack # <<>> /\ task' = Deliver(Sigreturn(task))
KillSelf == MaySend /\ \E s \in Sig : task' = Deliver(Send(task, s))
KilledByOther == MaySend /\ \E s \in Sig : task' = Send(task, s)
Executes == task' = Deliver(Exec(task))
BecomesChild == task' = Deliver(Forked(task))
Traps == MaySend /\ \E code \in BOOLEAN : task' = Trapped(task, code)

\* Any interrupt or other system call: back in user mode, signals are seen to.
Returns == task' = Deliver(task)

Step(A) == Running /\ A /\ Fits

Next ==
  \/ Step(SetAction) \/ Step(SetHandler) \/ Step(SetMask)
  \/ Step(RewritesFrame) \/ Step(HandlerReturns) \/ Step(KillSelf) \/ Step(KilledByOther)
  \/ Step(Executes) \/ Step(BecomesChild) \/ Step(Traps) \/ Step(Returns)

Spec == Init /\ [][Next]_vars

\* The timer interrupts the task again and again.
FairSpec == Spec /\ WF_vars(Step(Returns))

-----------------------------------------------------------------------------
(* Properties.                                                              *)

\* The fields of struct task and the frames on the user stack are well
\* formed, and the slot is empty or has the last frame: never an older one.
TypeOK ==
  /\ task.pending \subseteq Sig /\ task.mask \subseteq Sig
  /\ task.status \in {"run", "dead", "derailed", "halted"}
  /\ \A i \in DOMAIN task.stack : task.stack[i].sig \in Sig
  /\ task.slot \in {0, Len(task.stack)}

\* SIGKILL and SIGSTOP cannot be caught.  Nor can they be blocked: not by
\* sigprocmask, not by the mask of another signal's handler, and not by a mask
\* that sigreturn puts back as the kernel saved it.  One that the program wrote
\* over in its frame is put back unchecked: that is the only way.
KillStaysDeadly ==
  \A s \in Uncatchable \cap Sig :
    /\ task.action[s] = Default
    /\ "edited" \notin task.events =>
         /\ s \notin task.mask
         /\ \A i \in DOMAIN task.stack : s \notin task.stack[i].mask

\* What a handler blocks, and what it changes of the mask by sigprocmask,
\* ends with it: in the program the mask is always the one the program chose.
MaskRestored ==
  task.status = "run" /\ task.stack = <<>> => task.mask = task.base

\* A handler is not entered again before it has returned, unless it asked
\* for that (SA_NODEFER) or unblocked signals itself.
NoReentry ==
  task.events \cap {"opened", "forked"} = {} =>
    \A i, j \in DOMAIN task.stack :
      i < j /\ task.stack[i].sig = task.stack[j].sig => task.stack[i].nodefer

\* A handler that is not interrupted by another one, in a task that was not
\* forked inside it, comes back to where its signal arrived.
PlainHandlersReturn ==
  task.status = "derailed" => task.events \cap {"nested", "forked"} # {}

\* The inductive invariant of the proofs.  The slot has the frame of the last
\* handler, or has lost it to a nested handler or to a fork (slot = 0); only
\* the frame of a handler that interrupted the program leads back to it, and
\* that one saved the program's mask; a handler that did not ask for
\* SA_NODEFER has its signal in the mask, and in that of every later frame;
\* and no mask, saved or in force, has SIGKILL or SIGSTOP unless the program
\* wrote over a saved one.
Frame == [sig : Sig \ Uncatchable, mask : SUBSET Sig, nodefer : BOOLEAN]
Task == [pending : SUBSET Sig, mask : SUBSET Sig,
         action : [Sig -> Sigactions], slot : Nat, stack : Seq(Frame),
         status : {"run", "dead", "derailed", "halted"}, base : SUBSET Sig,
         events : SUBSET {"nested", "forked", "opened", "edited"}, sent : Nat,
         killed : BOOLEAN]
Slots(k) ==
  /\ k.slot \in {0, Len(k.stack)}
  /\ k.slot = 0 /\ Len(k.stack) > 0 =>
       "nested" \in k.events \/ "forked" \in k.events
  /\ k.status = "derailed" => "nested" \in k.events \/ "forked" \in k.events
  /\ k.slot = 1 => k.stack[1].mask = k.base
  /\ k.status = "run" /\ Len(k.stack) = 0 => k.mask = k.base
Blocked(k) ==
  "opened" \notin k.events /\ "forked" \notin k.events =>
    \A i \in 1 .. Len(k.stack) : ~k.stack[i].nodefer =>
      /\ k.stack[i].sig \in k.mask
      /\ \A j \in i + 1 .. Len(k.stack) :
           k.stack[i].sig \in k.stack[j].mask /\ k.stack[j].sig # k.stack[i].sig
Open(m) == m \cap Uncatchable = {}
Deadly(k) ==
  "edited" \notin k.events =>
    Open(k.mask) /\ \A i \in 1 .. Len(k.stack) : Open(k.stack[i].mask)
Good(k) ==
  /\ k \in Task /\ Slots(k) /\ Blocked(k) /\ Deadly(k)
  /\ \A s \in Uncatchable \cap Sig : k.action[s] = Default
SignalsInv == Good(task)

\* SIGKILL ends the task, also behind signals with lower numbers that have
\* handlers.  It is lost only to an exec that comes first, and it waits only
\* while a mask that the program wrote into a frame blocks it.
KillKills ==
  task.killed ~> \/ task.status # "run" \/ ~task.killed
                 \/ "edited" \in task.events /\ SIGKILL \in task.mask
=============================================================================
