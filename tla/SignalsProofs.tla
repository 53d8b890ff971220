--------------------------- MODULE SignalsProofs ----------------------------
(***************************************************************************)
(* Proofs about Signals, for any set of signal numbers, any actions and    *)
(* masks that programs choose, and any nesting of handlers.  An operation  *)
(* maps a task to a task, so the inductive invariant is a predicate Good   *)
(* of tasks: one lemma per operation, and one for the delivery that ends   *)
(* each of them.                                                           *)
(***************************************************************************)
EXTENDS Signals, TLAPS, WellFoundedInduction, SequenceTheorems

USE DEF Uncatchable, SIGKILL, SIGSTOP

\* signal_check_and_deliver looks at the lowest signal first: there is one.
LEMMA LowestSignal ==
  ASSUME NEW S \in SUBSET Nat, S # {}
  PROVE  Min(S) \in S /\ \A y \in S : Min(S) <= y
<1> DEFINE R == {ss \in Nat \X Nat : ss[1] < ss[2]}
<1>1. IsWellFoundedOn(R, Nat)
  BY NatLessThanWellFounded DEF OpToRel
<1>2. \E x \in S : \A y \in S : ~(<<y, x>> \in R)
  BY <1>1, WFMin, Zenon
<1>3. \E x \in S : \A y \in S : x <= y
  <2>1. PICK x \in S : \A y \in S : ~(<<y, x>> \in R) BY <1>2
  <2>2. \A y \in S : x <= y
    <3> SUFFICES ASSUME NEW y \in S, y < x PROVE FALSE OBVIOUS
    <3>1. <<y, x>> \in R OBVIOUS
    <3> QED BY <3>1, <2>1
  <2> QED BY <2>2
<1> QED BY <1>3, Zenon DEF Min

\* A handler starts with its frame in the slot, its signal blocked, and
\* SIGKILL and SIGSTOP open.
LEMMA EnterGood ==
  ASSUME NEW k, Good(k), k.status = "run",
         NEW s \in Sig \ Uncatchable, s \notin k.mask
  PROVE  Good(Enter(k, s))
<1> DEFINE f == [sig |-> s, mask |-> k.mask, nodefer |-> k.action[s].nodefer]
           e == Enter(k, s)
<1>1. k \in Task /\ Slots(k) /\ Blocked(k) BY DEF Good
<1>2. f \in Frame /\ k.action[s] \in Sigactions
  BY <1>1 DEF Task, Frame, Sigactions
<1>3. /\ e.stack = Append(k.stack, f) /\ e.slot = Len(k.stack) + 1
      /\ e.status = "run" /\ e.base = k.base /\ e.events = k.events
      /\ e.action = k.action
      /\ e.mask = (k.mask \cup k.action[s].mask
                   \cup (IF k.action[s].nodefer THEN {} ELSE {s})) \ Uncatchable
  BY <1>1 DEF Enter, Task
<1>4. e \in Task
  <2>1. Append(k.stack, f) \in Seq(Frame) /\ Len(k.stack) + 1 \in Nat
    BY <1>1, <1>2 DEF Task
  <2>2. (k.mask \cup k.action[s].mask \cup (IF k.action[s].nodefer THEN {} ELSE {s}))
          \ Uncatchable \in SUBSET Sig
    BY <1>1, <1>2 DEF Task, Sigactions
  <2> QED BY <1>1, <2>1, <2>2, Zenon DEF Enter, Task
<1>5. /\ Len(e.stack) = Len(k.stack) + 1
      /\ \A i \in 1 .. Len(k.stack) : e.stack[i] = k.stack[i]
      /\ e.stack[Len(k.stack) + 1] = f
      /\ Len(k.stack) \in Nat
  BY <1>1, <1>2, <1>3 DEF Task
<1>6. Slots(e)
  <2>1. e.slot = 1 => e.stack[1].mask = e.base
    BY <1>1, <1>3, <1>5 DEF Slots
  <2> QED BY <2>1, <1>1, <1>3, <1>5 DEF Slots
<1>7. Blocked(e)
  <2> SUFFICES ASSUME "opened" \notin k.events, "forked" \notin k.events,
                      NEW i \in 1 .. Len(e.stack), ~e.stack[i].nodefer
               PROVE  /\ e.stack[i].sig \in e.mask
                      /\ \A j \in i + 1 .. Len(e.stack) :
                           /\ e.stack[i].sig \in e.stack[j].mask
                           /\ e.stack[j].sig # e.stack[i].sig
    BY <1>3 DEF Blocked
  <2>1. CASE i = Len(k.stack) + 1
    BY <2>1, <1>1, <1>2, <1>3, <1>5 DEF Task, Sigactions
  <2>2. CASE i \in 1 .. Len(k.stack)
    <3>1. /\ e.stack[i] = k.stack[i] /\ k.stack[i].sig \in k.mask
          /\ k.stack[i].sig \in Sig \ Uncatchable
          /\ \A j \in i + 1 .. Len(k.stack) :
               k.stack[i].sig \in k.stack[j].mask /\ k.stack[j].sig # k.stack[i].sig
      <4>1. k.stack[i] \in Frame BY <2>2, <1>1 DEF Task
      <4>2. e.stack[i] = k.stack[i] BY <2>2, <1>5, Zenon
      <4>3. ~k.stack[i].nodefer BY <4>2, Zenon
      <4> HIDE DEF e, f
      <4> QED BY <2>2, <1>1, <4>1, <4>2, <4>3, Zenon DEF Blocked, Frame
    <3> QED BY <3>1, <2>2, <1>3, <1>5
  <2> QED BY <2>1, <2>2, <1>5
<1>8. \A x \in Uncatchable \cap Sig : e.action[x] = Default
  BY <1>3 DEF Good
<1>9. Deadly(e)
  <2> SUFFICES ASSUME "edited" \notin k.events
               PROVE  Open(e.mask) /\ \A i \in 1 .. Len(e.stack) : Open(e.stack[i].mask)
    BY <1>3 DEF Deadly
  <2>1. Open(k.mask) /\ \A i \in 1 .. Len(k.stack) : Open(k.stack[i].mask)
    BY DEF Good, Deadly
  <2>2. Open(e.mask) BY <1>3 DEF Open
  <2>3. \A i \in 1 .. Len(e.stack) : i \in 1 .. Len(k.stack) \/ i = Len(k.stack) + 1
    BY <1>5
  <2>4. f.mask = k.mask OBVIOUS
  <2> HIDE DEF f, e
  <2> QED BY <1>5, <2>1, <2>2, <2>3, <2>4, Zenon
<1> QED BY <1>4, <1>6, <1>7, <1>8, <1>9 DEF Good

\* Whatever is delivered, the task stays well formed.
LEMMA DeliverGood ==
  ASSUME NEW k, Good(k)
  PROVE  Good(Deliver(k))
<1> DEFINE ready == k.pending \ k.mask
           stop  == {s \in ready : ~Dropped(k, s)}
           s     == Min(stop)
           rest  == [k EXCEPT !.pending = @ \ {x \in ready : stop = {} \/ x <= s}]
<1>1. k \in Task BY DEF Good
<1>2. Good(rest) /\ rest.status = k.status /\ rest.mask = k.mask /\ rest \in Task
  <2>1. /\ rest \in Task /\ rest.status = k.status /\ rest.mask = k.mask
        /\ rest.stack = k.stack /\ rest.slot = k.slot /\ rest.base = k.base
        /\ rest.events = k.events /\ rest.action = k.action
    BY <1>1, Zenon DEF Task
  <2> QED BY <2>1 DEF Good, Slots, Blocked, Deadly
<1>3. CASE k.status # "run" BY <1>3 DEF Deliver
<1>4. CASE k.status = "run" /\ stop = {} BY <1>2, <1>4 DEF Deliver
<1>5. CASE k.status = "run" /\ stop # {}
  <2>1. s \in stop
    <3>1. k.pending \in SUBSET Nat
      <4>1. k.pending \in SUBSET Sig BY <1>1 DEF Task
      <4>2. Sig \subseteq Nat BY SignalsAssumption
      <4> QED BY <4>1, <4>2, Zenon
    <3>2. stop \in SUBSET Nat BY <3>1
    <3>3. stop # {} BY <1>5
    <3> HIDE DEF stop
    <3> QED BY <3>2, <3>3, LowestSignal
  <2>2. s \in Sig /\ s \notin rest.mask BY <2>1, <1>1, <1>2 DEF Task
  <2>3. CASE Fatal(k, s)
    <3> DEFINE d == [rest EXCEPT !.status = "dead"]
    <3>1. /\ d \in Task /\ d.status = "dead" /\ d.mask = rest.mask
          /\ d.stack = rest.stack /\ d.slot = rest.slot /\ d.base = rest.base
          /\ d.events = rest.events /\ d.action = rest.action
      BY <1>2 DEF Task
    <3>2. Good(d) BY <3>1, <1>2 DEF Good, Slots, Blocked, Deadly
    <3> QED BY <3>2, <2>3, <1>5 DEF Deliver
  <2>4. CASE ~Fatal(k, s)
    <3>1. s \in Sig \ Uncatchable BY <2>2, <2>4 DEF Fatal
    <3>2. Good(Enter(rest, s)) BY <3>1, <2>2, <1>2, <1>5, EnterGood, Zenon
    <3> QED BY <3>2, <2>4, <1>5 DEF Deliver
  <2> QED BY <2>3, <2>4
<1> QED BY <1>3, <1>4, <1>5

\* sigaction and signal leave SIGKILL and SIGSTOP alone.
LEMMA ActionGood ==
  ASSUME NEW k, Good(k), NEW s \in Sig, NEW a \in Sigactions
  PROVE  /\ Good(Sigaction(k, s, a))
         /\ Good(Signal(k, s, a.handler))
<1>1. k \in Task BY DEF Good
<1>2. ASSUME NEW b \in Sigactions, s \notin Uncatchable
      PROVE  Good([k EXCEPT !.action[s] = b])
  <2> DEFINE e == [k EXCEPT !.action[s] = b]
  <2>1. /\ e \in Task /\ e.status = k.status /\ e.mask = k.mask
        /\ e.stack = k.stack /\ e.slot = k.slot /\ e.base = k.base
        /\ e.events = k.events /\ e.action = [k.action EXCEPT ![s] = b]
    BY <1>1, Zenon DEF Task
  <2>2. \A x \in Uncatchable \cap Sig : e.action[x] = Default
    BY <1>1, <1>2, <2>1 DEF Good, Task
  <2> HIDE DEF e
  <2>3. Good(e) BY <2>1, <2>2 DEF Good, Slots, Blocked, Deadly
  <2> QED BY <2>3 DEF e
<1>3. Good(Sigaction(k, s, a)) BY <1>2 DEF Sigaction
<1>4. Good(Signal(k, s, a.handler))
  <2> DEFINE b == [k.action[s] EXCEPT !.handler = a.handler]
  <2>1. b \in Sigactions BY <1>1 DEF Task, Sigactions
  <2>2. s \notin Uncatchable => Signal(k, s, a.handler) = [k EXCEPT !.action[s] = b]
    BY <1>1 DEF Signal, Task
  <2> HIDE DEF b
  <2>3. CASE s \in Uncatchable BY <2>3 DEF Signal
  <2>4. CASE s \notin Uncatchable BY <1>2, <2>1, <2>2, <2>4
  <2> QED BY <2>3, <2>4
<1> QED BY <1>3, <1>4

\* sigprocmask sets the mask of the program, or, in a handler, only adds to
\* it unless the handler is said to have opened it.
LEMMA MaskGood ==
  ASSUME NEW k, Good(k), NEW set \in SUBSET Sig,
         NEW how \in {"SIG_BLOCK", "SIG_UNBLOCK", "SIG_SETMASK"}
  PROVE  Good(Sigprocmask(k, how, set))
<1> DEFINE m == ChosenMask(k, how, set)
           e == Sigprocmask(k, how, set)
<1>1. k \in Task /\ Slots(k) /\ Blocked(k) BY DEF Good
<1>2. m \in SUBSET Sig /\ Open(m)
  BY <1>1 DEF ChosenMask, Task, Open
<1> HIDE DEF m
<1>3. Len(k.stack) \in Nat /\ (k.stack = <<>> <=> Len(k.stack) = 0)
  BY <1>1 DEF Task
<1>4. /\ e.stack = k.stack /\ e.slot = k.slot /\ e.status = k.status
      /\ e.action = k.action /\ e.mask = m
      /\ e.base = IF k.stack = <<>> THEN m ELSE k.base
      /\ e.events = IF k.stack = <<>> \/ k.mask \subseteq m THEN k.events
                    ELSE k.events \cup {"opened"}
  BY <1>1 DEF Sigprocmask, Task, m
<1>5. e \in Task
  BY <1>1, <1>2 DEF Sigprocmask, Task, m
<1> HIDE DEF e
<1>6. Slots(e) BY <1>1, <1>3, <1>4 DEF Slots
<1>7. Blocked(e)
  <2>1. CASE k.stack = <<>> BY <2>1, <1>3, <1>4 DEF Blocked
  <2>2. CASE k.stack # <<>> /\ k.mask \subseteq m
    BY <2>2, <1>1, <1>4 DEF Blocked
  <2>3. CASE k.stack # <<>> /\ ~(k.mask \subseteq m)
    BY <2>3, <1>4 DEF Blocked
  <2> QED BY <2>1, <2>2, <2>3
<1>8. Deadly(e) BY <1>2, <1>4 DEF Good, Deadly
<1> QED BY <1>4, <1>5, <1>6, <1>7, <1>8 DEF Good, e

\* Writing over a saved mask: that of the program's own frame is the mask the
\* program chose, and taking signals out of one opens it.
LEMMA RewriteGood ==
  ASSUME NEW k, Good(k), NEW i \in DOMAIN k.stack, NEW m \in SUBSET Sig
  PROVE  Good(Rewrite(k, i, m))
<1> DEFINE e == Rewrite(k, i, m)
           n == Len(k.stack)
<1>1. k \in Task /\ Slots(k) /\ Blocked(k) BY DEF Good
<1>2. n \in Nat /\ i \in 1 .. n /\ k.stack[i] \in Frame BY <1>1 DEF Task
<1> DEFINE b == IF i = 1 THEN m ELSE k.base
           v == k.events \cup {"edited"}
                  \cup (IF k.stack[i].mask \subseteq m THEN {} ELSE {"opened"})
           g == [k.stack[i] EXCEPT !.mask = m]
           q == [k.stack EXCEPT ![i] = g]
<1>3. e = [[[k EXCEPT !.stack = q] EXCEPT !.base = b] EXCEPT !.events = v]
  BY <1>1 DEF Rewrite, Task
<1>4. /\ q \in Seq(Frame) /\ Len(q) = n /\ g \in Frame
      /\ \A j \in 1 .. n :
           q[j].sig = k.stack[j].sig /\ q[j].nodefer = k.stack[j].nodefer
      /\ \A j \in (1 .. n) \ {i} : q[j] = k.stack[j]
      /\ q[i].mask = m
  <2>1. g \in Frame /\ g.sig = k.stack[i].sig /\ g.nodefer = k.stack[i].nodefer
        /\ g.mask = m
    BY <1>2 DEF Frame
  <2>2. k.stack \in Seq(Frame) BY <1>1 DEF Task
  <2> HIDE DEF g
  <2>3. q \in Seq(Frame) /\ Len(q) = n BY <1>2, <2>1, <2>2
  <2>4. q[i] = g /\ \A j \in (1 .. n) \ {i} : q[j] = k.stack[j]
    BY <1>2, <2>2
  <2> QED BY <2>1, <2>3, <2>4, Zenon
<1>5. b \in SUBSET Sig /\ v \in SUBSET {"nested", "forked", "opened", "edited"}
  BY <1>1 DEF Task
<1> HIDE DEF q, b, v, g
<1>6. e \in Task BY <1>1, <1>3, <1>4, <1>5, Zenon DEF Task
<1>7. /\ e.stack = q /\ e.slot = k.slot /\ e.status = k.status
      /\ e.action = k.action /\ e.mask = k.mask /\ e.base = b /\ e.events = v
  BY <1>1, <1>3, Zenon DEF Task
<1> HIDE DEF e
<1>8. Slots(e)
  <2>1. k.events \subseteq v BY DEF v
  <2>2. k.slot = 1 => q[1].mask = b
    <3>1. k.slot = 1 => n = 1 BY <1>1, <1>2 DEF Slots
    <3> QED BY <1>2, <1>4, <3>1 DEF b
  <2>3. Len(q) # 0 BY <1>2, <1>4
  <2> HIDE DEF n
  <2> QED BY <1>1, <1>4, <1>7, <2>1, <2>2, <2>3 DEF Slots, n
<1>9. Blocked(e)
  <2> SUFFICES ASSUME "opened" \notin v, "forked" \notin v,
                      NEW a \in 1 .. n, ~q[a].nodefer
               PROVE  /\ q[a].sig \in k.mask
                      /\ \A j \in a + 1 .. n :
                           q[a].sig \in q[j].mask /\ q[j].sig # q[a].sig
    BY <1>4, <1>7 DEF Blocked
  <2>1. "opened" \notin k.events /\ "forked" \notin k.events
        /\ k.stack[i].mask \subseteq m
    BY DEF v
  <2>2. /\ k.stack[a].sig \in k.mask
        /\ \A j \in a + 1 .. n :
             k.stack[a].sig \in k.stack[j].mask /\ k.stack[j].sig # k.stack[a].sig
    <3>1. ~k.stack[a].nodefer BY <1>4, Zenon
    <3> QED BY <1>1, <2>1, <3>1, Zenon DEF Blocked
  <2>3. ASSUME NEW j \in a + 1 .. n
        PROVE  q[a].sig \in q[j].mask /\ q[j].sig # q[a].sig
    <3>1. j \in 1 .. n BY <1>2
    <3>2. k.stack[j].mask \subseteq q[j].mask
      BY <1>4, <2>1, <3>1, Zenon
    <3>3. q[a].sig = k.stack[a].sig /\ q[j].sig = k.stack[j].sig
      BY <1>4, <3>1, Zenon
    <3> QED BY <2>2, <3>2, <3>3, Zenon
  <2>4. q[a].sig = k.stack[a].sig BY <1>4, Zenon
  <2> QED BY <2>2, <2>3, <2>4, Zenon
<1>10. Deadly(e) BY <1>7 DEF Deadly, v
<1> QED BY <1>6, <1>7, <1>8, <1>9, <1>10 DEF Good, e

\* sigreturn takes the last frame off and puts its mask back, or leaves the
\* handler nowhere to go when the frame was lost.
LEMMA SigreturnGood ==
  ASSUME NEW k, Good(k), k.status = "run", k.stack # <<>>
  PROVE  Good(Sigreturn(k))
<1> DEFINE e == Sigreturn(k)
           n == Len(k.stack)
<1>1. k \in Task /\ Slots(k) /\ Blocked(k) BY DEF Good
<1>2. n \in Nat \ {0} BY <1>1 DEF Task
<1>3. CASE k.slot = 0
  <2>1. /\ e \in Task /\ e.stack = k.stack /\ e.slot = k.slot
        /\ e.status = "derailed" /\ e.action = k.action /\ e.mask = k.mask
        /\ e.base = k.base /\ e.events = k.events
    BY <1>1, <1>3 DEF Sigreturn, Task
  <2> HIDE DEF e
  <2>2. Slots(e) BY <1>1, <1>2, <1>3, <2>1 DEF Slots
  <2> QED BY <1>1, <2>1, <2>2 DEF Good, Blocked, Deadly, e
<1>4. CASE k.slot = n
  <2>1. k.stack[n] \in Frame BY <1>1, <1>2 DEF Task
  <2>2. /\ SubSeq(k.stack, 1, n - 1) \in Seq(Frame)
        /\ Len(SubSeq(k.stack, 1, n - 1)) = n - 1
        /\ \A i \in 1 .. n - 1 : SubSeq(k.stack, 1, n - 1)[i] = k.stack[i]
    <3>1. k.stack \in Seq(Frame) BY <1>1 DEF Task
    <3>2. n - 1 \in Int /\ \A i \in 1 .. n - 1 : k.stack[i] \in Frame
      BY <3>1, <1>2
    <3>3. /\ SubSeq(k.stack, 1, n - 1) \in Seq(Frame)
          /\ Len(SubSeq(k.stack, 1, n - 1)) =
               IF 1 <= n - 1 THEN (n - 1) - 1 + 1 ELSE 0
          /\ \A i \in 1 .. (n - 1) - 1 + 1 :
               SubSeq(k.stack, 1, n - 1)[i] = k.stack[1 + i - 1]
      <4> HIDE DEF n
      <4> QED BY <3>2, SubSeqProperties
    <3> QED BY <3>3, <1>2
  <2>3. /\ e.stack = SubSeq(k.stack, 1, n - 1) /\ e.slot = 0
        /\ e.status = "run" /\ e.action = k.action /\ e.mask = k.stack[n].mask
        /\ e.base = k.base
        /\ e.events = IF n = 1 THEN k.events ELSE k.events \cup {"nested"}
    BY <1>1, <1>2, <1>4 DEF Sigreturn, Task
  <2>4. e \in Task
    <3>1. k.stack[n].mask \in SUBSET Sig BY <2>1 DEF Frame
    <3> QED BY <1>1, <1>2, <1>4, <2>2, <3>1, Zenon DEF Sigreturn, Task
  <2> HIDE DEF e
  <2>5. Slots(e)
    <3>1. Len(e.stack) = n - 1 BY <2>2, <2>3
    <3>2. n = 1 => k.stack[1].mask = k.base BY <1>1, <1>4 DEF Slots
    <3>3. n # 1 => "nested" \in e.events BY <2>3
    <3>4. n = 1 => e.mask = e.base BY <2>3, <3>2
    <3> HIDE DEF n
    <3> QED BY <1>2, <2>3, <3>1, <3>3, <3>4 DEF Slots
  <2>6. Blocked(e)
    <3> SUFFICES ASSUME "opened" \notin k.events, "forked" \notin k.events,
                        NEW i \in 1 .. n - 1, ~k.stack[i].nodefer
                 PROVE  /\ k.stack[i].sig \in k.stack[n].mask
                        /\ \A j \in i + 1 .. n - 1 :
                             /\ k.stack[i].sig \in k.stack[j].mask
                             /\ k.stack[j].sig # k.stack[i].sig
      BY <1>2, <2>2, <2>3 DEF Blocked
    <3> QED BY <1>1, <1>2 DEF Blocked
  <2>7. Deadly(e) BY <1>2, <2>2, <2>3 DEF Good, Deadly
  <2> QED BY <2>3, <2>4, <2>5, <2>6, <2>7 DEF Good, e
<1> QED BY <1>1, <1>3, <1>4 DEF Slots

\* A signal that is sent waits; nothing else of the task changes.
LEMMA SendGood ==
  ASSUME NEW k, Good(k), NEW s \in Sig
  PROVE  Good(Send(k, s)) /\ Send(k, s).status = k.status
<1> DEFINE e == Send(k, s)
<1>1. k \in Task BY DEF Good
<1>2. /\ e \in Task /\ e.status = k.status /\ e.mask = k.mask
      /\ e.stack = k.stack /\ e.slot = k.slot /\ e.base = k.base
      /\ e.events = k.events /\ e.action = k.action
  <2>1. k.pending \cup {s} \in SUBSET Sig /\ k.sent + 1 \in Nat
        /\ (k.killed \/ s = SIGKILL) \in BOOLEAN
    BY <1>1 DEF Task
  <2>2. e \in Task BY <1>1, <2>1, Zenon DEF Send, Task
  <2> QED BY <1>1, <2>2 DEF Send, Task
<1> HIDE DEF e
<1>3. Good(e) BY <1>2 DEF Good, Slots, Blocked, Deadly
<1> QED BY <1>2, <1>3 DEF e

\* exec and fork start from signal_init_task; exec on an empty stack, the
\* child of fork on a copy of the stack.
LEMMA NewTaskGood ==
  ASSUME NEW k, Good(k), k.status = "run"
  PROVE  Good(Exec(k)) /\ Good(Forked(k))
<1>1. k \in Task BY DEF Good
<1>2. [s \in Sig |-> Default] \in [Sig -> Sigactions]
  BY DEF Default, Sigactions
<1>3. Len(k.stack) \in Nat /\ (k.stack = <<>> <=> Len(k.stack) = 0)
  BY <1>1 DEF Task
<1>4. Good(Exec(k))
  <2> DEFINE e == Exec(k)
  <2>1. e \in Task
    <3>1. <<>> \in Seq(Frame) OBVIOUS
    <3>2. InitTask(k) \in Task BY <1>1, <1>2, Zenon DEF InitTask, Task
    <3> HIDE DEF InitTask
    <3> QED BY <3>1, <3>2, Zenon DEF Exec, Task
  <2>2. /\ e.status = "run" /\ e.mask = {} /\ e.stack = <<>> /\ e.slot = 0
        /\ e.base = {} /\ e.events = {}
        /\ e.action = [s \in Sig |-> Default]
    BY <1>1 DEF Exec, InitTask, Task
  <2> HIDE DEF e
  <2>3. Len(e.stack) = 0 BY <2>2
  <2>4. Slots(e) /\ Blocked(e) /\ Deadly(e)
    BY <2>2, <2>3 DEF Slots, Blocked, Deadly, Open
  <2> QED BY <2>1, <2>2, <2>4 DEF Good, e
<1>5. Good(Forked(k))
  <2> DEFINE e == Forked(k)
  <2>1. e \in Task BY <1>1, <1>2, Zenon DEF Forked, InitTask, Task
  <2>2. /\ e.status = "run" /\ e.mask = {} /\ e.stack = k.stack /\ e.slot = 0
        /\ e.base = {}
        /\ e.events = IF k.stack = <<>> THEN k.events ELSE k.events \cup {"forked"}
        /\ e.action = [s \in Sig |-> Default]
    BY <1>1 DEF Forked, InitTask, Task
  <2> HIDE DEF e
  <2>3. Slots(e) /\ Blocked(e) BY <1>3, <2>2 DEF Slots, Blocked
  <2>4. Deadly(e) BY <2>2 DEF Good, Deadly, Open
  <2> QED BY <2>1, <2>2, <2>3, <2>4 DEF Good, e
<1> QED BY <1>4, <1>5

\* An exception is a SIGSEGV that is delivered at once.
LEMMA TrappedGood ==
  ASSUME NEW k, Good(k), NEW code
  PROVE  Good(Trapped(k, code))
<1> DEFINE d == Deliver(Send(k, SIGSEGV))
           e == [d EXCEPT !.status = "halted"]
<1>1. Good(d) BY SendGood, DeliverGood, SignalsAssumption
<1> HIDE DEF d
<1>2. d \in Task BY <1>1 DEF Good
<1>3. /\ e \in Task /\ e.status = "halted" /\ e.mask = d.mask
      /\ e.stack = d.stack /\ e.slot = d.slot /\ e.base = d.base
      /\ e.events = d.events /\ e.action = d.action
  BY <1>2 DEF Task
<1> HIDE DEF e
<1>4. Good(e) BY <1>1, <1>3 DEF Good, Slots, Blocked, Deadly
<1> QED BY <1>1, <1>4 DEF Trapped, d, e

\* A new task has no handlers, no pending signals and nothing blocked.
LEMMA InitGood == Init => SignalsInv
<1> SUFFICES ASSUME Init PROVE SignalsInv OBVIOUS
<1>1. [s \in Sig |-> Default] \in [Sig -> Sigactions]
  BY DEF Default, Sigactions
<1>2. <<>> \in Seq(Frame) /\ Len(<<>>) = 0 OBVIOUS
<1>3. /\ task \in Task /\ task.stack = <<>> /\ task.slot = 0
      /\ task.status = "run" /\ task.mask = {} /\ task.base = {}
      /\ task.action = [s \in Sig |-> Default]
  BY <1>1, <1>2, Zenon DEF Init, InitTask, Task
<1>4. Slots(task) /\ Blocked(task) /\ Deadly(task)
  BY <1>2, <1>3 DEF Slots, Blocked, Deadly, Open
<1> QED BY <1>3, <1>4 DEF SignalsInv, Good

\* Every action is an operation above, most of them followed by a delivery.
LEMMA StepGood == SignalsInv /\ [Next]_vars => SignalsInv'
<1> SUFFICES ASSUME Good(task), [Next]_vars PROVE Good(task')
  BY DEF SignalsInv
<1>1. CASE Step(SetAction)
  <2>1. PICK x \in Actions : task' = Deliver(Sigaction(task, x[1], x[2]))
    BY <1>1 DEF Step, SetAction
  <2>2. x[1] \in Sig /\ x[2] \in Sigactions BY SignalsAssumption
  <2> QED BY <2>1, <2>2, ActionGood, DeliverGood
<1>2. CASE Step(SetHandler)
  <2>1. PICK x \in Actions : task' = Deliver(Signal(task, x[1], x[2].handler))
    BY <1>2 DEF Step, SetHandler
  <2>2. x[1] \in Sig /\ x[2] \in Sigactions BY SignalsAssumption
  <2> QED BY <2>1, <2>2, ActionGood, DeliverGood
<1>3. CASE Step(SetMask)
  <2>1. PICK how \in {"SIG_BLOCK", "SIG_UNBLOCK", "SIG_SETMASK"}, set \in Masks :
          task' = Deliver(Sigprocmask(task, how, set))
    BY <1>3 DEF Step, SetMask
  <2>2. set \in SUBSET Sig BY SignalsAssumption
  <2> QED BY <2>1, <2>2, MaskGood, DeliverGood
<1>4. CASE Step(HandlerReturns)
  BY <1>4, SigreturnGood, DeliverGood DEF Step, HandlerReturns, Running
<1>5. CASE Step(KillSelf)
  BY <1>5, SendGood, DeliverGood DEF Step, KillSelf
<1>6. CASE Step(KilledByOther)
  BY <1>6, SendGood DEF Step, KilledByOther
<1>7. CASE Step(Executes)
  BY <1>7, NewTaskGood, DeliverGood DEF Step, Executes, Running
<1>8. CASE Step(BecomesChild)
  BY <1>8, NewTaskGood, DeliverGood DEF Step, BecomesChild, Running
<1>9. CASE Step(Traps)
  BY <1>9, TrappedGood DEF Step, Traps
<1>10. CASE Step(Returns)
  BY <1>10, DeliverGood DEF Step, Returns
<1>11. CASE UNCHANGED vars
  BY <1>11 DEF vars
<1>12. CASE Step(RewritesFrame)
  <2>1. PICK i \in DOMAIN task.stack, m \in Masks : task' = Rewrite(task, i, m)
    BY <1>12 DEF Step, RewritesFrame
  <2>2. m \in SUBSET Sig BY SignalsAssumption
  <2> QED BY <2>1, <2>2, RewriteGood
<1> QED BY <1>1, <1>2, <1>3, <1>4, <1>5, <1>6, <1>7, <1>8, <1>9, <1>10, <1>11,
           <1>12 DEF Next

\* In every reachable state the slot, the masks and the frames fit together.
THEOREM SignalsInvariant == Spec => []SignalsInv
BY InitGood, StepGood, PTL DEF Spec

\* Fields keep their types, and the slot has the last frame or none.
THEOREM SignalsTypeCorrect == Spec => []TypeOK
<1>1. SignalsInv => TypeOK
  <2> SUFFICES ASSUME Good(task) PROVE TypeOK BY DEF SignalsInv
  <2>1. task \in Task /\ task.slot \in {0, Len(task.stack)} BY DEF Good, Slots
  <2>2. \A i \in DOMAIN task.stack : task.stack[i] \in Frame BY <2>1 DEF Task
  <2> QED BY <2>1, <2>2 DEF TypeOK, Task, Frame
<1> QED BY <1>1, SignalsInvariant, PTL

\* SIGKILL and SIGSTOP are never caught, whatever programs ask for, and never
\* blocked by anything but a mask that a program wrote into a signal frame.
THEOREM KillAlwaysDeadly == Spec => []KillStaysDeadly
<1>1. SignalsInv => KillStaysDeadly
  <2> SUFFICES ASSUME Good(task) PROVE KillStaysDeadly BY DEF SignalsInv
  <2>1. DOMAIN task.stack = 1 .. Len(task.stack) BY DEF Good, Task
  <2>2. "edited" \notin task.events =>
          /\ task.mask \cap Uncatchable = {}
          /\ \A i \in DOMAIN task.stack : task.stack[i].mask \cap Uncatchable = {}
    BY <2>1 DEF Good, Deadly, Open
  <2> QED BY <2>2 DEF KillStaysDeadly, Good
<1> QED BY <1>1, SignalsInvariant, PTL

\* Back in the program, the mask is the one the program chose.
THEOREM MaskAlwaysRestored == Spec => []MaskRestored
<1>1. SignalsInv => MaskRestored
  <2> SUFFICES ASSUME Good(task), task.status = "run", task.stack = <<>>
               PROVE  task.mask = task.base
    BY DEF SignalsInv, MaskRestored
  <2>1. Len(task.stack) = 0 OBVIOUS
  <2> QED BY <2>1 DEF Good, Slots
<1> QED BY <1>1, SignalsInvariant, PTL

\* However deep handlers nest, one without SA_NODEFER is not entered twice,
\* unless it opened the mask itself or runs in a child forked inside it.
THEOREM HandlersNotReentered == Spec => []NoReentry
<1>1. SignalsInv => NoReentry
  <2> SUFFICES ASSUME Good(task), task.events \cap {"opened", "forked"} = {},
                      NEW i \in DOMAIN task.stack, NEW j \in DOMAIN task.stack,
                      i < j, task.stack[i].sig = task.stack[j].sig
               PROVE  task.stack[i].nodefer
    BY DEF SignalsInv, NoReentry
  <2>1. task.stack \in Seq(Frame) BY DEF Good, Task
  <2>2. i \in 1 .. Len(task.stack) /\ j \in i + 1 .. Len(task.stack) BY <2>1
  <2>3. "opened" \notin task.events /\ "forked" \notin task.events OBVIOUS
  <2> QED BY <2>2, <2>3 DEF Good, Blocked
<1> QED BY <1>1, SignalsInvariant, PTL

\* A handler finds no way back only after another handler returned into it,
\* or in a child that was forked inside it.
THEOREM PlainHandlersAlwaysReturn == Spec => []PlainHandlersReturn
<1>1. SignalsInv => PlainHandlersReturn
  BY DEF SignalsInv, PlainHandlersReturn, Good, Slots
<1> QED BY <1>1, SignalsInvariant, PTL
=============================================================================
