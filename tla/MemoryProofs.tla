---------------------------- MODULE MemoryProofs ----------------------------
(***************************************************************************)
(* Proofs about Memory, for any number of frames, tasks, pages, mappings   *)
(* and files.                                                              *)
(***************************************************************************)
EXTENDS MemoryLemmas

-----------------------------------------------------------------------------
(* The inductive invariant.                                                 *)

TypeInv ==
  /\ work \in Workloads
  /\ used \in SUBSET Frame /\ lost \in SUBSET Frame
  /\ space \in [Task -> Space]
  /\ vmas \in [Task -> Seq(Vma)] /\ \A t \in Task : Len(vmas[t]) <= MAX_VMA
  /\ brk \in [Task -> [start : 0 .. MMAP_BASE, break : 0 .. MMAP_BASE]]
  /\ \A t \in Task : brk[t].start <= brk[t].break

\* A task that does not exist has no memory, and no space uses a frame twice.
SpaceInv ==
  \A t \in Task : (space[t].pdir = 0 => space[t] = NoSpace) /\ Separate(space[t])

\* The bitmap u is the frames K of the kernel, those of the tasks and those
\* that were dropped, and no frame is in two of these.
Accounted(K, u, own, l) ==
  /\ \A f : f \in u <=> f \in K \/ f \in l \/ \E t \in Task : f \in own[t]
  /\ \A t \in Task : own[t] \cap K = {} /\ own[t] \cap l = {}
  /\ \A t, v \in Task : t # v => own[t] \cap own[v] = {}

Own == [t \in Task |-> Owned(space[t])]
FrameInv == "stray" \notin events => Accounted(Kernel, used, Own, lost)

\* Nothing is mapped between the break and the area of mmap, as long as no
\* break was lowered or raised in vain.
HeapClear ==
  events = {} =>
    \A t \in Task : Alive(t) =>
      \A p \in brk[t].break .. MMAP_BASE - 1 : space[t].pte[p] = 0

IInv == /\ TypeInv /\ SpaceInv /\ FrameInv
        /\ VmasDisjoint /\ MappedHasVma /\ HeapBacked /\ HeapClear

\* One task's frames become S, and L are dropped.
LEMMA AccountedStep ==
  ASSUME NEW K, NEW u, NEW own, NEW l, NEW t \in Task, Accounted(K, u, own, l),
         NEW S, NEW L, NEW own2,
         \A v \in Task : own2[v] = IF v = t THEN S ELSE own[v],
         S \cap L = {}, S \cap (u \ own[t]) = {}, L \cap (u \ own[t]) = {}
  PROVE  Accounted(K, (u \ own[t]) \cup S \cup L, own2, l \cup L)
<1> DEFINE u2 == (u \ own[t]) \cup S \cup L
           l2 == l \cup L
<1>1. own[t] \cap K = {} /\ own[t] \cap l = {}
  BY Zenon DEF Accounted
<1>2. \A f : f \in u \ own[t] <=> \/ f \in K \/ f \in l
                                  \/ \E v \in Task : v # t /\ f \in own[v]
  BY <1>1, Zenon DEF Accounted
<1>3. \A f : f \in u2 <=> f \in K \/ f \in l2 \/ \E v \in Task : f \in own2[v]
  BY <1>2, Zenon
<1>4. ASSUME NEW v \in Task PROVE own2[v] \cap K = {} /\ own2[v] \cap l2 = {}
  <2>1. CASE v = t
    BY <1>2, <2>1, Zenon
  <2>2. CASE v # t
    <3>1. own2[v] = own[v] /\ own[v] \cap K = {} /\ own[v] \cap l = {}
      BY <2>2, Zenon DEF Accounted
    <3>2. own[v] \subseteq u \ own[t]
      BY <1>2, <2>2, Zenon
    <3> QED BY <3>1, <3>2, Zenon
  <2> QED BY <2>1, <2>2, Zenon
<1>5. ASSUME NEW v \in Task, NEW w \in Task, v # w PROVE own2[v] \cap own2[w] = {}
  <2>1. \A x \in Task : x # t => own[x] \subseteq u \ own[t]
    BY <1>2, Zenon
  <2>2. own[v] \cap own[w] = {}
    BY <1>5, Zenon DEF Accounted
  <2> QED BY <1>5, <2>1, <2>2
<1> QED BY <1>3, <1>4, <1>5, Zenon DEF Accounted

\* What a system call of task t starts from.
LEMMA OnExact ==
  ASSUME TypeInv, SpaceInv, FrameInv, NEW t \in Task, Runs(t), NEW a, a = On(used, space[t])
  PROVE  /\ a \in Computation /\ Exact(a, used \ Own[t]) /\ a.ok
         /\ a.used = used /\ a.s = space[t] /\ a.hidden = {} /\ a.done = {}
<1>1. space[t] \in Space /\ space[t].pdir # 0 /\ Separate(space[t]) /\ used \in SUBSET Frame
  BY Zenon DEF TypeInv, SpaceInv, Runs, Alive
<1>2. Own[t] = Owned(space[t]) /\ Own[t] \subseteq used
  BY Zenon DEF Own, FrameInv, Accounted, Runs
<1>3. /\ a.used = used /\ a.s = space[t] /\ a.ok /\ a.hidden = {} /\ a.done = {}
      /\ a \in Computation
  BY <1>1, Zenon DEF On, Computation
<1> QED BY <1>1, <1>2, <1>3 DEF Exact

\* A task's space becomes s, S are its frames and L are dropped.
SpaceStep(t, s, L) ==
  /\ space' = [space EXCEPT ![t] = s]
  /\ lost' = lost \cup L
  /\ used' = (used \ Own[t]) \cup Owned(s) \cup L

\* A step that replaces the address space of one task, and accounts for the
\* frames that the old one had, keeps the accounts of all tasks right.
LEMMA SpaceStepInv ==
  ASSUME TypeInv, SpaceInv, FrameInv, work' = work, "stray" \notin events,
         NEW t \in Task, NEW s \in Space, NEW L \in SUBSET Frame, SpaceStep(t, s, L),
         Separate(s), s.pdir = 0 => s = NoSpace,
         Owned(s) \cap L = {}, Owned(s) \cap (used \ Own[t]) = {}, L \cap (used \ Own[t]) = {}
  PROVE  /\ used' \in SUBSET Frame /\ lost' \in SUBSET Frame /\ space' \in [Task -> Space]
         /\ work' \in Workloads
         /\ SpaceInv' /\ FrameInv'
         /\ \A v \in Task : space'[v] = IF v = t THEN s ELSE space[v]
<1>1. \A v \in Task : space'[v] = IF v = t THEN s ELSE space[v]
  BY Zenon DEF TypeInv, SpaceStep
<1>2. space' \in [Task -> Space]
  BY Zenon DEF TypeInv, SpaceStep
<1>3. Owned(s) \in SUBSET Frame
  <2>1. CASE s.pdir = 0
    BY <2>1, Zenon DEF Owned
  <2>2. CASE s.pdir # 0
    <3>1. \A f \in Owned(s) : f # 0 /\ f \in Entry
      BY <2>2, OwnedFrames DEF Space
    <3> QED BY <3>1, Sizes, Zenon
  <2> QED BY <2>1, <2>2, Zenon
<1>4. used' \in SUBSET Frame /\ lost' \in SUBSET Frame /\ work' \in Workloads
  BY <1>3, Zenon DEF TypeInv, SpaceStep
<1>5. SpaceInv'
  BY <1>1, Zenon DEF SpaceInv
<1>6. FrameInv'
  <2>1. \A v \in Task : Own'[v] = IF v = t THEN Owned(s) ELSE Own[v]
    BY <1>1, Zenon DEF Own
  <2>2. Accounted(Kernel, used, Own, lost)
    BY Zenon DEF FrameInv
  <2>3. Kernel' = Kernel
    BY Zenon DEF Kernel
  <2>4. Accounted(Kernel, used', Own', lost')
    <3> DEFINE S == Owned(s)
               u2 == used'
               l2 == lost'
               own2 == Own'
               K == Kernel
               own == Own
    <3>1. u2 = (used \ own[t]) \cup S \cup L /\ l2 = lost \cup L
      BY Zenon DEF SpaceStep
    <3>2. S \cap L = {} /\ S \cap (used \ own[t]) = {} /\ L \cap (used \ own[t]) = {}
      BY Zenon
    <3>3. \A v \in Task : own2[v] = IF v = t THEN S ELSE own[v]
      BY <2>1, Zenon
    <3>4. Accounted(K, used, own, lost)
      BY <2>2
    <3> HIDE DEF S, u2, l2, own2, K, own
    <3>5. Accounted(K, (used \ own[t]) \cup S \cup L, own2, lost \cup L)
      BY <3>2, <3>3, <3>4, AccountedStep, Zenon
    <3> QED BY <3>1, <3>5, Zenon DEF u2, l2, own2, K
  <2> QED BY <2>3, <2>4, Zenon DEF FrameInv
<1> QED BY <1>1, <1>2, <1>4, <1>5, <1>6, Zenon

\* The same for a call that ends with the computation b.
LEMMA LeavesInv ==
  ASSUME TypeInv, SpaceInv, FrameInv, work' = work, NEW t \in Task, Runs(t),
         NEW b \in Computation, Exact(b, used \ Own[t]), Leaves(t, b, b.hidden)
  PROVE  /\ used' \in SUBSET Frame /\ lost' \in SUBSET Frame /\ space' \in [Task -> Space]
         /\ work' \in Workloads
         /\ SpaceInv' /\ FrameInv'
         /\ \A v \in Task : space'[v] = IF v = t THEN b.s ELSE space[v]
<1>1. b.s \in Space /\ b.hidden \in SUBSET Frame /\ "stray" \notin events
  BY Zenon DEF Computation, Runs
<1>2. SpaceStep(t, b.s, b.hidden)
  BY Zenon DEF SpaceStep, Leaves, Exact
<1> QED BY <1>1, <1>2, SpaceStepInv DEF Exact

\* A page table entry is a frame or 0, never negative.
LEMMA PteSign ==
  ASSUME NEW s \in Space, NEW p \in Page
  PROVE  s.pte[p] > 0 <=> s.pte[p] # 0
BY Sizes DEF Space, Entry

\* What the invariant says of the numbers of task t.
LEMMA TaskTypes ==
  ASSUME TypeInv, NEW t \in Task
  PROVE  /\ space[t] \in Space /\ vmas[t] \in Seq(Vma)
         /\ brk[t].start \in Nat /\ brk[t].break \in Nat
         /\ brk[t].start <= brk[t].break /\ brk[t].break <= MMAP_BASE
         /\ brk[t] \in [start : 0 .. MMAP_BASE, break : 0 .. MMAP_BASE]
<1>1. brk[t] \in [start : 0 .. MMAP_BASE, break : 0 .. MMAP_BASE]
  BY Zenon DEF TypeInv
<1>2. /\ brk[t].start \in Nat /\ brk[t].break \in Nat
      /\ brk[t].start <= brk[t].break /\ brk[t].break <= MMAP_BASE
  BY <1>1, Sizes DEF TypeInv
<1> QED BY <1>1, <1>2, Zenon DEF TypeInv

\* The heap lies below the area of the mappings.
LEMMA HeapPages ==
  ASSUME TypeInv, NEW t \in Task, NEW p \in brk[t].start .. brk[t].break - 1
  PROVE  p \in Page /\ p < MMAP_BASE
BY TaskTypes, Sizes DEF Page

-----------------------------------------------------------------------------
(* Every system call keeps the invariant.                                   *)

\* sys_brk keeps the invariant, also when it runs out of frames on its way.
LEMMA BrkKeeps ==
  ASSUME IInv, work' = work, NEW t \in Task, NEW arg \in 1 .. MMAP_BASE, Brk(t, arg)
  PROVE  IInv'
<1> DEFINE from == brk[t].break
           to == IF arg < brk[t].start THEN brk[t].start ELSE arg
           a0 == On(used, space[t])
           a == AllocRange(a0, from, to, TRUE)
<1>0. TypeInv /\ SpaceInv /\ FrameInv /\ Runs(t)
  BY DEF IInv, Brk
<1>1. /\ from \in Nat /\ to \in Nat /\ to <= MMAP_BASE /\ to <= NPAGES
      /\ brk[t].start \in Nat /\ brk[t].start <= to
  <2>1. /\ brk[t].start \in Nat /\ from \in Nat /\ brk[t].start <= MMAP_BASE
    BY <1>0, TaskTypes, Sizes
  <2>2. MMAP_BASE \in Nat /\ NPAGES \in Nat /\ MMAP_BASE <= NPAGES
    BY Sizes
  <2> QED BY <2>1, <2>2
<1>2. /\ a0 \in Computation /\ Exact(a0, used \ Own[t]) /\ a0.s = space[t]
      /\ a0.hidden = {}
  <2>1. a0 = On(used, space[t])
    BY Zenon
  <2> HIDE DEF a0
  <2> QED BY <1>0, <2>1, OnExact, Zenon
<1>3. /\ Leaves(t, a, {})
      /\ brk' = BrkMoves(t, to, a.ok)
      /\ vmas' = vmas
      /\ events \subseteq events'
  BY Zenon DEF Brk
<1> HIDE DEF a0, to, from
<1>4. a \in Computation /\ Exact(a, used \ Own[t]) /\ Grown(a0, a, from, to, TRUE)
  BY <1>1, <1>2, AllocRangeExact, Zenon
<1> HIDE DEF a
<1>5. a.hidden = {} /\ Leaves(t, a, a.hidden)
  BY <1>2, <1>3, <1>4, Zenon DEF Grown
<1>6. /\ used' \in SUBSET Frame /\ lost' \in SUBSET Frame /\ space' \in [Task -> Space]
      /\ work' \in Workloads
      /\ SpaceInv' /\ FrameInv'
      /\ \A v \in Task : space'[v] = IF v = t THEN a.s ELSE space[v]
  BY <1>0, <1>4, <1>5, LeavesInv
<1>7. \A v \in Task : brk'[v] = IF v = t /\ a.ok THEN [start |-> brk[t].start, break |-> to]
                                ELSE brk[v]
  <2>1. DOMAIN brk = Task
    BY <1>0, Zenon DEF TypeInv
  <2>2. a.ok => \A v \in Task : brk'[v] = IF v = t THEN [brk[t] EXCEPT !.break = to] ELSE brk[v]
    BY <1>3, <2>1, Zenon DEF BrkMoves
  <2>3. [brk[t] EXCEPT !.break = to] = [start |-> brk[t].start, break |-> to]
    BY <1>0, TaskTypes
  <2>4. ~a.ok => brk' = brk
    BY <1>3, Zenon DEF BrkMoves
  <2> QED BY <2>2, <2>3, <2>4, Zenon
<1>8. TypeInv'
  <2>1. brk' \in [Task -> [start : 0 .. MMAP_BASE, break : 0 .. MMAP_BASE]]
    <3>1. DOMAIN brk' = Task /\ brk' = [v \in Task |-> brk'[v]]
      BY <1>0, <1>3, Zenon DEF TypeInv, BrkMoves
    <3>2. ASSUME NEW v \in Task PROVE brk'[v] \in [start : 0 .. MMAP_BASE, break : 0 .. MMAP_BASE]
      <4>1. to \in 0 .. MMAP_BASE /\ brk[t].start \in 0 .. MMAP_BASE
        BY <1>0, <1>1, TaskTypes, Sizes
      <4>2. brk[v] \in [start : 0 .. MMAP_BASE, break : 0 .. MMAP_BASE]
        BY <1>0, TaskTypes, Zenon
      <4> QED BY <1>7, <4>1, <4>2
    <3> QED BY <3>1, <3>2, Zenon
  <2>2. \A v \in Task : brk'[v].start <= brk'[v].break
    <3>1. \A v \in Task : brk[v].start <= brk[v].break
      BY <1>0, Zenon DEF TypeInv
    <3> QED BY <1>1, <1>7, <3>1
  <2> QED BY <1>0, <1>3, <1>6, <2>1, <2>2, Zenon DEF TypeInv
<1>9. VmasDisjoint'
  BY <1>3, Zenon DEF IInv, VmasDisjoint
<1>10. MappedHasVma'
  <2> SUFFICES ASSUME "partial" \notin events', NEW v \in Task, NEW p \in Area,
                      space'[v].pte[p] > 0
               PROVE  Hits(vmas'[v], p, p + 1) # {}
    BY Zenon DEF MappedHasVma
  <2>1. p \in Page /\ p \notin from .. to - 1
    BY <1>1, Places, Sizes
  <2>2. v = t => a.s.pte[p] = space[v].pte[p]
    BY <1>2, <1>4, <2>1, Zenon DEF Grown
  <2>3. space[v].pte[p] > 0
    BY <1>6, <2>2, Zenon
  <2>4. "partial" \notin events /\ MappedHasVma
    BY <1>3, Zenon DEF IInv
  <2>5. Hits(vmas[v], p, p + 1) # {}
    BY <2>3, <2>4, Zenon DEF MappedHasVma
  <2> QED BY <1>3, <2>5, Zenon
<1>11. HeapBacked'
  <2> SUFFICES ASSUME "stray" \notin events', NEW v \in Task,
                      NEW p \in brk'[v].start .. brk'[v].break - 1
               PROVE  space'[v].pte[p] > 0
    BY Zenon DEF HeapBacked
  <2>0. "stray" \notin events
    BY <1>0, Zenon DEF Runs
  <2>1. CASE v # t
    BY <1>6, <1>7, <2>0, <2>1, Zenon DEF IInv, HeapBacked
  <2>2. CASE v = t
    <3>1. \A q \in brk[t].start .. brk[t].break - 1 : q \in Page /\ a.s.pte[q] > 0
      <4> SUFFICES ASSUME NEW q \in brk[t].start .. brk[t].break - 1
                   PROVE  q \in Page /\ a.s.pte[q] > 0
        BY Zenon
      <4>1. q \in Page /\ space[t].pte[q] > 0
        BY <1>0, <2>0, HeapPages DEF IInv, HeapBacked
      <4>2. space[t].pte[q] # 0
        BY <4>1
      <4>3. a.s.pte[q] = space[t].pte[q]
        BY <1>2, <1>4, <4>1, <4>2, Zenon DEF Grown
      <4> QED BY <4>1, <4>3, Zenon
    <3>2. CASE ~a.ok
      BY <1>6, <1>7, <2>2, <3>1, <3>2, Zenon
    <3>3. CASE a.ok
      <4>1. p \in brk[t].start .. to - 1
        BY <1>7, <2>2, <3>3
      <4>2. p \in brk[t].start .. brk[t].break - 1 \/ p \in from .. to - 1
        BY <1>1, <4>1 DEF from
      <4>3. ASSUME p \in from .. to - 1 PROVE a.s.pte[p] > 0
        <5>1. p \in Page
          BY <1>1, <4>3, Sizes DEF Page
        <5>2. a.s.pte[p] # 0
          BY <1>4, <3>3, <4>3, Zenon DEF Grown
        <5> QED BY <1>4, <5>1, <5>2, PteSign DEF Computation
      <4> QED BY <1>6, <2>2, <3>1, <4>2, <4>3, Zenon
    <3> QED BY <3>2, <3>3, Zenon
  <2> QED BY <2>1, <2>2, Zenon
<1>12. HeapClear'
  <2> SUFFICES ASSUME events' = {}, NEW v \in Task, Alive(v)',
                      NEW p \in brk'[v].break .. MMAP_BASE - 1
               PROVE  space'[v].pte[p] = 0
    BY Zenon DEF HeapClear
  <2>1. events = {} /\ to >= from /\ (~a.ok => a.done = {})
    <3>1. events' = IF to < from \/ (~a.ok /\ a.done # {})
                    THEN events \cup {"brk"} ELSE events
      BY DEF Brk, to, from, a, a0
    <3> QED BY <1>1, <3>1
  <2>2. \A x \in Task : Alive(x) =>
          \A q \in brk[x].break .. MMAP_BASE - 1 : space[x].pte[q] = 0
    BY <2>1, Zenon DEF IInv, HeapClear
  <2>3. Alive(t)
    BY <1>0, Zenon DEF Runs
  <2>4. CASE v # t
    BY <1>6, <1>7, <2>2, <2>4, Zenon DEF Alive
  <2>5. CASE v = t
    <3>1. p \in brk[t].break .. MMAP_BASE - 1 /\ (a.ok => p \notin from .. to - 1)
      BY <1>1, <1>7, <2>1, <2>5, Sizes DEF from
    <3>2. p \in Page
      BY <1>1, <3>1, Sizes DEF from, Page
    <3>3. space[t].pte[p] = 0
      BY <2>2, <2>3, <3>1, Zenon
    <3>4. a.s.pte[p] = space[t].pte[p]
      BY <1>2, <1>4, <2>1, <3>1, <3>2, Zenon DEF Grown
    <3> QED BY <1>6, <2>5, <3>3, <3>4, Zenon
  <2> QED BY <2>4, <2>5, Zenon
<1> QED BY <1>6, <1>8, <1>9, <1>10, <1>11, <1>12, Zenon DEF IInv

\* The mapping of sys_mmap2 starts where there is room for it.
LEMMA MmapRoom ==
  ASSUME TypeInv, NEW t \in Task, NEW n \in Nat \ {0}, NEW fixed \in BOOLEAN, NEW at,
         fixed => at \in Area /\ at + n <= Min(Stack),
         NEW va, va = MmapPlace(t, n, fixed, at), va # -1
  PROVE  /\ va \in Nat /\ MMAP_BASE <= va /\ va + n <= NPAGES
         /\ Hits(vmas[t], va, va + n) = {}
<1>1. vmas[t] \in Seq(Vma)
  BY Zenon DEF TypeInv
<1>2. CASE ~fixed
  <2>1. va = FindGap(vmas[t], n)
    BY <1>2, Zenon DEF MmapPlace
  <2> QED BY <1>1, <2>1, GapFree, Zenon
<1>3. CASE fixed
  <2>1. va = at /\ Hits(vmas[t], va, va + n) = {}
    BY <1>3, Zenon DEF MmapPlace
  <2>2. /\ va \in MMAP_BASE .. NPAGES - STACK_SIZE - 1 /\ va + n <= NPAGES - STACK_SIZE
        /\ MMAP_BASE \in Nat /\ NPAGES \in Nat /\ STACK_SIZE \in Nat
    <3>1. at \in Area /\ at + n <= Min(Stack)
      BY <1>3
    <3>2. at \in MMAP_BASE .. NPAGES - STACK_SIZE - 1 /\ at + n <= NPAGES - STACK_SIZE
      BY <3>1, Places, Zenon
    <3> QED BY <2>1, <3>2, Sizes
  <2> QED BY <2>1, <2>2
<1> QED BY <1>2, <1>3, Zenon

\* sys_mmap2 keeps the invariant, also when frames or areas run out and it
\* undoes what it mapped.
LEMMA Mmap2Keeps ==
  ASSUME IInv, work' = work, NEW t \in Task, NEW n \in Nat \ {0}, NEW prot \in BOOLEAN,
         NEW fixed \in BOOLEAN, NEW at, fixed => at \in Area /\ at + n <= Min(Stack),
         Mmap2(t, n, prot, fixed, at)
  PROVE  IInv'
<1> DEFINE va == MmapPlace(t, n, fixed, at)
           a0 == On(used, space[t])
           c == AllocRange(a0, va, va + n, prot)
           fits == VmaAddFits(vmas[t])
           b == IF c.ok /\ fits THEN c ELSE MmapFailed(c)
           new == [start |-> va, end |-> va + n]
           ws == Append(vmas[t], new)
<1>0. TypeInv /\ SpaceInv /\ FrameInv /\ VmasDisjoint /\ MappedHasVma /\ HeapBacked /\ Runs(t)
  BY Zenon DEF IInv, Mmap2
<1>1. /\ Leaves(t, b, b.hidden) /\ va # -1
      /\ vmas' = IF c.ok /\ fits THEN [vmas EXCEPT ![t] = ws] ELSE vmas
      /\ brk' = brk /\ events' = events
  BY Zenon DEF Mmap2
<1>2. /\ a0 \in Computation /\ Exact(a0, used \ Own[t]) /\ a0.s = space[t]
      /\ a0.done = {}
  <2>1. a0 = On(used, space[t])
    BY Zenon
  <2> HIDE DEF a0
  <2> QED BY <1>0, <2>1, OnExact, Zenon
<1>3. /\ va \in Nat /\ MMAP_BASE <= va /\ va + n <= NPAGES
      /\ Hits(vmas[t], va, va + n) = {}
  <2>1. va = MmapPlace(t, n, fixed, at)
    BY Zenon
  <2> HIDE DEF va
  <2> QED BY <1>0, <1>1, <2>1, MmapRoom, SMTT(30)
<1>4. fits \in BOOLEAN /\ c = AllocRange(a0, va, va + n, prot)
      /\ b = IF c.ok /\ fits THEN c ELSE MmapFailed(c)
  BY DEF VmaAddFits
<1>5. vmas[t] \in Seq(Vma) /\ Apart(vmas[t]) /\ Len(vmas[t]) <= MAX_VMA
  BY <1>0, Zenon DEF TypeInv, VmasDisjoint, Apart
<1>6. new \in Vma /\ new.start = va /\ new.end = va + n
  BY <1>3, Sizes DEF Vma
<1>7. fits => Len(vmas[t]) < MAX_VMA
  BY Zenon DEF VmaAddFits
<1> HIDE DEF a0, c, b, va, fits, new
<1>8. /\ b \in Computation /\ Exact(b, used \ Own[t])
      /\ \A p \in Page : a0.s.pte[p] # 0 => b.s.pte[p] = a0.s.pte[p]
      /\ \A p \in Page : b.s.pte[p] # a0.s.pte[p] =>
           c.ok /\ fits /\ p \in va .. va + n - 1
  <2> DEFINE O == used \ Own[t]
  <2>1. a0 \in Computation /\ Exact(a0, O) /\ a0.done = {}
    BY <1>2, Zenon
  <2> HIDE DEF O
  <2>2. va \in Nat /\ va + n \in Nat /\ va <= va + n /\ va + n <= NPAGES
    BY <1>3
  <2>3. c = AllocRange(a0, va, va + n, prot) /\ MmapEnds(c, fits, b) /\ fits \in BOOLEAN
    BY <1>4, Zenon DEF MmapEnds
  <2>4. b \in Computation /\ Exact(b, O) /\ MmapMoved(a0, b, c, va, va + n, fits)
    BY <2>1, <2>2, <2>3, MmapPages, Zenon
  <2>5. b \in Computation /\ Exact(b, used \ Own[t])
    BY <2>4, Zenon DEF O
  <2>6. /\ \A p \in Page : a0.s.pte[p] # 0 => b.s.pte[p] = a0.s.pte[p]
        /\ \A p \in Page : b.s.pte[p] # a0.s.pte[p] =>
             c.ok /\ fits /\ p \in va .. (va + n) - 1
    BY <2>4, Zenon DEF MmapMoved
  <2>7. (va + n) - 1 = va + n - 1
    BY <1>3
  <2> QED BY <2>5, <2>6, <2>7, Zenon
<1>9. /\ used' \in SUBSET Frame /\ lost' \in SUBSET Frame /\ space' \in [Task -> Space]
      /\ work' \in Workloads
      /\ SpaceInv' /\ FrameInv'
      /\ \A v \in Task : space'[v] = IF v = t THEN b.s ELSE space[v]
  BY <1>0, <1>1, <1>8, LeavesInv, Zenon
<1>10. /\ ws \in Seq(Vma) /\ Len(ws) = Len(vmas[t]) + 1 /\ Apart(ws)
       /\ \A p \in Nat : Hits(vmas[t], p, p + 1) # {} => Hits(ws, p, p + 1) # {}
       /\ \A p \in Nat : va <= p /\ p < va + n => Hits(ws, p, p + 1) # {}
  BY <1>3, <1>5, <1>6, VmaAdded, Zenon
<1> HIDE DEF ws
<1>11. \A v \in Task : vmas'[v] = IF v = t /\ c.ok /\ fits THEN ws ELSE vmas[v]
  BY <1>0, <1>1, Zenon DEF TypeInv
<1>12. TypeInv'
  <2>1. vmas' \in [Task -> Seq(Vma)]
    BY <1>0, <1>1, <1>10, Zenon DEF TypeInv
  <2>2. MAX_VMA \in Nat /\ Len(vmas[t]) \in Nat
    BY <1>5, MemoryAssumption, SMTT(30)
  <2>3. \A v \in Task : Len(vmas'[v]) <= MAX_VMA
    BY <1>0, <1>5, <1>7, <1>10, <1>11, <2>2 DEF TypeInv
  <2> QED BY <1>0, <1>1, <1>9, <2>1, <2>3, SMTT(30) DEF TypeInv
<1>13. VmasDisjoint'
  <2>1. \A v \in Task : Apart(vmas'[v])
    BY <1>0, <1>10, <1>11 DEF VmasDisjoint, Apart
  <2> QED BY <2>1, Zenon DEF VmasDisjoint, Apart
<1>14. MappedHasVma'
  <2> SUFFICES ASSUME "partial" \notin events', NEW v \in Task, NEW p \in Area,
                      space'[v].pte[p] > 0
               PROVE  Hits(vmas'[v], p, p + 1) # {}
    BY Zenon DEF MappedHasVma
  <2>1. p \in Page /\ p \in Nat
    BY Places, Sizes DEF Page
  <2>2. space[v].pte[p] > 0 => Hits(vmas[v], p, p + 1) # {}
    BY <1>0, <1>1, Zenon DEF MappedHasVma
  <2>3. CASE v # t
    BY <1>9, <1>11, <2>2, <2>3, Zenon
  <2>4. CASE v = t /\ b.s.pte[p] = space[t].pte[p]
    <3>1. Hits(vmas[t], p, p + 1) # {}
      BY <1>9, <2>2, <2>4, Zenon
    <3> QED BY <1>10, <1>11, <2>1, <2>4, <3>1, Zenon
  <2>5. CASE v = t /\ b.s.pte[p] # space[t].pte[p]
    <3>1. c.ok /\ fits /\ p \in va .. va + n - 1
      BY <1>2, <1>8, <2>1, <2>5, Zenon
    <3>2. va <= p /\ p < va + n
      BY <1>3, <3>1
    <3> QED BY <1>10, <1>11, <2>1, <2>5, <3>1, <3>2, Zenon
  <2> QED BY <2>3, <2>4, <2>5, Zenon
<1>15. HeapBacked'
  <2> SUFFICES ASSUME "stray" \notin events', NEW v \in Task,
                      NEW p \in brk'[v].start .. brk'[v].break - 1
               PROVE  space'[v].pte[p] > 0
    BY Zenon DEF HeapBacked
  <2>1. p \in brk[v].start .. brk[v].break - 1 /\ "stray" \notin events
    BY <1>1, Zenon
  <2>2. p \in Page /\ space[v].pte[p] > 0
    BY <1>0, <2>1, HeapPages, Zenon DEF HeapBacked
  <2>3. v = t => b.s.pte[p] = space[t].pte[p]
    BY <1>2, <1>8, <2>2
  <2> QED BY <1>9, <2>2, <2>3, Zenon
<1>16. HeapClear'
  <2> SUFFICES ASSUME events' = {}, NEW v \in Task, Alive(v)',
                      NEW p \in brk'[v].break .. MMAP_BASE - 1
               PROVE  space'[v].pte[p] = 0
    BY Zenon DEF HeapClear
  <2>2. p \in Page /\ p < MMAP_BASE /\ p \in brk[v].break .. MMAP_BASE - 1
    <3>1. p \in brk[v].break .. MMAP_BASE - 1 /\ brk[v].break \in Nat
      BY <1>0, <1>1, TaskTypes, Zenon
    <3> QED BY <3>1, Sizes DEF Page
  <2>3. v = t => Alive(t)
    BY <1>0, Zenon DEF Runs
  <2>4. v # t => Alive(v)
    BY <1>9, Zenon DEF Alive
  <2>5. space[v].pte[p] = 0
    BY <1>1, <2>2, <2>3, <2>4, Zenon DEF IInv, HeapClear
  <2>6. p \notin va .. va + n - 1
    BY <1>3, <2>2, Sizes DEF Page
  <2>7. v = t => b.s.pte[p] = space[t].pte[p]
    BY <1>2, <1>8, <2>2, <2>6, Zenon
  <2> QED BY <1>9, <2>5, <2>7, Zenon
<1> QED BY <1>9, <1>12, <1>13, <1>14, <1>15, <1>16, Zenon DEF IInv

\* sys_munmap keeps the invariant: vma_remove takes away every area that is
\* touched, a page is left in none only when the event is recorded.
LEMMA MunmapKeeps ==
  ASSUME IInv, work' = work, NEW t \in Task, NEW va \in Area, NEW n \in Nat \ {0},
         va + n <= Min(Stack), Munmap(t, va, n)
  PROVE  IInv'
<1> DEFINE a0 == On(used, space[t])
           ps == va .. va + n - 1
           b == UnmapAll(a0, ps)
           ws == VmaRemove(vmas[t], va, va + n)
           cut == {i \in Hits(vmas[t], va, va + n) :
                     ~(va <= vmas[t][i].start /\ vmas[t][i].end <= va + n)}
<1>0. TypeInv /\ SpaceInv /\ FrameInv /\ VmasDisjoint /\ MappedHasVma /\ HeapBacked /\ Runs(t)
  BY Zenon DEF IInv, Munmap
<1>1. /\ Leaves(t, b, {})
      /\ vmas' = [vmas EXCEPT ![t] = ws]
      /\ brk' = brk /\ events \subseteq events'
      /\ "partial" \notin events' => cut = {}
  BY Zenon DEF Munmap
<1>2. /\ a0 \in Computation /\ Exact(a0, used \ Own[t]) /\ a0.s = space[t]
      /\ a0.hidden = {}
  <2>1. a0 = On(used, space[t])
    BY Zenon
  <2> HIDE DEF a0
  <2> QED BY <1>0, <2>1, OnExact, SMTT(30)
<1>3. va \in Nat /\ MMAP_BASE <= va /\ va + n <= NPAGES
  <2>1. /\ va \in MMAP_BASE .. NPAGES - STACK_SIZE - 1 /\ va + n <= NPAGES - STACK_SIZE
        /\ MMAP_BASE \in Nat /\ NPAGES \in Nat /\ STACK_SIZE \in Nat
    BY Places, Sizes
  <2> QED BY <2>1
<1>4. ps \in SUBSET Page
  BY <1>3, Sizes DEF Page
<1>5. vmas[t] \in Seq(Vma) /\ Apart(vmas[t]) /\ Len(vmas[t]) <= MAX_VMA
  BY <1>0, Zenon DEF TypeInv, VmasDisjoint, Apart
<1> HIDE DEF a0
<1>6. /\ b \in Computation /\ Exact(b, used \ Own[t]) /\ b.hidden = {}
      /\ \A p \in Page : b.s.pte[p] = IF p \in ps THEN 0 ELSE space[t].pte[p]
  <2> HIDE DEF ps
  <2>1. /\ b \in Computation /\ Exact(b, used \ Own[t]) /\ b.hidden = a0.hidden
        /\ \A p \in Page : b.s.pte[p] = IF p \in ps THEN 0 ELSE a0.s.pte[p]
    BY <1>2, <1>4, UnmapAllExact
  <2> QED BY <1>2, <2>1, Zenon
<1> HIDE DEF b
<1>7. /\ used' \in SUBSET Frame /\ lost' \in SUBSET Frame /\ space' \in [Task -> Space]
      /\ work' \in Workloads
      /\ SpaceInv' /\ FrameInv'
      /\ \A v \in Task : space'[v] = IF v = t THEN b.s ELSE space[v]
  BY <1>0, <1>1, <1>6, LeavesInv, Zenon
<1>8. /\ ws \in Seq(Vma) /\ Len(ws) <= Len(vmas[t]) /\ Apart(ws)
  BY <1>5, VmaRemoveRight, Zenon
<1>9. ASSUME cut = {}, NEW p \in Nat, p \notin ps, Hits(vmas[t], p, p + 1) # {}
      PROVE  Hits(ws, p, p + 1) # {}
  <2>1. \A i \in Hits(vmas[t], va, va + n) :
          va <= vmas[t][i].start /\ vmas[t][i].end <= va + n
    BY <1>9, Zenon
  <2>2. ~(va <= p /\ p < va + n) /\ va + n \in Nat
    BY <1>3, <1>9
  <2> QED BY <1>3, <1>5, <1>9, <2>1, <2>2, VmaKept, Zenon
<1> HIDE DEF ws, cut
<1>10. \A v \in Task : vmas'[v] = IF v = t THEN ws ELSE vmas[v]
  BY <1>0, <1>1, Zenon DEF TypeInv
<1>11. TypeInv'
  <2>1. vmas' \in [Task -> Seq(Vma)]
    BY <1>0, <1>1, <1>8, Zenon DEF TypeInv
  <2>2. MAX_VMA \in Nat /\ Len(vmas[t]) \in Nat /\ Len(ws) \in Nat
    BY <1>5, <1>8, MemoryAssumption, SMTT(30)
  <2>3. \A v \in Task : Len(vmas'[v]) <= MAX_VMA
    <3>1. \A v \in Task : Len(vmas[v]) <= MAX_VMA
      BY <1>0, Zenon DEF TypeInv
    <3>2. Len(ws) <= MAX_VMA
      BY <1>5, <1>8, <2>2
    <3> QED BY <1>10, <3>1, <3>2, Zenon
  <2> QED BY <1>0, <1>1, <1>7, <2>1, <2>3, Zenon DEF TypeInv
<1>12. VmasDisjoint'
  <2>1. \A v \in Task : Apart(vmas'[v])
    BY <1>0, <1>8, <1>10, Zenon DEF VmasDisjoint, Apart
  <2> QED BY <2>1, Zenon DEF VmasDisjoint, Apart
<1>13. MappedHasVma'
  <2> SUFFICES ASSUME "partial" \notin events', NEW v \in Task, NEW p \in Area,
                      space'[v].pte[p] > 0
               PROVE  Hits(vmas'[v], p, p + 1) # {}
    BY Zenon DEF MappedHasVma
  <2>1. p \in Page /\ p \in Nat
    BY Places, Sizes DEF Page
  <2>2. "partial" \notin events /\ cut = {}
    BY <1>1, Zenon
  <2>3. space[v].pte[p] > 0 => Hits(vmas[v], p, p + 1) # {}
    BY <1>0, <2>2, Zenon DEF MappedHasVma
  <2>4. CASE v # t
    BY <1>7, <1>10, <2>3, <2>4, Zenon
  <2>5. CASE v = t
    <3>1. p \notin ps /\ space[t].pte[p] > 0
      BY <1>6, <1>7, <2>1, <2>5
    <3> QED BY <1>9, <1>10, <2>1, <2>2, <2>3, <2>5, <3>1, Zenon
  <2> QED BY <2>4, <2>5, Zenon
<1>14. HeapBacked'
  <2> SUFFICES ASSUME "stray" \notin events', NEW v \in Task,
                      NEW p \in brk'[v].start .. brk'[v].break - 1
               PROVE  space'[v].pte[p] > 0
    BY Zenon DEF HeapBacked
  <2>1. p \in brk[v].start .. brk[v].break - 1 /\ "stray" \notin events
    BY <1>1, Zenon
  <2>2. p \in Page /\ space[v].pte[p] > 0 /\ p < MMAP_BASE
    BY <1>0, <2>1, HeapPages, Zenon DEF HeapBacked
  <2>3. p \notin ps
    BY <1>3, <2>2, Sizes DEF Page
  <2> QED BY <1>6, <1>7, <2>2, <2>3, Zenon
<1>15. HeapClear'
  <2> SUFFICES ASSUME events' = {}, NEW v \in Task, Alive(v)',
                      NEW p \in brk'[v].break .. MMAP_BASE - 1
               PROVE  space'[v].pte[p] = 0
    BY Zenon DEF HeapClear
  <2>2. p \in Page /\ p < MMAP_BASE /\ p \in brk[v].break .. MMAP_BASE - 1
    <3>1. p \in brk[v].break .. MMAP_BASE - 1 /\ brk[v].break \in Nat
      BY <1>0, <1>1, TaskTypes, Zenon
    <3> QED BY <3>1, Sizes DEF Page
  <2>3. Alive(v) /\ events = {}
    <3>1. v = t => Alive(v)
      BY <1>0, Zenon DEF Runs
    <3>2. v # t => Alive(v)
      BY <1>7, Zenon DEF Alive
    <3> QED BY <1>1, <3>1, <3>2, Zenon
  <2>4. space[v].pte[p] = 0
    BY <2>2, <2>3, Zenon DEF IInv, HeapClear
  <2> QED BY <1>6, <1>7, <2>2, <2>4
<1> QED BY <1>7, <1>11, <1>12, <1>13, <1>14, <1>15, Zenon DEF IInv

\* sys_mprotect keeps the invariant: the frames of hidden pages are lost.
LEMMA MprotectKeeps ==
  ASSUME IInv, work' = work, NEW t \in Task, NEW va \in Area, NEW n \in Nat \ {0},
         va + n <= Min(Stack), NEW prot \in BOOLEAN, Mprotect(t, va, n, prot)
  PROVE  IInv'
<1> DEFINE a0 == On(used, space[t])
           ps == va .. va + n - 1
           b == IF prot THEN a0 ELSE HideAll(a0, ps)
<1>0. TypeInv /\ SpaceInv /\ FrameInv /\ VmasDisjoint /\ MappedHasVma /\ HeapBacked /\ Runs(t)
  BY Zenon DEF IInv, Mprotect
<1>1. /\ Leaves(t, b, b.hidden)
      /\ vmas' = vmas /\ brk' = brk /\ events' = events
  BY Zenon DEF Mprotect
<1>2. /\ a0 \in Computation /\ Exact(a0, used \ Own[t]) /\ a0.s = space[t]
      /\ a0.hidden = {}
  <2>1. a0 = On(used, space[t])
    BY Zenon
  <2> HIDE DEF a0
  <2> QED BY <1>0, <2>1, OnExact, SMTT(30)
<1>3. va \in Nat /\ MMAP_BASE <= va /\ va + n <= NPAGES
  <2>1. /\ va \in MMAP_BASE .. NPAGES - STACK_SIZE - 1 /\ va + n <= NPAGES - STACK_SIZE
        /\ MMAP_BASE \in Nat /\ NPAGES \in Nat /\ STACK_SIZE \in Nat
    BY Places, Sizes
  <2> QED BY <2>1
<1>4. ps \in SUBSET Page
  BY <1>3, Sizes DEF Page
<1> HIDE DEF a0
<1>5. /\ b \in Computation /\ Exact(b, used \ Own[t])
      /\ \A p \in Page : b.s.pte[p] = space[t].pte[p] \/ (p \in ps /\ b.s.pte[p] = 0)
  <2>1. CASE prot
    BY <1>2, <2>1
  <2>2. CASE ~prot
    <3> HIDE DEF ps
    <3>1. b = HideAll(a0, ps)
      BY <2>2, Zenon
    <3> HIDE DEF b
    <3>2. /\ b \in Computation /\ Exact(b, used \ Own[t])
          /\ \A p \in Page : b.s.pte[p] = IF p \in ps THEN 0 ELSE a0.s.pte[p]
      BY <1>2, <1>4, <3>1, HideExact
    <3> QED BY <1>2, <3>2, Zenon
  <2> QED BY <2>1, <2>2, Zenon
<1> HIDE DEF b
<1>6. /\ used' \in SUBSET Frame /\ lost' \in SUBSET Frame /\ space' \in [Task -> Space]
      /\ work' \in Workloads
      /\ SpaceInv' /\ FrameInv'
      /\ \A v \in Task : space'[v] = IF v = t THEN b.s ELSE space[v]
  BY <1>0, <1>1, <1>5, LeavesInv, Zenon
<1>7. TypeInv' /\ VmasDisjoint'
  BY <1>0, <1>1, <1>6, Zenon DEF TypeInv, VmasDisjoint
<1>8. MappedHasVma'
  <2> SUFFICES ASSUME "partial" \notin events', NEW v \in Task, NEW p \in Area,
                      space'[v].pte[p] > 0
               PROVE  Hits(vmas'[v], p, p + 1) # {}
    BY Zenon DEF MappedHasVma
  <2>1. p \in Page
    BY Places, Zenon
  <2>2. space[v].pte[p] > 0
    BY <1>5, <1>6, <2>1
  <2>3. Hits(vmas[v], p, p + 1) # {}
    BY <1>0, <1>1, <2>2, Zenon DEF MappedHasVma
  <2> QED BY <1>1, <2>3, Zenon
<1>9. HeapBacked'
  <2> SUFFICES ASSUME "stray" \notin events', NEW v \in Task,
                      NEW p \in brk'[v].start .. brk'[v].break - 1
               PROVE  space'[v].pte[p] > 0
    BY Zenon DEF HeapBacked
  <2>1. p \in brk[v].start .. brk[v].break - 1 /\ "stray" \notin events
    BY <1>1, Zenon
  <2>2. p \in Page /\ space[v].pte[p] > 0 /\ p < MMAP_BASE
    BY <1>0, <2>1, HeapPages, Zenon DEF HeapBacked
  <2>3. p \notin ps
    BY <1>3, <2>2, Sizes DEF Page
  <2> QED BY <1>5, <1>6, <2>2, <2>3, Zenon
<1>10. HeapClear'
  <2> SUFFICES ASSUME events' = {}, NEW v \in Task, Alive(v)',
                      NEW p \in brk'[v].break .. MMAP_BASE - 1
               PROVE  space'[v].pte[p] = 0
    BY Zenon DEF HeapClear
  <2>2. p \in Page /\ p < MMAP_BASE /\ p \in brk[v].break .. MMAP_BASE - 1
    <3>1. p \in brk[v].break .. MMAP_BASE - 1 /\ brk[v].break \in Nat
      BY <1>0, <1>1, TaskTypes, Zenon
    <3> QED BY <3>1, Sizes DEF Page
  <2>3. Alive(v) /\ events = {}
    <3>1. v = t => Alive(v)
      BY <1>0, Zenon DEF Runs
    <3>2. v # t => Alive(v)
      BY <1>6, Zenon DEF Alive
    <3> QED BY <1>1, <3>1, <3>2, Zenon
  <2>4. space[v].pte[p] = 0
    BY <2>2, <2>3, Zenon DEF IInv, HeapClear
  <2> QED BY <1>5, <1>6, <2>2, <2>4, Zenon
<1> QED BY <1>6, <1>7, <1>8, <1>9, <1>10, Zenon DEF IInv

\* A waitpid that reaps a task keeps the invariant: its frames are lost.
LEMMA ReapKeeps ==
  ASSUME IInv, work' = work, NEW t \in Task, Reap(t)
  PROVE  IInv'
<1>0. TypeInv /\ SpaceInv /\ FrameInv /\ VmasDisjoint /\ MappedHasVma /\ HeapBacked /\ Runs(t)
  BY Zenon DEF IInv, Reap
<1>1. /\ space' = [space EXCEPT ![t] = NoSpace]
      /\ vmas' = [vmas EXCEPT ![t] = <<>>]
      /\ brk' = [brk EXCEPT ![t] = BrkAt(0)]
      /\ lost' = lost \cup Own[t]
      /\ used' = used /\ events' = events
  BY Zenon DEF Reap, Own
<1>2. Own[t] \subseteq used /\ "stray" \notin events
  BY <1>0, Zenon DEF FrameInv, Accounted, Runs
<1>3. SpaceStep(t, NoSpace, Own[t])
  BY <1>1, <1>2, NoSpaceEmpty, Zenon DEF SpaceStep
<1>4. Own[t] \in SUBSET Frame
  BY <1>0, <1>2, Zenon DEF TypeInv
<1>5. /\ used' \in SUBSET Frame /\ lost' \in SUBSET Frame /\ space' \in [Task -> Space]
      /\ work' \in Workloads
      /\ SpaceInv' /\ FrameInv'
      /\ \A v \in Task : space'[v] = IF v = t THEN NoSpace ELSE space[v]
  <2>1. NoSpace \in Space /\ Separate(NoSpace) /\ Owned(NoSpace) = {}
    BY NoSpaceEmpty
  <2>2. Own[t] \cap (used \ Own[t]) = {}
    BY Zenon
  <2> QED BY <1>0, <1>2, <1>3, <1>4, <2>1, <2>2, SpaceStepInv, Zenon
<1>6. \A v \in Task : /\ vmas'[v] = IF v = t THEN <<>> ELSE vmas[v]
                      /\ brk'[v] = IF v = t THEN [start |-> 0, break |-> 0] ELSE brk[v]
  BY <1>0, <1>1, Zenon DEF TypeInv, BrkAt
<1>7. TypeInv'
  <2>1. <<>> \in Seq(Vma) /\ Len(<<>>) = 0 /\ MAX_VMA \in Nat
    BY MemoryAssumption
  <2>2. vmas' \in [Task -> Seq(Vma)]
    BY <1>0, <1>1, <2>1, Zenon DEF TypeInv
  <2>3. \A v \in Task : Len(vmas'[v]) <= MAX_VMA
    <3>1. \A v \in Task : Len(vmas[v]) <= MAX_VMA
      BY <1>0, Zenon DEF TypeInv
    <3> QED BY <1>6, <2>1, <3>1
  <2>4. BrkAt(0) \in [start : 0 .. MMAP_BASE, break : 0 .. MMAP_BASE]
    BY Sizes DEF BrkAt
  <2>5. brk' \in [Task -> [start : 0 .. MMAP_BASE, break : 0 .. MMAP_BASE]]
    BY <1>0, <1>1, <2>4, Zenon DEF TypeInv
  <2>6. \A v \in Task : brk'[v].start <= brk'[v].break
    <3>1. \A v \in Task : brk[v].start <= brk[v].break
      BY <1>0, Zenon DEF TypeInv
    <3> QED BY <1>6, <3>1
  <2> QED BY <1>5, <2>2, <2>3, <2>5, <2>6, Zenon DEF TypeInv
<1>8. VmasDisjoint'
  <2>1. \A v \in Task : v # t => Apart(vmas'[v])
    BY <1>0, <1>6, Zenon DEF VmasDisjoint, Apart
  <2>2. DOMAIN vmas'[t] = {}
    BY <1>6
  <2> QED BY <2>1, <2>2, Zenon DEF VmasDisjoint, Apart
<1>9. MappedHasVma'
  <2> SUFFICES ASSUME "partial" \notin events', NEW v \in Task, NEW p \in Area,
                      space'[v].pte[p] > 0
               PROVE  Hits(vmas'[v], p, p + 1) # {}
    BY Zenon DEF MappedHasVma
  <2>1. v # t /\ space[v].pte[p] > 0
    BY <1>5, Places, NoSpaceEmpty
  <2>2. Hits(vmas[v], p, p + 1) # {}
    BY <1>0, <1>1, <2>1, Zenon DEF MappedHasVma
  <2> QED BY <1>6, <2>1, <2>2, Zenon
<1>10. HeapBacked'
  <2> SUFFICES ASSUME "stray" \notin events', NEW v \in Task,
                      NEW p \in brk'[v].start .. brk'[v].break - 1
               PROVE  space'[v].pte[p] > 0
    BY Zenon DEF HeapBacked
  <2>1. v # t
    BY <1>6
  <2> QED BY <1>0, <1>2, <1>5, <1>6, <2>1, Zenon DEF HeapBacked
<1>11. HeapClear'
  <2> SUFFICES ASSUME events' = {}, NEW v \in Task, Alive(v)',
                      NEW p \in brk'[v].break .. MMAP_BASE - 1
               PROVE  space'[v].pte[p] = 0
    BY Zenon DEF HeapClear
  <2>1. v # t
    BY <1>5, NoSpaceEmpty, Zenon DEF Alive
  <2>2. Alive(v) /\ brk'[v] = brk[v] /\ space'[v] = space[v]
    BY <1>5, <1>6, <2>1, Zenon DEF Alive
  <2> QED BY <1>1, <2>2, Zenon DEF IInv, HeapClear
<1> QED BY <1>5, <1>7, <1>8, <1>9, <1>10, <1>11 DEF IInv

\* fork keeps the invariant, with the partial copy of a failed one included.
LEMMA ForkKeeps ==
  ASSUME IInv, work' = work, NEW t \in Task, NEW c \in Task, Fork(t, c)
  PROVE  IInv'
<1> DEFINE a == ClonePdir(used, space[t])
<1>0. TypeInv /\ SpaceInv /\ FrameInv /\ VmasDisjoint /\ MappedHasVma /\ HeapBacked /\ Runs(t)
  BY DEF IInv, Fork
<1>1. /\ space[c].pdir = 0
      /\ used' = a.used /\ space' = [space EXCEPT ![c] = a.s]
      /\ vmas' = IF a.ok THEN [vmas EXCEPT ![c] = vmas[t]] ELSE vmas
      /\ brk' = IF a.ok THEN [brk EXCEPT ![c] = brk[t]] ELSE brk
      /\ lost' = lost /\ events' = events
  BY Zenon DEF Fork, Alive
<1>2. /\ space[c] = NoSpace /\ Own[c] = {} /\ "stray" \notin events
      /\ space[t] \in Space /\ Separate(space[t]) /\ used \in SUBSET Frame
  BY <1>0, <1>1, NoSpaceEmpty, Zenon DEF SpaceInv, TypeInv, Own, Runs
<1>3. /\ a.ok \in BOOLEAN
      /\ a.ok => /\ a \in Computation /\ Exact(a, used) /\ a.hidden = {}
                 /\ \A q \in Page : a.s.pte[q] # 0 <=> space[t].pte[q] # 0
      /\ ~a.ok => a.used = used /\ a.s = NoSpace
  BY <1>2, ClonePdirExact, Zenon
<1> HIDE DEF a
<1>4. /\ a.s \in Space /\ Separate(a.s) /\ (a.s.pdir = 0 => a.s = NoSpace)
      /\ used \cap Owned(a.s) = {} /\ a.used = used \cup Owned(a.s)
  <2>1. CASE a.ok
    BY <1>3, <2>1, Zenon DEF Computation, Exact
  <2>2. CASE ~a.ok
    BY <1>3, <2>2, NoSpaceEmpty, Zenon
  <2> QED BY <1>3, <2>1, <2>2, Zenon
<1>5. SpaceStep(c, a.s, {})
  BY <1>1, <1>2, <1>4, Zenon DEF SpaceStep
<1>6. /\ used' \in SUBSET Frame /\ lost' \in SUBSET Frame /\ space' \in [Task -> Space]
      /\ work' \in Workloads
      /\ SpaceInv' /\ FrameInv'
      /\ \A v \in Task : space'[v] = IF v = c THEN a.s ELSE space[v]
  <2>1. Owned(a.s) \cap (used \ Own[c]) = {} /\ {} \in SUBSET Frame
        /\ Owned(a.s) \cap {} = {} /\ {} \cap (used \ Own[c]) = {}
    BY <1>4, Zenon
  <2> QED BY <1>0, <1>2, <1>4, <1>5, <2>1, SpaceStepInv, Zenon
<1>7. \A v \in Task : /\ vmas'[v] = IF v = c /\ a.ok THEN vmas[t] ELSE vmas[v]
                      /\ brk'[v] = IF v = c /\ a.ok THEN brk[t] ELSE brk[v]
  BY <1>0, <1>1, SMTT(30) DEF TypeInv
<1>8. TypeInv'
  <2>1. vmas' \in [Task -> Seq(Vma)]
    BY <1>0, <1>1, Zenon DEF TypeInv
  <2>2. brk' \in [Task -> [start : 0 .. MMAP_BASE, break : 0 .. MMAP_BASE]]
    <3> DEFINE B == [start : 0 .. MMAP_BASE, break : 0 .. MMAP_BASE]
    <3>1. brk \in [Task -> B]
      BY <1>0, Zenon DEF TypeInv
    <3> HIDE DEF B
    <3>2. brk' \in [Task -> B]
      BY <1>1, <3>1, Zenon
    <3> QED BY <3>2, Zenon DEF B
  <2>3. \A v \in Task : Len(vmas[v]) <= MAX_VMA /\ brk[v].start <= brk[v].break
    BY <1>0, Zenon DEF TypeInv
  <2>4. \A v \in Task : Len(vmas'[v]) <= MAX_VMA /\ brk'[v].start <= brk'[v].break
    BY <1>7, <2>3, Zenon
  <2> QED BY <1>6, <2>1, <2>2, <2>4, SMTT(30) DEF TypeInv
<1>9. VmasDisjoint'
  <2>1. \A v \in Task : Apart(vmas[v])
    BY <1>0, Zenon DEF VmasDisjoint, Apart
  <2>2. \A v \in Task : Apart(vmas'[v])
    BY <1>7, <2>1, Zenon
  <2> QED BY <2>2, Zenon DEF VmasDisjoint, Apart
<1>10. MappedHasVma'
  <2> SUFFICES ASSUME "partial" \notin events', NEW v \in Task, NEW p \in Area,
                      space'[v].pte[p] > 0
               PROVE  Hits(vmas'[v], p, p + 1) # {}
    BY Zenon DEF MappedHasVma
  <2>1. p \in Page
    BY Places, Zenon
  <2>2. \A x \in Task : space[x].pte[p] > 0 => Hits(vmas[x], p, p + 1) # {}
    BY <1>0, <1>1, Zenon DEF MappedHasVma
  <2>3. CASE v # c
    BY <1>6, <1>7, <2>2, <2>3, Zenon
  <2>4. CASE v = c
    <3>1. a.s.pte[p] # 0 /\ a.ok
      BY <1>3, <1>6, <2>1, <2>4, NoSpaceEmpty
    <3>2. space[t].pte[p] > 0
      BY <1>2, <1>3, <2>1, <3>1, PteSign, Zenon
    <3> QED BY <1>7, <2>2, <2>4, <3>1, <3>2, Zenon
  <2> QED BY <2>3, <2>4, Zenon
<1>11. HeapBacked'
  <2> SUFFICES ASSUME "stray" \notin events', NEW v \in Task,
                      NEW p \in brk'[v].start .. brk'[v].break - 1
               PROVE  space'[v].pte[p] > 0
    BY Zenon DEF HeapBacked
  <2>1. \A x \in Task : \A q \in brk[x].start .. brk[x].break - 1 : space[x].pte[q] > 0
    BY <1>0, <1>2, Zenon DEF HeapBacked
  <2>2. CASE v # c
    BY <1>6, <1>7, <2>1, <2>2, Zenon
  <2>3. CASE v = c /\ a.ok
    <3>1. p \in brk[t].start .. brk[t].break - 1
      BY <1>7, <2>3, Zenon
    <3>2. p \in Page /\ space[t].pte[p] > 0
      BY <1>0, <2>1, <3>1, HeapPages, Zenon
    <3>3. a.s.pte[p] # 0
      BY <1>3, <2>3, <3>2
    <3>4. a.s.pte[p] > 0
      BY <1>4, <3>2, <3>3, PteSign, Zenon
    <3> QED BY <1>6, <2>3, <3>4, Zenon
  <2>4. CASE v = c /\ ~a.ok
    <3>1. p \in brk[c].start .. brk[c].break - 1
      BY <1>7, <2>4, Zenon
    <3>2. p \in Page /\ space[c].pte[p] > 0
      BY <1>0, <2>1, <3>1, HeapPages, Zenon
    <3> QED BY <1>2, <3>2, NoSpaceEmpty
  <2> QED BY <2>2, <2>3, <2>4, Zenon
<1>12. HeapClear'
  <2> SUFFICES ASSUME events' = {}, NEW v \in Task, Alive(v)',
                      NEW p \in brk'[v].break .. MMAP_BASE - 1
               PROVE  space'[v].pte[p] = 0
    BY Zenon DEF HeapClear
  <2>1. \A x \in Task : Alive(x) =>
          \A q \in brk[x].break .. MMAP_BASE - 1 : space[x].pte[q] = 0
    BY <1>1, Zenon DEF IInv, HeapClear
  <2>2. CASE v # c
    BY <1>6, <1>7, <2>1, <2>2, Zenon DEF Alive
  <2>3. CASE v = c
    <3>1. a.ok
      BY <1>3, <1>6, <2>3, NoSpaceEmpty, Zenon DEF Alive
    <3>2. p \in brk[t].break .. MMAP_BASE - 1 /\ Alive(t)
      BY <1>0, <1>7, <2>3, <3>1, Zenon DEF Runs
    <3>3. p \in Page
      BY <1>0, <3>2, TaskTypes, Sizes DEF Page
    <3>4. space[t].pte[p] = 0
      BY <2>1, <3>2, Zenon
    <3>5. a.s.pte[p] = 0
      BY <1>3, <3>1, <3>3, <3>4, Zenon
    <3> QED BY <1>6, <2>3, <3>5, Zenon
  <2> QED BY <2>2, <2>3, Zenon
<1> QED BY <1>6, <1>8, <1>9, <1>10, <1>11, <1>12, Zenon DEF IInv

\* exec keeps the invariant: the old space is lost on success, the new one on
\* failure.
LEMMA ExecKeeps ==
  ASSUME IInv, work' = work, NEW t \in Task, NEW e \in ElfFiles, ExecCall(t, e)
  PROVE  IInv'
<1> DEFINE x == Exec(used, e)
           bk == BrkAt(ElfBrkStart(e.segs))
           s == IF x.ok THEN x.s ELSE space[t]
           L == x.lost \cup (IF x.ok THEN Own[t] ELSE {})
<1>0. TypeInv /\ SpaceInv /\ FrameInv /\ VmasDisjoint /\ MappedHasVma /\ HeapBacked /\ Runs(t)
  BY Zenon DEF IInv, ExecCall
<1>1. /\ used' = x.used
      /\ space' = IF x.ok THEN [space EXCEPT ![t] = x.s] ELSE space
      /\ brk' = IF x.ok THEN [brk EXCEPT ![t] = bk] ELSE brk
      /\ lost' = lost \cup L
      /\ events' = events \cup (IF x.stray THEN {"stray"} ELSE {})
      /\ vmas' = vmas
  <2>1. Own[t] = Owned(space[t])
    BY Zenon DEF Own
  <2> QED BY <2>1 DEF ExecCall
<1>2. /\ "stray" \notin events /\ used \in SUBSET Frame /\ Own[t] \subseteq used
      /\ space[t] \in Space /\ space[t].pdir # 0 /\ Separate(space[t])
      /\ Own[t] = Owned(space[t])
  BY <1>0, Zenon DEF TypeInv, SpaceInv, FrameInv, Accounted, Runs, Alive, Own
<1>3. /\ x.ok \in BOOLEAN /\ x.stray \in BOOLEAN
      /\ x.used \in SUBSET Frame /\ x.lost \in SUBSET Frame /\ x.s \in Space
      /\ ~x.ok => x.s = NoSpace
      /\ x.ok => /\ x.s.pdir # 0 /\ Separate(x.s) /\ x.lost = {}
                 /\ \A p \in Unmapped(e.segs) : x.s.pte[p] = 0
      /\ ~x.stray => /\ x.used = used \cup Owned(x.s) \cup x.lost
                     /\ used \cap Owned(x.s) = {} /\ used \cap x.lost = {}
  BY <1>2, ExecExact, Zenon
<1>4. bk \in [start : 0 .. MMAP_BASE, break : 0 .. MMAP_BASE] /\ bk.start = bk.break
  BY ElfBrk, Zenon
<1> HIDE DEF x, bk
<1>5. /\ s \in Space /\ s.pdir # 0 /\ Separate(s) /\ L \in SUBSET Frame
      /\ \A v \in Task : space'[v] = IF v = t THEN s ELSE space[v]
      /\ space' = [space EXCEPT ![t] = s]
  <2>1. s \in Space /\ s.pdir # 0 /\ Separate(s)
    BY <1>2, <1>3
  <2>2. L \in SUBSET Frame
    BY <1>2, <1>3, Zenon
  <2>3. space \in [Task -> Space]
    BY <1>0, Zenon DEF TypeInv
  <2>4. /\ \A v \in Task : space'[v] = IF v = t THEN s ELSE space[v]
        /\ space' = [space EXCEPT ![t] = s]
    BY <1>1, <2>3, Zenon
  <2> QED BY <2>1, <2>2, <2>4, Zenon
<1>6. ~x.stray => /\ SpaceStep(t, s, L)
                  /\ Owned(s) \cap L = {} /\ Owned(s) \cap (used \ Own[t]) = {}
                  /\ L \cap (used \ Own[t]) = {}
  <2> SUFFICES ASSUME ~x.stray
               PROVE  /\ x.used = (used \ Own[t]) \cup Owned(s) \cup L
                      /\ Owned(s) \cap L = {} /\ Owned(s) \cap (used \ Own[t]) = {}
                      /\ L \cap (used \ Own[t]) = {}
    BY <1>1, <1>5, Zenon DEF SpaceStep
  <2>1. /\ x.used = used \cup Owned(x.s) \cup x.lost
        /\ used \cap Owned(x.s) = {} /\ used \cap x.lost = {}
    BY <1>3, Zenon
  <2>2. CASE x.ok
    BY <1>2, <1>3, <2>1, <2>2
  <2>3. CASE ~x.ok
    <3>1. Owned(x.s) = {} /\ Owned(s) = Own[t] /\ L = x.lost
      BY <1>2, <1>3, <2>3, NoSpaceEmpty, Zenon
    <3> QED BY <1>2, <2>1, <3>1, Zenon
  <2> QED BY <1>3, <2>2, <2>3
<1> HIDE DEF s, L
<1>7. /\ used' \in SUBSET Frame /\ lost' \in SUBSET Frame /\ space' \in [Task -> Space]
      /\ work' \in Workloads
  <2>1. work' \in Workloads /\ space \in [Task -> Space] /\ lost \in SUBSET Frame
    BY <1>0, <1>1, Zenon DEF TypeInv
  <2>2. space' \in [Task -> Space]
    BY <1>1, <1>5, <2>1, Zenon
  <2>3. used' \in SUBSET Frame /\ lost' \in SUBSET Frame
    BY <1>1, <1>3, <1>5, <2>1, Zenon
  <2> QED BY <2>1, <2>2, <2>3, Zenon
<1>8. SpaceInv'
  BY <1>0, <1>5, Zenon DEF SpaceInv
<1>9. FrameInv'
  <2>1. CASE x.stray
    BY <1>1, <2>1, Zenon DEF FrameInv
  <2>2. CASE ~x.stray
    BY <1>0, <1>2, <1>5, <1>6, <2>2, SpaceStepInv
  <2> QED BY <2>1, <2>2, Zenon
<1>10. \A v \in Task : brk'[v] = IF v = t /\ x.ok THEN bk ELSE brk[v]
  BY <1>0, <1>1, Zenon DEF TypeInv
<1>11. TypeInv'
  <2> DEFINE B == [start : 0 .. MMAP_BASE, break : 0 .. MMAP_BASE]
  <2>1. brk \in [Task -> B] /\ bk \in B
    BY <1>0, <1>4, Zenon DEF TypeInv
  <2>2. bk.start <= bk.break
    BY <1>4, Sizes
  <2> HIDE DEF B
  <2>3. brk' \in [Task -> B]
    BY <1>1, <2>1, Zenon
  <2>4. \A v \in Task : brk[v].start <= brk[v].break
    BY <1>0, Zenon DEF TypeInv
  <2>5. \A v \in Task : brk'[v].start <= brk'[v].break
    BY <1>10, <2>2, <2>4, Zenon
  <2> QED BY <1>0, <1>1, <1>7, <2>3, <2>5, Zenon DEF TypeInv, B
<1>12. VmasDisjoint'
  BY <1>0, <1>1, Zenon DEF VmasDisjoint
<1>13. MappedHasVma'
  <2> SUFFICES ASSUME "partial" \notin events', NEW v \in Task, NEW p \in Area,
                      space'[v].pte[p] > 0
               PROVE  Hits(vmas'[v], p, p + 1) # {}
    BY Zenon DEF MappedHasVma
  <2>1. space[v].pte[p] > 0
    <3>1. p \in Unmapped(e.segs)
      BY UnmappedArea, Zenon
    <3> QED BY <1>3, <1>5, <3>1 DEF s
  <2>2. "partial" \notin events
    BY <1>1, Zenon
  <2>3. Hits(vmas[v], p, p + 1) # {}
    BY <1>0, <2>1, <2>2, Zenon DEF MappedHasVma
  <2> QED BY <1>1, <2>3, Zenon
<1>14. HeapBacked'
  <2> SUFFICES ASSUME "stray" \notin events', NEW v \in Task,
                      NEW p \in brk'[v].start .. brk'[v].break - 1
               PROVE  space'[v].pte[p] > 0
    BY Zenon DEF HeapBacked
  <2>1. \A y \in Task : \A q \in brk[y].start .. brk[y].break - 1 : space[y].pte[q] > 0
    BY <1>0, <1>2, Zenon DEF HeapBacked
  <2>2. CASE v = t /\ x.ok
    <3>1. bk.start \in Nat /\ bk.break = bk.start
      BY <1>4, Sizes
    <3> QED BY <1>10, <2>2, <3>1
  <2>3. CASE ~(v = t /\ x.ok)
    <3>1. brk'[v] = brk[v] /\ space'[v] = space[v]
      BY <1>5, <1>10, <2>3, Zenon DEF s
    <3> QED BY <2>1, <3>1, Zenon
  <2> QED BY <2>2, <2>3, Zenon
<1>15. HeapClear'
  <2> SUFFICES ASSUME events' = {}, NEW v \in Task, Alive(v)',
                      NEW p \in brk'[v].break .. MMAP_BASE - 1
               PROVE  space'[v].pte[p] = 0
    BY Zenon DEF HeapClear
  <2>1. CASE v = t /\ x.ok
    <3>1. p \in ElfBrkStart(e.segs) .. MMAP_BASE - 1
      BY <1>10, <2>1, ElfBrk DEF bk
    <3>2. p \in Unmapped(e.segs)
      BY <3>1, ElfTop, Sizes DEF Unmapped
    <3> QED BY <1>3, <1>5, <2>1, <3>2 DEF s
  <2>2. CASE ~(v = t /\ x.ok)
    <3>1. brk'[v] = brk[v] /\ space'[v] = space[v]
      BY <1>5, <1>10, <2>2, Zenon DEF s
    <3>2. Alive(v) /\ events = {}
      BY <1>1, <3>1 DEF Alive
    <3> QED BY <3>1, <3>2, Zenon DEF IInv, HeapClear
  <2> QED BY <2>1, <2>2, Zenon
<1> QED BY <1>8, <1>9, <1>11, <1>12, <1>13, <1>14, <1>15, Zenon DEF IInv

-----------------------------------------------------------------------------
(* The invariant, and what it implies.                                      *)

\* The first program, loaded at boot, satisfies the invariant.
LEMMA InitInv ==
  ASSUME Init
  PROVE  IInv
<1> DEFINE u == AllocN(Kernel, FirstElf.pages)
           a == Loaded(u, FirstElf)
           bk == BrkAt(ElfBrkStart(FirstElf.segs))
<1>1. /\ work \in Workloads /\ a.ok /\ used = a.used /\ lost = u \ Kernel
      /\ space = [t \in Task |-> IF t = 1 THEN a.s ELSE NoSpace]
      /\ vmas = [t \in Task |-> <<>>]
      /\ brk = [t \in Task |-> IF t = 1 THEN bk ELSE BrkAt(0)]
      /\ events = {}
  BY Zenon DEF Init
<1>2. Kernel \in SUBSET Frame /\ 1 \in Task
  <2>1. work.kernel \in 0 .. NFRAMES - 1 /\ NTASKS \in Nat \ {0}
    BY <1>1, MemoryAssumption, Zenon
  <2> QED BY <2>1, Sizes DEF Kernel, Frame, Task
<1>3. FirstElf \in ElfFiles /\ FirstElf.pages \in Nat
  BY MemoryAssumption, Zenon
<1>4. u \in SUBSET Frame /\ Kernel \subseteq u
  BY <1>2, <1>3, AllocNGrows, Zenon
<1>5. bk \in [start : 0 .. MMAP_BASE, break : 0 .. MMAP_BASE] /\ bk.start = bk.break
  BY <1>3, ElfBrk, Zenon
<1> HIDE DEF u, bk
<1>6. /\ a.s.pdir # 0 /\ a \in Computation /\ Exact(a, u) /\ a.hidden = {}
      /\ \A p \in Unmapped(FirstElf.segs) : a.s.pte[p] = 0
  BY <1>1, <1>3, <1>4, LoadedExact, Zenon
<1> HIDE DEF a
<1>7. /\ a.s \in Space /\ Separate(a.s) /\ a.used = u \cup Owned(a.s)
      /\ u \cap Owned(a.s) = {} /\ a.used \in SUBSET Frame
  BY <1>6, Zenon DEF Computation, Exact
<1>8. TypeInv
  <2> DEFINE B == [start : 0 .. MMAP_BASE, break : 0 .. MMAP_BASE]
  <2>1. BrkAt(0) \in B /\ bk \in B /\ BrkAt(0).start <= BrkAt(0).break /\ bk.start <= bk.break
    BY <1>5, Sizes DEF BrkAt
  <2>2. <<>> \in Seq(Vma) /\ Len(<<>>) <= MAX_VMA
    BY MemoryAssumption
  <2>3. space \in [Task -> Space]
    BY <1>1, <1>7, NoSpaceEmpty, Zenon
  <2> HIDE DEF B
  <2>4. brk \in [Task -> B] /\ \A t \in Task : brk[t].start <= brk[t].break
    BY <1>1, <2>1, Zenon
  <2>5. vmas \in [Task -> Seq(Vma)] /\ \A t \in Task : Len(vmas[t]) <= MAX_VMA
    BY <1>1, <2>2, Zenon
  <2> QED BY <1>1, <1>4, <1>7, <2>3, <2>4, <2>5, Zenon DEF TypeInv, B
<1>9. SpaceInv
  BY <1>1, <1>6, <1>7, NoSpaceEmpty DEF SpaceInv
<1>10. FrameInv
  <2>1. \A t \in Task : Own[t] = IF t = 1 THEN Owned(a.s) ELSE {}
    BY <1>1, NoSpaceEmpty, Zenon DEF Own
  <2>2. Accounted(Kernel, used, Own, lost)
    BY <1>1, <1>2, <1>4, <1>7, <2>1 DEF Accounted
  <2> QED BY <2>2, Zenon DEF FrameInv
<1>11. VmasDisjoint
  <2>1. \A t \in Task : DOMAIN vmas[t] = {}
    BY <1>1
  <2> QED BY <2>1, Zenon DEF VmasDisjoint
<1>12. MappedHasVma
  <2>1. \A t \in Task : \A p \in Area : ~(space[t].pte[p] > 0)
    <3>1. \A p \in Area : p \in Unmapped(FirstElf.segs) /\ p \in Page
      BY <1>3, UnmappedArea, Places, Zenon
    <3>2. \A p \in Area : a.s.pte[p] = 0
      BY <1>6, <3>1, Zenon
    <3>3. \A p \in Area : NoSpace.pte[p] = 0
      BY <3>1, NoSpaceEmpty, Zenon
    <3>4. \A t \in Task : space[t] = a.s \/ space[t] = NoSpace
      BY <1>1, Zenon
    <3>5. \A t \in Task : \A p \in Area : space[t].pte[p] = 0
      BY <3>2, <3>3, <3>4, Zenon
    <3> QED BY <3>5
  <2> QED BY <2>1, Zenon DEF MappedHasVma
<1>13. HeapBacked
  <2>1. bk.start \in Nat /\ bk.break = bk.start /\ BrkAt(0).start = 0 /\ BrkAt(0).break = 0
    BY <1>5, Sizes DEF BrkAt
  <2>2. \A t \in Task : brk[t].start \in Nat /\ brk[t].break = brk[t].start
    BY <1>1, <2>1
  <2>3. \A t \in Task : brk[t].start .. brk[t].break - 1 = {}
    BY <2>2
  <2> QED BY <2>3, Zenon DEF HeapBacked
<1>14. HeapClear
  <2>1. ASSUME NEW t \in Task, Alive(t), NEW p \in brk[t].break .. MMAP_BASE - 1
        PROVE  space[t].pte[p] = 0
    <3>1. t = 1 /\ space[t] = a.s /\ brk[t] = bk
      BY <1>1, <2>1, NoSpaceEmpty, Zenon DEF Alive
    <3>2. p \in ElfBrkStart(FirstElf.segs) .. MMAP_BASE - 1
      BY <1>3, <3>1, ElfBrk, Zenon DEF bk
    <3>3. p \in Unmapped(FirstElf.segs)
      BY <1>3, <3>2, ElfTop, Sizes DEF Unmapped
    <3> QED BY <1>6, <3>1, <3>3, Zenon
  <2> QED BY <2>1, Zenon DEF HeapClear
<1> QED BY <1>8, <1>9, <1>10, <1>11, <1>12, <1>13, <1>14, Zenon DEF IInv

\* Every step keeps the invariant.
LEMMA NextInv ==
  ASSUME IInv, [Next]_vars
  PROVE  IInv'
<1>1. CASE UNCHANGED vars
  <2>1. /\ work' = work /\ used' = used /\ space' = space /\ vmas' = vmas /\ brk' = brk
        /\ lost' = lost /\ events' = events
    BY <1>1, Zenon DEF vars
  <2>2. Kernel' = Kernel /\ Own' = Own
    BY <2>1, Zenon DEF Kernel, Own
  <2>3. TypeInv' /\ SpaceInv' /\ FrameInv'
    BY <2>1, <2>2, Zenon DEF IInv, TypeInv, SpaceInv, FrameInv
  <2>4. VmasDisjoint' /\ MappedHasVma' /\ HeapBacked' /\ HeapClear'
    BY <2>1, Zenon DEF IInv, VmasDisjoint, MappedHasVma, HeapBacked, HeapClear, Alive
  <2> QED BY <2>3, <2>4, Zenon DEF IInv
<1>2. CASE Next
  <2>1. work' = work /\ MaxPages \in Nat
    BY <1>2, MemoryAssumption, Zenon DEF Next
  <2>2. PICK t \in Task : Calls(t)
    BY <1>2, Zenon DEF Next
  <2>3. CASE \E e \in ElfFiles : ExecCall(t, e)
    BY <2>1, <2>3, ExecKeeps, Zenon
  <2>4. CASE \E c \in Task : Fork(t, c)
    BY <2>1, <2>4, ForkKeeps, Zenon
  <2>5. CASE Reap(t)
    BY <2>1, <2>5, ReapKeeps, Zenon
  <2>6. CASE \E arg \in 1 .. MMAP_BASE : Brk(t, arg)
    BY <2>1, <2>6, BrkKeeps, Zenon
  <2>7. CASE \E n \in 1 .. MaxPages, prot \in BOOLEAN : Mmap2(t, n, prot, FALSE, 0)
    <3>1. PICK n \in 1 .. MaxPages, prot \in BOOLEAN : Mmap2(t, n, prot, FALSE, 0)
      BY <2>7, Zenon
    <3>2. n \in Nat \ {0} /\ FALSE \in BOOLEAN
      BY <2>1
    <3> QED BY <2>1, <3>1, <3>2, Mmap2Keeps, Zenon
  <2>8. CASE \E at \in Area : \E n \in Lengths(at), prot \in BOOLEAN :
               Mmap2(t, n, prot, TRUE, at)
    <3>1. PICK at \in Area : \E n \in Lengths(at), prot \in BOOLEAN :
                 Mmap2(t, n, prot, TRUE, at)
      BY <2>8, Zenon
    <3>2. PICK n \in Lengths(at), prot \in BOOLEAN : Mmap2(t, n, prot, TRUE, at)
      BY <3>1, Zenon
    <3>3. n \in Nat \ {0} /\ at + n <= Min(Stack) /\ TRUE \in BOOLEAN
      BY <2>1 DEF Lengths
    <3> QED BY <2>1, <3>2, <3>3, Mmap2Keeps, Zenon
  <2>9. CASE \E va \in Area : \E n \in Lengths(va) : Munmap(t, va, n)
    <3>1. PICK va \in Area : \E n \in Lengths(va) : Munmap(t, va, n)
      BY <2>9, Zenon
    <3>2. PICK n \in Lengths(va) : Munmap(t, va, n)
      BY <3>1, Zenon
    <3>3. n \in Nat \ {0} /\ va + n <= Min(Stack)
      BY <2>1 DEF Lengths
    <3> QED BY <2>1, <3>2, <3>3, MunmapKeeps, Zenon
  <2>10. CASE \E va \in Area : \E n \in Lengths(va), prot \in BOOLEAN :
                Mprotect(t, va, n, prot)
    <3>1. PICK va \in Area : \E n \in Lengths(va), prot \in BOOLEAN :
                 Mprotect(t, va, n, prot)
      BY <2>10, Zenon
    <3>2. PICK n \in Lengths(va), prot \in BOOLEAN : Mprotect(t, va, n, prot)
      BY <3>1, Zenon
    <3>3. n \in Nat \ {0} /\ va + n <= Min(Stack)
      BY <2>1 DEF Lengths
    <3> QED BY <2>1, <3>2, <3>3, MprotectKeeps, Zenon
  <2> QED BY <2>2, <2>3, <2>4, <2>5, <2>6, <2>7, <2>8, <2>9, <2>10, Zenon DEF Calls
<1> QED BY <1>1, <1>2, Zenon

\* The inductive invariant of the memory of the tasks.
THEOREM MemoryInductive == Spec => []IInv
BY InitInv, NextInv, PTL DEF Spec

\* What names frame f in task t.
LEMMA UserOwns ==
  ASSUME TypeInv, SpaceInv, NEW f \in Frame, NEW x \in Users(f)
  PROVE  \E t \in Task :
           /\ space[t] \in Space /\ space[t].pdir # 0 /\ f \in Owned(space[t])
           /\ \/ x = <<t, "pdir", 0>> /\ space[t].pdir = f
              \/ \E i \in Table : x = <<t, "pt", i>> /\ space[t].pt[i] = f
              \/ \E p \in Page : x = <<t, "page", p>> /\ space[t].pte[p] = f
<1>1. PICK t \in Task :
           \/ x = <<t, "pdir", 0>> /\ space[t].pdir = f
           \/ \E i \in Table : x = <<t, "pt", i>> /\ space[t].pt[i] = f
           \/ \E p \in Page : x = <<t, "page", p>> /\ space[t].pte[p] = f
  <2>1. PICK t \in Task : x \in UsersIn(t, f)
    BY Zenon DEF Users
  <2> QED BY <2>1, Zenon DEF UsersIn
<1>2. f # 0 /\ space[t] \in Space
  BY Sizes, Zenon DEF TypeInv
<1>3. space[t].pdir # 0
  <2> SUFFICES ASSUME space[t].pdir = 0 PROVE FALSE
    BY Zenon
  <2>1. space[t] = NoSpace
    BY Zenon DEF SpaceInv
  <2>2. \A i \in Table : NoSpace.pt[i] = 0
    BY Zenon DEF NoSpace
  <2> QED BY <1>1, <1>2, <2>1, <2>2, NoSpaceEmpty, Zenon
<1>4. f \in Owned(space[t])
  BY <1>1, <1>2, <1>3, OwnedFrames, Zenon
<1> QED BY <1>1, <1>2, <1>3, <1>4, Zenon

\* The bitmap is exact and no frame has two uses, because no two entries of
\* a space name one frame and no two spaces have one.
LEMMA ExactMemory ==
  ASSUME IInv
  PROVE  MemoryInv
<1>0. TypeInv /\ SpaceInv /\ FrameInv
  BY Zenon DEF IInv
<1>1. TypeOK
  <2>1. /\ used \subseteq Frame /\ lost \subseteq Frame
        /\ space \in [Task -> [pdir : 0 .. NFRAMES - 1,
                               pt : [Table -> 0 .. NFRAMES - 1],
                               pte : [Page -> 0 .. NFRAMES - 1]]]
    BY <1>0, Zenon DEF TypeInv, Space, Entry
  <2>2. ASSUME NEW t \in Task
        PROVE  /\ Len(vmas[t]) <= MAX_VMA
               /\ \A i \in DOMAIN vmas[t] : vmas[t][i].start < vmas[t][i].end
               /\ brk[t].start <= brk[t].break
    <3>1. vmas[t] \in Seq(Vma) /\ Len(vmas[t]) <= MAX_VMA /\ brk[t].start <= brk[t].break
      BY <1>0, Zenon DEF TypeInv
    <3>2. \A i \in DOMAIN vmas[t] : vmas[t][i] \in Vma
      BY <3>1
    <3> QED BY <3>1, <3>2, VmaNumbers, Zenon
  <2> QED BY <2>1, <2>2, Zenon DEF TypeOK
<1>2. SoleUse
  <2> SUFFICES ASSUME "stray" \notin events, NEW f \in Frame,
                      NEW x \in Users(f), NEW y \in Users(f)
               PROVE  x = y
    BY Zenon DEF SoleUse
  <2>0. Accounted(Kernel, used, Own, lost) /\ f # 0
    BY <1>0, Sizes, Zenon DEF FrameInv
  <2>1. PICK t \in Task :
           /\ space[t] \in Space /\ space[t].pdir # 0 /\ f \in Owned(space[t])
           /\ \/ x = <<t, "pdir", 0>> /\ space[t].pdir = f
              \/ \E i \in Table : x = <<t, "pt", i>> /\ space[t].pt[i] = f
              \/ \E p \in Page : x = <<t, "page", p>> /\ space[t].pte[p] = f
    BY <1>0, UserOwns, Zenon
  <2>2. PICK v \in Task :
           /\ space[v] \in Space /\ space[v].pdir # 0 /\ f \in Owned(space[v])
           /\ \/ y = <<v, "pdir", 0>> /\ space[v].pdir = f
              \/ \E i \in Table : y = <<v, "pt", i>> /\ space[v].pt[i] = f
              \/ \E p \in Page : y = <<v, "page", p>> /\ space[v].pte[p] = f
    BY <1>0, UserOwns, Zenon
  <2>3. t = v
    BY <2>0, <2>1, <2>2, Zenon DEF Accounted, Own
  <2>4. Separate(space[t])
    BY <1>0, Zenon DEF SpaceInv
  <2> DEFINE s == space[t]
  <2>5. /\ \/ x = <<t, "pdir", 0>> /\ s.pdir = f
           \/ \E i \in Table : x = <<t, "pt", i>> /\ s.pt[i] = f
           \/ \E p \in Page : x = <<t, "page", p>> /\ s.pte[p] = f
        /\ \/ y = <<t, "pdir", 0>> /\ s.pdir = f
           \/ \E i \in Table : y = <<t, "pt", i>> /\ s.pt[i] = f
           \/ \E p \in Page : y = <<t, "page", p>> /\ s.pte[p] = f
        /\ Separate(s) /\ f # 0
    BY <2>0, <2>1, <2>2, <2>3, <2>4, Zenon
  <2> HIDE DEF s
  <2>6. CASE x = <<t, "pdir", 0>> /\ s.pdir = f
    BY <2>5, <2>6, Zenon DEF Separate
  <2>7. CASE \E i \in Table : x = <<t, "pt", i>> /\ s.pt[i] = f
    <3>1. PICK i \in Table : x = <<t, "pt", i>> /\ s.pt[i] = f
      BY <2>7, Zenon
    <3>2. s.pdir # f /\ \A p \in Page : s.pte[p] # f
      BY <2>5, <3>1, Zenon DEF Separate
    <3>3. \A j \in Table : s.pt[j] = f => j = i
      BY <2>5, <3>1, Zenon DEF Separate
    <3> QED BY <2>5, <3>1, <3>2, <3>3, Zenon
  <2>8. CASE \E p \in Page : x = <<t, "page", p>> /\ s.pte[p] = f
    <3>1. PICK p \in Page : x = <<t, "page", p>> /\ s.pte[p] = f
      BY <2>8, Zenon
    <3>2. s.pdir # f /\ \A i \in Table : s.pt[i] # f
      BY <2>5, <3>1, Zenon DEF Separate
    <3>3. \A q \in Page : s.pte[q] = f => q = p
      BY <2>5, <3>1, Zenon DEF Separate
    <3> QED BY <2>5, <3>1, <3>2, <3>3, Zenon
  <2> QED BY <2>5, <2>6, <2>7, <2>8, Zenon
<1>3. FramesAccounted
  <2> SUFFICES ASSUME "stray" \notin events
               PROVE  LET owned == UNION {Owned(space[t]) : t \in Task}
                      IN used = Kernel \cup owned \cup lost
                         /\ owned \cap (Kernel \cup lost) = {}
    BY Zenon DEF FramesAccounted
  <2> DEFINE owned == UNION {Owned(space[t]) : t \in Task}
  <2>1. Accounted(Kernel, used, Own, lost)
    BY <1>0, Zenon DEF FrameInv
  <2>2. \A t \in Task : Own[t] = Owned(space[t])
    BY Zenon DEF Own
  <2> HIDE DEF Own
  <2>3. \A f : f \in owned <=> \E t \in Task : f \in Own[t]
    BY <2>2, Zenon
  <2> HIDE DEF owned
  <2>4. used = Kernel \cup owned \cup lost
    BY <2>1, <2>3, Zenon DEF Accounted
  <2>5. owned \cap (Kernel \cup lost) = {}
    BY <2>1, <2>3, Zenon DEF Accounted
  <2> QED BY <2>4, <2>5, Zenon DEF owned
<1> QED BY <1>1, <1>2, <1>3, Zenon DEF MemoryInv

\* The invariant makes the two walks over the areas right.
LEMMA WalksRight ==
  ASSUME IInv
  PROVE  VmaWalks
<1>0. \A t \in Task : vmas[t] \in Seq(Vma) /\ Apart(vmas[t])
  BY Zenon DEF IInv, TypeInv, VmasDisjoint, Apart
<1>1. GapIsLowest
  <2> SUFFICES ASSUME NEW t \in Task, NEW n \in 1 .. MaxPages
               PROVE  FindGap(vmas[t], n) = Lowest(vmas[t], n, MMAP_BASE)
    BY Zenon DEF GapIsLowest, Lowest, Room
  <2>1. n \in Nat \ {0}
    BY MemoryAssumption
  <2> QED BY <1>0, <2>1, FindGapLowest, Zenon
<1>2. RemovesOverlapping
  BY <1>0, VmaRemoveRight, Zenon DEF RemovesOverlapping
<1> QED BY <1>1, <1>2, Zenon DEF VmaWalks

\* Every page below the break of sys_brk is there, and a brk that asks for
\* pages it can get succeeds.
LEMMA HeapFine ==
  ASSUME IInv
  PROVE  HeapOK
<1>0. TypeInv /\ SpaceInv /\ FrameInv /\ HeapClear /\ HeapBacked
  BY Zenon DEF IInv
<1>1. HeapCanGrow
  <2> SUFFICES ASSUME events = {}, NEW t \in Task, NEW n \in 1 .. MMAP_BASE - brk[t].break,
                      Alive(t),
                      Cardinality(Free(used))
                        >= n + Cardinality(Missing(space[t], brk[t].break, brk[t].break + n))
               PROVE  AllocRange(On(used, space[t]), brk[t].break, brk[t].break + n, TRUE).ok
    BY Zenon DEF HeapCanGrow
  <2> DEFINE a == On(used, space[t])
             from == brk[t].break
  <2>1. from \in Nat /\ n \in Nat \ {0} /\ from + n <= MMAP_BASE /\ from + n <= NPAGES
    <3>1. from \in Nat
      BY <1>0, TaskTypes, Zenon
    <3>2. n \in 1 .. MMAP_BASE - from
      BY Zenon
    <3>3. /\ NPAGES \in Nat /\ STACK_SIZE \in Nat \ {0}
          /\ MMAP_BASE \in 1 .. NPAGES - STACK_SIZE
      BY Sizes, Zenon
    <3> HIDE DEF from
    <3> QED BY <3>1, <3>2, <3>3
  <2>2. /\ a \in Computation /\ Exact(a, used \ Own[t]) /\ a.ok
        /\ a.used = used /\ a.s = space[t]
    <3>1. Runs(t) /\ a = On(used, space[t])
      BY Zenon DEF Runs
    <3> HIDE DEF a
    <3> QED BY <1>0, <3>1, OnExact, Zenon
  <2>3. \A p \in from .. from + n - 1 : space[t].pte[p] = 0
    <3>1. \A p \in from .. from + n - 1 : p \in brk[t].break .. MMAP_BASE - 1
      BY <2>1, Sizes
    <3> QED BY <1>0, <3>1, Zenon DEF HeapClear
  <2>4. Cardinality(Free(used)) >= n + Cardinality(Missing(space[t], from, from + n))
    BY Zenon
  <2> HIDE DEF a, from
  <2>5. Enough(a, from, from + n)
    <3>1. (from + n) - from = n /\ (from + n) - 1 = from + n - 1
      BY <2>1
    <3>2. \A p \in from .. (from + n) - 1 : a.s.pte[p] = 0
      BY <2>2, <2>3, <3>1, Zenon
    <3>3. Cardinality(Free(a.used)) >= (from + n) - from + Cardinality(Missing(a.s, from, from + n))
      BY <2>2, <2>4, <3>1, Zenon
    <3> QED BY <2>2, <3>2, <3>3, Zenon DEF Enough
  <2>6. AllocRange(a, from, from + n, TRUE).ok
    BY <2>1, <2>2, <2>5, AllocRangeSucceeds, Zenon
  <2> QED BY <2>6, Zenon DEF a, from
<1> QED BY <1>0, <1>1, Zenon DEF HeapOK

-----------------------------------------------------------------------------
(* The theorems.                                                            *)

\* mm_frame_alloc, mm_alloc_at, clone_page_table, sys_exec, sys_fork, sys_brk,
\* sys_mmap2, sys_munmap and sys_mprotect keep the bitmap exact and give no
\* frame two uses, however many tasks, pages and frames there are and wherever
\* memory runs out.
THEOREM MemoryIsExact == Spec => []MemoryInv
BY MemoryInductive, ExactMemory, PTL

\* No two mappings of a task overlap: sys_mmap2 picks a gap or refuses a
\* fixed address that is taken, and vma_remove loses no entry it moves.
THEOREM MappingsAreDisjoint == Spec => []VmasDisjoint
<1>1. IInv => VmasDisjoint
  BY Zenon DEF IInv
<1> QED BY <1>1, MemoryInductive, PTL

\* vma_find_gap returns the lowest gap and vma_remove what overlaps, for
\* every array of mappings that the system calls can build.
THEOREM WalksAreRight == Spec => []VmaWalks
BY MemoryInductive, WalksRight, PTL

\* A page in the area of mmap is covered by a mapping, until a munmap cuts one.
THEOREM MappedPagesCovered == Spec => []MappedHasVma
<1>1. IInv => MappedHasVma
  BY Zenon DEF IInv
<1> QED BY <1>1, MemoryInductive, PTL

\* Every page below the break of sys_brk is there, and a brk that asks for
\* pages it can get succeeds.
THEOREM HeapIsOK == Spec => []HeapOK
BY MemoryInductive, HeapFine, PTL
=============================================================================
