------------------------------- MODULE Memory -------------------------------
(***************************************************************************)
(* Physical frames, address spaces and mappings: arch/i386/mm.c, the part  *)
(* of task_fork that clones an address space, and the exec, brk, mmap2,    *)
(* munmap and mprotect system calls with kernel/elf.c.  System calls run   *)
(* with interrupts off, so each is one step.                               *)
(*                                                                         *)
(* Addresses and lengths are counted in pages, and a page table covers     *)
(* PTSIZE pages.  The kernel's own page tables are shared by every address *)
(* space and left out.  Frame 0 is the kernel's and stands for "none".     *)
(*                                                                         *)
(* History variables.  lost: the frames that are marked used and that no   *)
(* page table names any more, because boot, exec, the end of a task and a  *)
(* page without rights give nothing back.  events: "stray", exec gave back *)
(* frames that were not its buffer (the model stops there); "partial", a   *)
(* munmap that covered a part of a mapping dropped the whole of it; "brk", *)
(* a break was lowered, or raised in vain, which leaves pages above it.    *)
(***************************************************************************)
EXTENDS Integers, Sequences, FiniteSetsExt, Functions

CONSTANTS
  NFRAMES,     \* IDENT_PAGES
  NTASKS,      \* user tasks, the first of which exists at the start
  PTSIZE,      \* pages of a page table (DIR_SIZE)
  NPAGES,      \* pages of the user address space
  MMAP_BASE,   \* first page that mmap hands out
  STACK_SIZE,  \* pages of a stack, which ends with the address space
  MAX_VMA,     \* mappings that a task can have
  ElfFiles,    \* files to execute: pages of the file, segments, validity
  FirstElf,    \* the one the first task runs
  Workloads,   \* bound: the calls that programs make, the frames of the kernel
  MaxPages     \* bound: pages of one mmap, munmap, mprotect

ASSUME MemoryAssumption ==
  /\ {NFRAMES, NTASKS, PTSIZE, STACK_SIZE, MAX_VMA, MaxPages} \subseteq Nat \ {0}
  /\ NPAGES \in Nat /\ MMAP_BASE \in 1 .. NPAGES - STACK_SIZE
  /\ \A w \in Workloads : w.kernel \in 0 .. NFRAMES - 1
  /\ FirstElf \in ElfFiles
  /\ \A e \in ElfFiles :
       /\ e.pages \in Nat \ {0} /\ e.valid \in BOOLEAN
       /\ e.segs \in Seq([from : 0 .. MMAP_BASE, to : 0 .. MMAP_BASE])
       /\ \A i \in DOMAIN e.segs : e.segs[i].from < e.segs[i].to

VARIABLES
  work,      \* the workload of this behaviour
  used,      \* frame_bitmap
  space,     \* the address space of each task
  vmas,      \* task->vmas, vma_count of them
  brk,       \* task->brk_start and program_break
  lost,      \* history: see above
  events     \* history: see above

vars == <<work, used, space, vmas, brk, lost, events>>

Frame == 1 .. NFRAMES - 1
Page == 0 .. NPAGES - 1
NTABLES == (NPAGES - 1) \div PTSIZE + 1
Table == 0 .. NTABLES - 1
TableOf(p) == p \div PTSIZE
Stack == NPAGES - STACK_SIZE .. NPAGES - 1      \* ends at USER_STACK_TOP
Task == 1 .. NTASKS

\* pdir and the page tables are frames; an entry is the frame it maps when
\* it is present, and 0 when it is not: what else it holds is never read.
NoSpace == [pdir |-> 0, pt |-> [i \in Table |-> 0], pte |-> [p \in Page |-> 0]]

NewPdir(d) == [NoSpace EXCEPT !.pdir = d]

Alive(t) == space[t].pdir # 0

-----------------------------------------------------------------------------
(* mm.c.  A running computation a has the bitmap, the address space that is *)
(* being built or changed, whether it still succeeds, the pages done, and   *)
(* the frames it put in entries that are not present.                       *)

On(u, s) == [used |-> u, s |-> s, ok |-> TRUE, done |-> {}, hidden |-> {}]

Free(u) == Frame \ u
FrameAlloc(u) == IF Free(u) = {} THEN 0 ELSE Min(Free(u))
FrameFree(u, fs) == u \ fs

\* mm_alloc_at with mm_map_at: the frame, then the page table if the
\* directory has none; a page that is present stays as it is.
AllocAt(a, p, present) ==
  LET f  == FrameAlloc(a.used)
      u1 == a.used \cup {f}
      i  == TableOf(p)
      pt == IF a.s.pt[i] # 0 THEN a.s.pt[i] ELSE FrameAlloc(u1)
  IN IF ~a.ok \/ f = 0 \/ pt = 0 \/ a.s.pte[p] > 0 THEN [a EXCEPT !.ok = FALSE]
     ELSE [a EXCEPT !.used = u1 \cup {pt}, !.done = @ \cup {p},
                    !.s = [@ EXCEPT !.pt[i] = pt, !.pte[p] = IF present THEN f ELSE 0],
                    !.hidden = IF present THEN @ ELSE @ \cup {f}]

\* n of them, from one page up; the loops of the code are functions of the
\* number of turns.
AllocPages(a, from, n, present) ==
  LET After[k \in 0 .. n] ==
        IF k = 0 THEN a ELSE AllocAt(After[k - 1], from + k - 1, present)
  IN After[n]

AllocRange(a, from, to, present) ==
  IF to > from THEN AllocPages(a, from, to - from, present) ELSE a

\* mm_unmap_at: only a page that is present gives its frame back.
UnmapAll(a, ps) ==
  LET gone == {p \in ps : a.s.pte[p] > 0}
  IN [a EXCEPT !.used = FrameFree(@, {a.s.pte[p] : p \in gone}),
               !.s.pte = [p \in Page |-> IF p \in gone THEN 0 ELSE @[p]]]

\* The loop of sys_mprotect without rights: the entry forgets the frame.
HideAll(a, ps) ==
  LET hit == {p \in ps : a.s.pte[p] > 0}
  IN [a EXCEPT !.hidden = {a.s.pte[p] : p \in hit},
               !.s.pte = [p \in Page |-> IF p \in hit THEN 0 ELSE @[p]]]

\* clone_page_table copies the pages of one table after the other,
\* mm_clone_pdir one table after the other.
ClonePage(a, p, parent) ==
  LET f == FrameAlloc(a.used) IN
  IF ~a.ok \/ parent.pte[p] = 0 THEN a
  ELSE IF f = 0 THEN [a EXCEPT !.ok = FALSE]
  ELSE [a EXCEPT !.used = @ \cup {f}, !.s.pte[p] = f]

ClonePages(a, i, parent) ==
  LET After[k \in 0 .. NPAGES] ==
        IF k = 0 THEN a
        ELSE IF TableOf(k - 1) # i THEN After[k - 1]
        ELSE ClonePage(After[k - 1], k - 1, parent)
  IN After[NPAGES]

CloneTable(a, i, parent) ==
  LET f == FrameAlloc(a.used) IN
  IF ~a.ok \/ parent.pt[i] = 0 THEN a
  ELSE IF f = 0 THEN [a EXCEPT !.ok = FALSE]
  ELSE ClonePages([a EXCEPT !.used = @ \cup {f}, !.s.pt[i] = f], i, parent)

CloneTables(a, parent) ==
  LET After[k \in 0 .. NTABLES] ==
        IF k = 0 THEN a ELSE CloneTable(After[k - 1], k - 1, parent)
  IN After[NTABLES]

\* Mutant: the page tables of the copy are not given back.
CloneUndoneKeepsTables(u, s) ==
  FrameFree(u, {s.pte[p] : p \in {q \in Page : s.pte[q] > 0}} \cup {s.pdir})

\* What clone_page_table and free_cloned_range give back of a copy cut short.
CloneUndone(u, s) ==
  FrameFree(u, {s.pte[p] : p \in {q \in Page : s.pte[q] > 0}}
               \cup {s.pt[i] : i \in Table} \cup {s.pdir})

ClonePdir(u, parent) ==
  LET d == FrameAlloc(u)
      a == CloneTables(On(u \cup {d}, NewPdir(d)), parent)
  IN IF d = 0 THEN [On(u, NoSpace) EXCEPT !.ok = FALSE]
     ELSE IF a.ok THEN a
     ELSE [a EXCEPT !.used = CloneUndone(@, a.s), !.s = NoSpace]

-----------------------------------------------------------------------------
(* VMAs: an unordered array of page ranges, whose rights are never read.    *)

Overlaps(v, from, to) == from < v.end /\ to > v.start
Hits(vs, from, to) == {i \in DOMAIN vs : Overlaps(vs[i], from, to)}

\* vma_find_gap: behind the first mapping in the way, until none is.  An
\* address that wraps round is past the last page.
FindGap(vs, n) ==
  LET From[c \in MMAP_BASE .. NPAGES] ==
        IF c + n > NPAGES THEN -1
        ELSE LET hits == Hits(vs, c, c + n)
             IN IF hits = {} THEN c ELSE From[vs[Min(hits)].end]
  IN From[MMAP_BASE]

\* vma_add fails when the array is full.
VmaAddFits(vs) == Len(vs) < MAX_VMA

\* The last entry moves into the hole of entry i, when i is removed.
Drop(w, i) == [k \in 1 .. Len(w) - 1 |-> IF k = i THEN w[Len(w)] ELSE w[k]]

Look(w, i, from, to) == IF Overlaps(w[i], from, to) THEN Drop(w, i) ELSE w

\* Mutant: vma_remove goes up the array, past the entry it moved.
VmaRemoveUp(vs, from, to) ==
  LET After[k \in 0 .. Len(vs)] ==
        IF k = 0 THEN vs
        ELSE IF k > Len(After[k - 1]) THEN After[k - 1]
        ELSE Look(After[k - 1], k, from, to)
  IN After[Len(vs)]

\* vma_remove goes down the array: the entry moved into a hole has been
\* looked at already.
VmaRemove(vs, from, to) ==
  LET After[k \in 0 .. Len(vs)] ==
        IF k = 0 THEN vs ELSE Look(After[k - 1], Len(vs) + 1 - k, from, to)
  IN After[Len(vs)]

-----------------------------------------------------------------------------
(* The system calls.                                                        *)

Owned(s) == IF s.pdir = 0 THEN {}
            ELSE ({s.pdir} \cup {s.pt[i] : i \in Table}
                  \cup {s.pte[p] : p \in {q \in Page : s.pte[q] > 0}}) \ {0}

\* The first n frames that one mm_frame_alloc after the other hands out.
AllocN(u, n) ==
  LET After[k \in 0 .. n] ==
        IF k = 0 THEN u
        ELSE IF Free(After[k - 1]) = {} THEN After[k - 1]
        ELSE After[k - 1] \cup {FrameAlloc(After[k - 1])}
  IN After[n]

\* elf_load, and the stack of sys_exec: a page at a time, in a new directory.
ElfLoad(a, segs) ==
  LET After[k \in 0 .. Len(segs)] ==
        IF k = 0 THEN a
        ELSE AllocRange(After[k - 1], segs[k].from, segs[k].to, TRUE)
  IN After[Len(segs)]

BrkAt(p) == [start |-> p, break |-> p]
ElfBrkStart(segs) == Max({0} \cup {segs[i].to : i \in DOMAIN segs})

\* The new address space of e, when its file has been read into the frames
\* of u: the directory, the segments and the stack.
Loaded(u, e) ==
  LET d == FrameAlloc(u)
      a == ElfLoad(On(u \cup {d}, NewPdir(d)), e.segs)
  IN IF d = 0 THEN [On(u, NoSpace) EXCEPT !.ok = FALSE]
     ELSE AllocRange(a, Min(Stack), NPAGES, TRUE)

\* sys_exec in a bitmap.  buf are the frames of elf_buf, of which the code
\* keeps the first; back are those it gives back at the end, on every path.
\* A failure after new_pdir gives back new_pdir alone, or not even that.
Exec(u, e) ==
  LET u1   == AllocN(u, e.pages)
      buf  == u1 \ u
      back == IF buf = {} THEN {} ELSE Min(buf) .. Min(buf) + e.pages - 1
      a    == Loaded(u1, e)
      d    == a.s.pdir
      strs == FrameAlloc(a.used)
      ends(ok, v, s, l) == [ok |-> ok, used |-> FrameFree(v, back), s |-> s,
                            lost |-> l, stray |-> back # buf]
  IN IF Cardinality(buf) < e.pages \/ ~e.valid \/ d = 0
     THEN ends(FALSE, u1, NoSpace, {})
     ELSE IF ~a.ok THEN ends(FALSE, a.used \ {d}, NoSpace, Owned(a.s) \ {d})
     ELSE IF strs = 0 THEN ends(FALSE, a.used, NoSpace, Owned(a.s))
     ELSE ends(TRUE, a.used, a.s, {})

\* frame_bitmap_init: the frames of the kernel image.
Kernel == 1 .. work.kernel

\* load_elf_from_vfs at boot, which never gives its buffer back.
Init ==
  /\ work \in Workloads
  /\ LET u == AllocN(Kernel, FirstElf.pages)
         a == Loaded(u, FirstElf)
     IN /\ a.ok
        /\ used = a.used /\ lost = u \ Kernel
        /\ space = [t \in Task |-> IF t = 1 THEN a.s ELSE NoSpace]
  /\ vmas = [t \in Task |-> <<>>]
  /\ brk = [t \in Task |-> IF t = 1 THEN BrkAt(ElfBrkStart(FirstElf.segs))
                           ELSE BrkAt(0)]
  /\ events = {}

Runs(t) == Alive(t) /\ "stray" \notin events

\* What a system call of t left of the bitmap and of its address space.
Leaves(t, a, newly) ==
  /\ used' = a.used /\ space' = [space EXCEPT ![t] = a.s]
  /\ lost' = lost \cup newly

\* sys_exec: the mappings of the old program stay in the table, and the
\* frames of its address space stay in use.
ExecCall(t, e) ==
  LET x == Exec(used, e) IN
  /\ Runs(t)
  /\ used' = x.used
  /\ space' = IF x.ok THEN [space EXCEPT ![t] = x.s] ELSE space
  /\ brk' = IF x.ok THEN [brk EXCEPT ![t] = BrkAt(ElfBrkStart(e.segs))] ELSE brk
  /\ lost' = lost \cup x.lost \cup (IF x.ok THEN Owned(space[t]) ELSE {})
  /\ events' = events \cup (IF x.stray THEN {"stray"} ELSE {})
  /\ UNCHANGED vmas

\* task_fork, as far as memory goes.
Fork(t, c) ==
  LET a == ClonePdir(used, space[t]) IN
  /\ Runs(t) /\ ~Alive(c)
  /\ used' = a.used
  /\ space' = [space EXCEPT ![c] = a.s]
  /\ vmas' = IF a.ok THEN [vmas EXCEPT ![c] = vmas[t]] ELSE vmas
  /\ brk' = IF a.ok THEN [brk EXCEPT ![c] = brk[t]] ELSE brk
  /\ UNCHANGED <<lost, events>>

\* A task is gone, with nothing of its memory given back.
Reap(t) ==
  /\ Runs(t) /\ t # 1
  /\ space' = [space EXCEPT ![t] = NoSpace]
  /\ vmas' = [vmas EXCEPT ![t] = <<>>]
  /\ brk' = [brk EXCEPT ![t] = BrkAt(0)]
  /\ lost' = lost \cup Owned(space[t])
  /\ UNCHANGED <<used, events>>

\* Mutant: the break moves although memory ran out.
BrkMovesAnyway(t, to, ok) == [brk EXCEPT ![t].break = to]

\* sys_brk returns the old break when a page cannot be added.
BrkMoves(t, to, ok) == IF ok THEN [brk EXCEPT ![t].break = to] ELSE brk

\* sys_brk with an address: pages already added stay when a later one cannot
\* be, and lowering the break leaves its pages in place.
Brk(t, arg) ==
  LET to  == IF arg < brk[t].start THEN brk[t].start ELSE arg
      a   == AllocRange(On(used, space[t]), brk[t].break, to, TRUE)
  IN /\ Runs(t)
     /\ Leaves(t, a, {})
     /\ brk' = BrkMoves(t, to, a.ok)
     /\ events' = IF to < brk[t].break \/ (~a.ok /\ a.done # {})
                  THEN events \cup {"brk"} ELSE events
     /\ UNCHANGED vmas

\* Mutant: a fixed address is taken whatever is mapped there.
MmapPlaceUnchecked(t, n, fixed, at) == IF fixed THEN at ELSE FindGap(vmas[t], n)

\* The address of sys_mmap2, -1 for an error.
MmapPlace(t, n, fixed, at) ==
  IF ~fixed THEN FindGap(vmas[t], n)
  ELSE IF Hits(vmas[t], at, at + n) # {} THEN -1 ELSE at

\* Mutant: a failed mapping keeps the pages it had got.
MmapFailedKeeps(a) == a

\* The fail label of sys_mmap2.
MmapFailed(a) == UnmapAll(a, a.done)

Mmap2(t, n, prot, fixed, at) ==
  LET va == MmapPlace(t, n, fixed, at)
      a  == AllocRange(On(used, space[t]), va, va + n, prot)
      ok == a.ok /\ VmaAddFits(vmas[t])
      b  == IF ok THEN a ELSE MmapFailed(a)
  IN /\ Runs(t) /\ va # -1
     /\ Leaves(t, b, b.hidden)
     /\ vmas' = IF ok THEN [vmas EXCEPT ![t] =
                              Append(@, [start |-> va, end |-> va + n])]
                ELSE vmas
     /\ UNCHANGED <<brk, events>>

\* sys_munmap
Munmap(t, va, n) ==
  LET cut == {i \in Hits(vmas[t], va, va + n) :
                ~(va <= vmas[t][i].start /\ vmas[t][i].end <= va + n)}
  IN /\ Runs(t)
     /\ Leaves(t, UnmapAll(On(used, space[t]), va .. va + n - 1), {})
     /\ vmas' = [vmas EXCEPT ![t] = VmaRemove(@, va, va + n)]
     /\ events' = IF cut = {} THEN events ELSE events \cup {"partial"}
     /\ UNCHANGED brk

\* sys_mprotect: a page without rights is no longer present, and never
\* becomes present again.
Mprotect(t, va, n, prot) ==
  LET a0 == On(used, space[t])
      a  == IF prot THEN a0 ELSE HideAll(a0, va .. va + n - 1)
  IN /\ Runs(t)
     /\ Leaves(t, a, a.hidden)
     /\ UNCHANGED <<vmas, brk, events>>

\* Bounds: programs raise the break up to the area of mmap, and map, unmap
\* and protect pages between that area and the stack.
Area == MMAP_BASE .. Min(Stack) - 1
Lengths(va) == {n \in 1 .. MaxPages : va + n <= Min(Stack)}

Calls(t) ==
  \/ "exec" \in work.calls /\ \E e \in ElfFiles : ExecCall(t, e)
  \/ "fork" \in work.calls /\ \E c \in Task : Fork(t, c)
  \/ "exit" \in work.calls /\ Reap(t)
  \/ "brk" \in work.calls /\ \E arg \in 1 .. MMAP_BASE : Brk(t, arg)
  \/ "mmap" \in work.calls /\ \E n \in 1 .. MaxPages, prot \in BOOLEAN :
       Mmap2(t, n, prot, FALSE, 0)
  \/ "mmap" \in work.calls /\ \E at \in Area : \E n \in Lengths(at), prot \in BOOLEAN :
       Mmap2(t, n, prot, TRUE, at)
  \/ "munmap" \in work.calls /\ \E va \in Area : \E n \in Lengths(va) : Munmap(t, va, n)
  \/ "mprotect" \in work.calls /\ \E va \in Area : \E n \in Lengths(va), prot \in BOOLEAN :
       Mprotect(t, va, n, prot)

Next == UNCHANGED work /\ \E t \in Task : Calls(t)

Spec == Init /\ [][Next]_vars

-----------------------------------------------------------------------------
(* Properties.                                                              *)

\* The bitmap, the page tables, the mappings and the breaks have the types
\* of their C declarations, and the mappings fit in their array.
TypeOK ==
  /\ used \subseteq Frame /\ lost \subseteq Frame
  /\ space \in [Task -> [pdir : 0 .. NFRAMES - 1,
                         pt : [Table -> 0 .. NFRAMES - 1],
                         pte : [Page -> 0 .. NFRAMES - 1]]]
  /\ \A t \in Task :
       /\ Len(vmas[t]) <= MAX_VMA
       /\ \A i \in DOMAIN vmas[t] : vmas[t][i].start < vmas[t][i].end
       /\ brk[t].start <= brk[t].break

\* The entries of task t that name frame f, and those of all tasks.
UsersIn(t, f) ==
  (IF space[t].pdir = f THEN {<<t, "pdir", 0>>} ELSE {})
  \cup {<<t, "pt", i>> : i \in {j \in Table : space[t].pt[j] = f}}
  \cup {<<t, "page", p>> : p \in {q \in Page : space[t].pte[q] = f}}
Users(f) == UNION {UsersIn(t, f) : t \in Task}

\* No frame has two uses: what one task writes in a page, or mm.c in a page
\* table, never shows up in a page or a table of another use.  Frames are
\* handed out and taken back by fork, exec, brk and mmap, all of which can
\* run out of them half way.
SoleUse ==
  "stray" \notin events => \A f \in Frame : \A x, y \in Users(f) : x = y

\* The bitmap is exact: a frame is marked if and only if an address space
\* uses it or it is one of those the code is known to drop (the buffer that
\* init was loaded from, the memory of a task that ended or executed another
\* program, the pages of an exec that failed late, pages without rights).  So
\* nothing in use is ever handed out again, and a fork, an mmap or a brk that
\* fails half way keeps nothing.
FramesAccounted ==
  "stray" \notin events =>
    LET owned == UNION {Owned(space[t]) : t \in Task}
    IN used = Kernel \cup owned \cup lost
       /\ owned \cap (Kernel \cup lost) = {}

\* What mm.c rests on: the bitmap is exact and no frame has two uses.
MemoryInv == TypeOK /\ SoleUse /\ FramesAccounted

\* The mappings of a task never overlap, whatever mixture of chosen and
\* fixed addresses, removals and exec led to them.
VmasDisjoint ==
  \A t \in Task : \A i, j \in DOMAIN vmas[t] :
    i # j => ~Overlaps(vmas[t][i], vmas[t][j].start, vmas[t][j].end)

\* vma_find_gap follows an unordered array, and still finds the lowest
\* address with room, or none when there is none.
GapIsLowest ==
  \A t \in Task : \A n \in 1 .. MaxPages :
    LET room == {c \in MMAP_BASE .. NPAGES - n : Hits(vmas[t], c, c + n) = {}}
    IN FindGap(vmas[t], n) = IF room = {} THEN -1 ELSE Min(room)

\* vma_remove moves entries while it walks over them, and still removes the
\* mappings that overlap the range, and no other.
RemovesOverlapping ==
  \A t \in Task : \A va \in Area : \A n \in Lengths(va) :
    Range(VmaRemove(vmas[t], va, va + n)) =
      {v \in Range(vmas[t]) : ~Overlaps(v, va, va + n)}

\* The two walks over the array of mappings do what they are for.
VmaWalks == GapIsLowest /\ RemovesOverlapping

\* As long as no munmap covered a part of a mapping, what is mapped in the
\* area of mmap is covered by a mapping, so the gap that mmap picks is free.
MappedHasVma ==
  "partial" \notin events =>
    \A t \in Task : \A p \in Area :
      space[t].pte[p] > 0 => Hits(vmas[t], p, p + 1) # {}

\* Every page of the heap below the break is present: a program may use all
\* of what brk said it has, also when a later brk ran out of memory.
HeapBacked ==
  "stray" \notin events =>
    \A t \in Task : \A p \in brk[t].start .. brk[t].break - 1 :
      space[t].pte[p] > 0

\* The page tables that the pages from .. to - 1 still need.
Missing(s, from, to) ==
  {i \in Table : s.pt[i] = 0 /\ \E p \in from .. to - 1 : TableOf(p) = i}

\* As long as no break was lowered or raised in vain, a brk succeeds
\* whenever there are frames for its pages and for their page tables.
HeapCanGrow ==
  events = {} =>
    \A t \in Task : \A n \in 1 .. MMAP_BASE - brk[t].break :
      LET to == brk[t].break + n
      IN /\ Alive(t)
         /\ Cardinality(Free(used))
              >= n + Cardinality(Missing(space[t], brk[t].break, to))
         => AllocRange(On(used, space[t]), brk[t].break, to, TRUE).ok

\* What a program may expect of brk: the memory it was promised, and more of
\* it as long as there is some.
HeapOK == HeapBacked /\ HeapCanGrow
=============================================================================
